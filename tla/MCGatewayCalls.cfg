SPECIFICATION FairGatewaySpec
CONSTANTS
  c1 = c1
  c2 = c2
  a = a
  b = b
  None = None
  Callers = {c1, c2}
  Targets = {a, b}
  Routes <- Chain
  Limited = {b}
  Secret = {a}
  MaxRetries = 1
  TotalTimeout = 2
  AttemptTimeout = 1
  Delays = {1}
  ProviderCodes = {"unavailable"}
  Threshold = 2
  Recovery = 1
INVARIANTS GatewayTypeOK ReturnsByDeadline AttemptsFollowTheRoute
PROPERTIES CircuitsReadmit
