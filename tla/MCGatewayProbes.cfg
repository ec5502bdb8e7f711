SPECIFICATION GatewaySpec
CONSTANTS
  c1 = c1
  c2 = c2
  a = a
  b = b
  None = None
  Callers = {c1, c2}
  Targets = {a, b}
  Routes <- Direct
  Limited = {}
  Secret = {}
  MaxRetries = 0
  TotalTimeout = 2
  AttemptTimeout = 1
  Delays = {1}
  ProviderCodes = {"unavailable"}
  Threshold = 1
  Recovery = 1
SYMMETRY Symmetry
INVARIANTS OneProbeAtATime
