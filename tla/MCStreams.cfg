SPECIFICATION FairStreamSpec
CONSTANTS
  c1 = c1
  a = a
  b = b
  None = None
  Callers = {c1}
  Targets = {a, b}
  Routes <- Chain
  Limited = {a}
  Secret = {b}
  MaxRetries = 1
  TotalTimeout = 2
  AttemptTimeout = 1
  Delays = {1}
  ProviderCodes = {"unavailable"}
  Threshold = 2
  Recovery = 1
  FirstByteTimeout = 1
  IdleTimeout = 1
  Chunks <- AllChunks
  MaxChunks = 2
INVARIANTS NothingIsReplayed StreamEndsOnce IteratorsAreClosed ProbeSlotIsOwned
PROPERTIES EveryStreamEnds
