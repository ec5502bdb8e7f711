SPECIFICATION FairSpec
CONSTANTS
  c1 = c1
  c2 = c2
  r1 = r1
  r2 = r2
  k1 = k1
  k2 = k2
  w1 = w1
  w2 = w2
  None = None
  Callers = {c1, c2}
  Tokens = {c1, c2}
  Runs = {r1, r2}
  Claims = {k1, k2}
  Workers = {w1, w2}
  Commands = {q1}
  Durations = {1}
  IssuedAt <- IssuedInTurn
  FutureSkew = 1
  ReplayWindow = 1
  ClaimRequests <- TwoWorkers
  Mistakes <- Mistaken
  Ops = {"claim"}
  Remembered = {"claim"}
  Faults = {"in_doubt"}
  StepBack = 0
  MaxTime = 1
  MaxVersion = 3
  MaxOrphans = 1
INVARIANTS ClaimRepliesAreStored WorkersDoNotOverlap
PROPERTIES ImplementsAuthority EveryCallReturns
