SPECIFICATION Spec
CONSTANTS
  c1 = c1
  c2 = c2
  r1 = r1
  r2 = r2
  k1 = k1
  k2 = k2
  w1 = w1
  w2 = w2
  None = None
  Callers = {c1, c2}
  Tokens = {c1, c2}
  Runs = {r1}
  Claims = {k1, k2}
  Workers = {w1}
  Commands = {q1}
  Durations = {1, 2}
  IssuedAt <- IssuedInTurn
  FutureSkew = 0
  ReplayWindow = 1
  ClaimRequests <- SameWorker
  Mistakes = {}
  Ops = {"claim", "get_authority", "renew", "release", "commit_with_lease", "commit"}
  Remembered = {}
  Faults = {"fail", "in_doubt"}
  StepBack = 0
  MaxTime = 1
  MaxVersion = 2
  MaxOrphans = 1
SYMMETRY Symmetry
INVARIANTS LeaseTypeOK ClaimsAreHonest OnlyClaimsDeadlock
PROPERTIES HolderMovesItsLease WorkIsFenced ImplementsAuthority
