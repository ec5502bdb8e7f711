SPECIFICATION Spec
CONSTANTS
  None = None
  OtherError = OtherError
  r1 = r1
  r2 = r2
  r3 = r3
  k1 = k1
  k2 = k2
  k3 = k3
  k4 = k4
  k5 = k5
  ch1 = ch1
  ch2 = ch2
  ChargeIds = {ch1, ch2}
  RunIds = {r1, r2}
  CommandIds = {k1, k2, k3, k4}
  Callers = {c1, c2}
  Versions = {1, 2, 3}
  Times = {0, 1}
  Deadline = 1
  MaxOrphans = 1
  Commands <- RaceCommands
SYMMETRY CallerSymmetry
INVARIANTS
  ReceiptsExplainHistory
  SnapshotsAgree
  RepliesAreStored
  InDoubtStillApplies
PROPERTIES
  ImplementsHistory
  FailureMeansNoEffect
