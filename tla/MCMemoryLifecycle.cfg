SPECIFICATION Spec
CONSTANTS
  None = None
  OtherError = OtherError
  r1 = r1
  r2 = r2
  r3 = r3
  k1 = k1
  k2 = k2
  k3 = k3
  k4 = k4
  k5 = k5
  ch1 = ch1
  ch2 = ch2
  ChargeIds = {ch1, ch2}
  RunIds = {r1, r2}
  CommandIds = {k1, k2, k3, k4, k5}
  Callers = {c1, c2}
  Versions = {1, 2, 3, 4}
  Times = {0}
  Deadline = 2
  Commands <- LifecycleCommands
SYMMETRY CallerSymmetry
INVARIANTS
  HistoryMatchesRun
  NeverInvariantViolation
PROPERTIES
  TerminalFrozen
  AppendOnly
