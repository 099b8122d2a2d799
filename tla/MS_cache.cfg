SPECIFICATION Spec
CONSTANTS
  Procs = {p1, p2}
  Revs = {r1, r2}
  NumFiles = 3
  MaxOps = 4
  MaxCrashes = 1
  MaxFails = 1
SYMMETRY Symmetry
INVARIANTS
  TypeOK
  VerifyTells
  LoadIsWhatWasLocked
  QuietMeansComplete
CHECK_DEADLOCK FALSE
