SPECIFICATION FairSpec
CONSTANTS
  Requests = {r1, r2}
  Script = script
  Signal = signal
  MaxStarts = 2
INVARIANTS
  TypeOK
  RunningMeansServing
  HandlersExcluded
  NeverLeftBehind
PROPERTIES
  ShutdownEndsServe
