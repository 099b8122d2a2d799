SPECIFICATION FairSpec
CONSTANTS
  NumItems = 2
  WorkerCounts = {0, 1}
  MaxCalls = 2
  MaxOpen = 1
INVARIANTS
  TypeOK
  AllOrNothing
  AppliedOnce
  NothingOutlives
PROPERTIES
  MapEnds
CHECK_DEADLOCK FALSE
