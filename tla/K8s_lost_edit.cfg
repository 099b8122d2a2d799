SPECIFICATION FairSpec
CONSTANTS
  Keys = {k1}
  Workers = {w1}
  Handlers = {"reconcile"}
  Outcomes = {"ok"}
  GenerationChanged = TRUE
  StatusSubresource = TRUE
  Filtered = FALSE
  Resync = FALSE
  Poll = FALSE
  Secondary = FALSE
  KeepsFinalizer = FALSE
  ApiFaults = FALSE
  MaxRetries = 0
  MaxUserOps = 2
  MaxFaults = 0
  MaxRV = 8
  MaxOld = 3
CHECK_DEADLOCK FALSE
PROPERTIES
  EventuallySettled
