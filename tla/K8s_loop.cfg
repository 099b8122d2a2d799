SPECIFICATION Spec
CONSTANTS
  Keys = {k1}
  Workers = {w1}
  Handlers = {"reconcile"}
  Outcomes = {"ok", "later"}
  GenerationChanged = FALSE
  StatusSubresource = TRUE
  Filtered = TRUE
  Resync = TRUE
  Poll = TRUE
  Secondary = TRUE
  KeepsFinalizer = TRUE
  ApiFaults = FALSE
  MaxRetries = 1
  MaxUserOps = 2
  MaxFaults = 0
  MaxRV = 5
  MaxOld = 1
CHECK_DEADLOCK FALSE
INVARIANTS
  OwnWritesBounded
