SPECIFICATION Spec
CONSTANTS
  Keys = {k1}
  Workers = {w1}
  Handlers = {"reconcile", "finalize"}
  Outcomes = {"ok", "err"}
  GenerationChanged = TRUE
  StatusSubresource = TRUE
  Filtered = FALSE
  Resync = FALSE
  Poll = FALSE
  Secondary = FALSE
  KeepsFinalizer = TRUE
  ApiFaults = TRUE
  MaxRetries = 0
  MaxUserOps = 3
  MaxFaults = 1
  MaxRV = 6
  MaxOld = 2
CHECK_DEADLOCK FALSE
PROPERTIES
  FinalizedUnlessReused
INVARIANTS
  TypeOK
  ReadyMeansHandled
