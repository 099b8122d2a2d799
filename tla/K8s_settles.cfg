SPECIFICATION FairSpec
CONSTANTS
  Keys = {k1}
  Workers = {w1, w2}
  Handlers = {"reconcile"}
  Outcomes = {"ok", "err"}
  GenerationChanged = TRUE
  StatusSubresource = FALSE
  Filtered = FALSE
  Resync = FALSE
  Poll = FALSE
  Secondary = FALSE
  KeepsFinalizer = TRUE
  ApiFaults = FALSE
  MaxRetries = 1
  MaxUserOps = 3
  MaxFaults = 1
  MaxRV = 4
  MaxOld = 2
CHECK_DEADLOCK FALSE
PROPERTIES
  EventuallySettled
  Quiesces
INVARIANTS
  NoGenerationForgotten
