SPECIFICATION FairSpec
CONSTANTS
  t1 = t1
  t2 = t2
  p1 = p1
  p2 = p2
  h1 = h1
  h2 = h2
  k1 = k1
  k2 = k2
  Tasks = {t1, t2}
  Procs = {p1}
  ProcessOf <- OneProcess
  Requests <- MCRequests
  InitFile <- MCFile
  SaveBesideRemove = FALSE
  MaxCalls = 3
  MaxFaults = 2
INVARIANTS
  TypeOK
  LockOwned
PROPERTIES
  ImplementsStore
  CallsReturn
CHECK_DEADLOCK FALSE
