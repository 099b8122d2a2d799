SPECIFICATION FairSpec
CONSTANTS
  r1 = r1
  r2 = r2
  deployments = deployments
  Replicas = {r1, r2}
  NumChildren = 1
  Kinds = {deployments}
  KindOf <- OneKind
  WatchOwned = {deployments}
  Poll = TRUE
  MaxEdits = 1
  MaxMeddles = 1
  MaxFaults = 1
INVARIANTS
  TypeOK
  OneWriter
PROPERTIES
  WantedNeverPruned
  ChildrenSettle
