SPECIFICATION FairSpec
CONSTANTS
  Replicas = {r1, r2, r3}
  NumFiles = 4
  Repeatable = {4}
  Creates = 2
  OwnerOnly = {3, 4}
  Deployments = {TRUE, FALSE}
  MaxCrashes = 2
CHECK_DEADLOCK FALSE
INVARIANTS
  TypeOK
  RunOnce
  ServesMigrated
PROPERTY UpCompletesUnlessOrphaned
