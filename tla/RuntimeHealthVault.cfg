SPECIFICATION FairSpec
CONSTANTS
  Handlers = {h1}
  MaxConns = 2
  MaxPools = 1
  UseVault = TRUE
  DbFails = FALSE
  Streams = FALSE
CHECK_DEADLOCK FALSE
PROPERTY HealthRecovers
