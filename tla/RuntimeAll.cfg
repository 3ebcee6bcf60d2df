SPECIFICATION FairSpec
CONSTANTS
  Handlers = {h1, h2}
  MaxConns = 1
  MaxPools = 2
  UseVault = TRUE
  DbFails = TRUE
  Streams = TRUE
CHECK_DEADLOCK FALSE
INVARIANTS
  TypeOK
  OpenPools
PROPERTIES
  RotationEnds
  ShutdownEnds
  MonitorRecovers
