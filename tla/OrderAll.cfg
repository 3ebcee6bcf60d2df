SPECIFICATION FairSpec
CONSTANTS
  Handlers = {h1, h2}
  OrderIds = {o1}
  NoId = NoId
  Users = {u1}
  NoUser = NoUser
  MaxItems = 2
  Faults = {"db", "redis", "rpc", "crash"}
INVARIANTS
  TypeOK
  CacheSound
  StaleExcused
  ReadYourCancel
  OrderUserExisted
  StoredComplete
PROPERTIES
  ImplementsStore
  Converges
