SPECIFICATION FairSpec
CONSTANTS
  VUs = {v1, v2}
  Ops = {"CreateUser", "GetOrder"}
  Capacity = 1
  MaxCalls = 3
INVARIANTS
  TypeOK
  NothingLost
  PanicCause
  LineConsistent
PROPERTY Terminates
