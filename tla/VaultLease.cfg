SPECIFICATION Spec
CONSTANTS
  Leases = {4, 12, 21}
  Floor = 3
  RetryAfter = 3
  FetchTime = 1
  SwapTime = 2
  StartTime = 2
  TokenLife = 30
  Horizon = 25
INVARIANTS
  TypeOK
  ExpiryHasCause
  OutageRecovers
