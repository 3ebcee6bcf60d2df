SPECIFICATION Spec
CONSTANTS
  Ints <- MCInts
  Half = 8
  Default = 3
CHECK_DEADLOCK FALSE
INVARIANTS
  TypeOK
  RpcHasResources
  PlaintextCause
  
