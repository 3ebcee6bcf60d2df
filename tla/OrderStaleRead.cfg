SPECIFICATION Spec
CONSTANTS
  Handlers = {h1, h2}
  OrderIds = {o1}
  NoId = NoId
  Users = {u1}
  NoUser = NoUser
  MaxItems = 1
  Faults = {}
INVARIANT GetSeesCancel
