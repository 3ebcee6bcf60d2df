SPECIFICATION Spec
CONSTANTS
  OrderIds = {o1, o2, o3}
  Users = {u1, u2}
  NoUser = NoUser
  DefaultSize = 1
  MaxSize = 3
  Half = 16
  MaxTime = 3
  Pages <- FewPages
  Sizes <- AllSizes
  Interference = {"commit", "tie", "rows"}
SYMMETRY Symmetry
INVARIANTS
  TypeOK
  HasMoreInRange
  WalkExact
  PastEndEmpty
