SPECIFICATION Spec
CONSTANTS
  Calls = {c1, c2}
  UserIds = {u1, u2}
  Emails = {e1, e2}
  Deliveries = 2
  Requests <- MCRequests
  NoCall = NoCall
  Blank = Blank
  NoId = NoId
SYMMETRY Symmetry
CHECK_DEADLOCK FALSE
INVARIANTS
  TypeOK
  ConflictExplained
  RetriesCreateOne
  LateWriteAbandoned
  FieldsFromMask
  AnswersTrue
