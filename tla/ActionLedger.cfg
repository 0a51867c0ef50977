CONSTANTS
  Creates = {c1}
  Updates = {u1, u2}
  Revokes = {r1}
  Fields <- DateFields
  Values <- Days
  Legal <- InOrder
  Drafts <- New
  Inputs <- Asked
  Same = Same
  None = None
  MaxRounds = 2
  MaxRepeated = 1
SPECIFICATION Spec
SYMMETRY Symmetry
INVARIANTS AtMostOnce DocumentsStayLegal EveryChangeIsAudited SuccessIsRecorded
PROPERTY StoreSpec
CHECK_DEADLOCK FALSE
