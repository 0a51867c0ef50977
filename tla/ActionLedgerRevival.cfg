CONSTANTS
  Creates = {c1}
  Updates = {u1, u2}
  Revokes = {r1}
  Fields <- DateFields
  Values <- Days
  Legal <- InOrder
  Drafts <- New
  Inputs <- Asked
  Same = Same
  None = None
  MaxRounds = 1
  MaxRepeated = 1
SPECIFICATION Spec
PROPERTY RevokedIsFinal
CHECK_DEADLOCK FALSE
