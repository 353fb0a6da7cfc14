SPECIFICATION Spec
CONSTANTS
  None = None
  Jobs = {j1}
  Mechanics = {m1, m2}
  Garages = {g1}
  Requests = {r1, r2}
SYMMETRY MCSymmetry
PROPERTIES
  BillHasPayee
  NeverReopened
  AssigneeNotLost
CHECK_DEADLOCK FALSE
