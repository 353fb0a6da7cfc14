SPECIFICATION Spec
CONSTANTS
  None = None
  Jobs = {j1}
  Mechanics = {m1, m2}
  Garages = {g1}
  Requests = {r1, r2}
  Slots = {0, 2}
  MaxTime = 3
  OFFER_TTL = 2
  RETRY_DELAY = 1
  PUSH_DELAY = 0
  Crashes = TRUE
  Churn = TRUE
SYMMETRY MCSymmetry
INVARIANTS
  TypeOK
  SingleWinner
  WinnerIsAssignee
  NothingBeforeSlot
  AssigneeFitsRequest
PROPERTIES
  CancelledStaysCancelled
  ImplementsAward
CHECK_DEADLOCK FALSE
