SPECIFICATION PaymentsSpec
CONSTANTS
  None = None
  Jobs = {j1}
  Mechanics = {m1}
  Garages = {}
  Requests = {r1}
  PaymentIds = {p1}
  OtherOrders = {o1}
  Callbacks = {c1, c2}
  MaxPayouts = 1
  Crashes = TRUE
SYMMETRY MCSymmetry
INVARIANTS
  PaymentsTypeOK
  MoneyRecordedWasPaid
PROPERTIES
  AckedMeansRecorded
CHECK_DEADLOCK FALSE
