SPECIFICATION PaymentsSpec
CONSTANTS
  None = None
  Jobs = {j1}
  Mechanics = {}
  Garages = {}
  Requests = {r1}
  PaymentIds = {p1}
  OtherOrders = {}
  Callbacks = {c1}
  MaxPayouts = 2
  Crashes = FALSE
INVARIANT PaidOutOnce
CHECK_DEADLOCK FALSE
