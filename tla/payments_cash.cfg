SPECIFICATION PaymentsSpec
CONSTANTS
  None = None
  Jobs = {j1}
  Mechanics = {}
  Garages = {}
  Requests = {}
  PaymentIds = {p1, p2}
  OtherOrders = {}
  Callbacks = {c1, c2}
  MaxPayouts = 1
  Crashes = FALSE
INVARIANT CashCollectedOnce
CHECK_DEADLOCK FALSE
