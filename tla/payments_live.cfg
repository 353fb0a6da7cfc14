SPECIFICATION FairPaymentsSpec
CONSTANTS
  None = None
  Jobs = {j1}
  Mechanics = {m1}
  Garages = {}
  Requests = {r1}
  PaymentIds = {p1}
  OtherOrders = {o1}
  Callbacks = {c1}
  MaxPayouts = 1
  Crashes = FALSE
PROPERTIES
  PaidIsRecorded
  ImplementsLifecycle
  CaptureSticks
CHECK_DEADLOCK FALSE
