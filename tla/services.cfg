SPECIFICATION MCSpec
CONSTANTS
  None = None
  Mechanics = {m1}
  Garages = {}
  AutoVerify = FALSE
  ProviderCalls = {c1, c2}
  ReviewJobs = {j1, j2, j3}
  ReviewIds = {i1, i2, i3}
  ReviewCalls = {c1, c2}
  Candidates <- MCCandidates
  MaxTable = 3
  SearchRadius = 25
  MaxFallbackRows = 2
  Limits = {2, 4}
  Tags <- MCTags
  UserIds = {u1, u2}
  Addresses = {a1}
  Orders = {o1}
  AccountCalls = {c1, c2}
  MaxPasswords = 2
  Tokens = {t1, t2}
  AccessLife = 2
  BlacklistLife = 3
  SessionCalls = {c1, c2}
  Codes = {k1, k2}
  ResetCalls = {c1, c2}
  MaxAttempts = 2
  MaxRequests = 2
  Customer = cust
  Helpers = {h1, h2}
  SocketIds = {s1, s2}
  Messages = {x1, x2}
  RowIds = {r1, r2, r3}
  RecordCalls = {c1, c2}
  PushTokens = {d1}
  TokenCalls = {c1, c2}
  Batches = {b1, b2}
  Acts = {w1, w2}
  DisputeCalls = {c1, c2}
  LoginCalls = {c1, c2}
  MaxFails = 3
  seller1 = seller1
  seller2 = seller2
  admin = admin
  key1 = key1
  key2 = key2
  Sellers = {seller1, seller2}
  Admins = {admin}
  DisplayName <- MCDisplayName
  Keys = {key1, key2}
  Form <- MCForm
  ProductIds = {p1, p2}
  VendorIds = {v1, v2}
  Calls = {c1, c2}
  Customers = {u1}
  Parts = {x1, x2}
  ItemIds = {i1, i2}
  CartCalls = {c1, c2}
  MaxQuantity = 2
  Makes = {"audi", "bmw"}
  Models = {"a4"}
  Years = {1, 2}
  MaxRecords = 2
SYMMETRY MCSymmetry
INVARIANTS
  ServicesTypeOK
  ReviewsTakeEffect
  RatingExact
  SearchComplete
  LoggedOutStaysOut
  GuessesBounded
  ChatAgrees
  NeverDoubled
  LastWordCounts
  DisputeTold
  ChangesAudited
  LockoutEnds
  ReplaysAgree
  VendorNameTrue
  CartExact
  FitmentExplained
PROPERTIES
  AdminDecisionsStand
  OrdersGoWithUser
  OnlyAdminReactivates
  SalesKept
  RemovedStaysRemoved
CHECK_DEADLOCK FALSE
