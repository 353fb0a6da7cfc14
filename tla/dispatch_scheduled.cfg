SPECIFICATION FairSpec
CONSTANTS
  None = None
  Jobs = {j1}
  Mechanics = {m1}
  Garages = {g1}
  Requests = {r1, r2}
  Slots = {0, 2}
  MaxTime = 3
  OFFER_TTL = 2
  RETRY_DELAY = 1
  PUSH_DELAY = 0
  Crashes = FALSE
  Churn = FALSE
PROPERTY ScheduledJobsAreOffered
CHECK_DEADLOCK FALSE
