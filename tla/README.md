# ClutchD backend: TLA+ models, checks and proofs

ClutchD is a roadside-assistance service. A customer posts a service request (a
*job*), the backend offers it to nearby mechanics and garages, one of them accepts,
the job runs through its states, a bill is written and paid. Around the jobs there are a
parts marketplace, accounts, provider discovery and verification, chat, reviews and a
number of small records. The backend is a FastAPI application on PostgreSQL (SQLAlchemy,
one session per HTTP request), with Redis and a Celery worker; everything concurrent
happens between database sessions, Redis commands, tasks, sockets and the payment
gateway's callbacks. These modules model that part of it, TLC checks them on small
instances, and TLAPS proves their safety properties for every instance.

Paths below are relative to `src/backend/app/` unless they start with `src/`.

## 1. Inventory

| component | state | operations | interacts with | correct when |
|---|---|---|---|---|
| Dispatch (`services/offer_service.py`, `job_service.create_service_request`, `api/v1/offers.py`) | `jobs`, `provider_offers` | create request, create offers, accept, decline, cancel | matching (who is asked), worker (retry, push), job row lock | one winner per job, the one the job row names; right type; not before the slot; none after a cancel |
| Celery worker (`tasks/worker.py`) | tasks in Redis | `retry_job_assignment`, `dispatch_offer_push` | reads what dispatch committed, creates offers | a late, lost or useless task does no harm; a committed offer is announced |
| Job lifecycle (`services/job_service.py`, `api/v1/service.py`, `api/v1/jobs.py`) | status, assignee and bill columns of `jobs` | patch, finalize, complete, cancel, delete, admin assign | payments complete jobs, dispatch assigns them | transitions of `VALID_TRANSITIONS`; no lost assignee; a bill names its payee |
| Payments (`api/v1/payments.py`, hold/release in `service.py`, refunds in `admin.py`, `services/payout_service.py`) | `payments`, the gateway's orders and webhooks | create, QR, verify, webhook, cash, hold, release, refund | gateway at least once, job row | recorded money was collected; an acknowledged capture is recorded; nothing is collected or paid out twice |
| Database session (`db/session.py`) | the open transaction | commit after the handler, rollback on an exception | every handler | a handler's writes are visible together or not at all |
| Matching (`services/matching.py`) | none (queries) | nearest mechanics/garages, PostGIS or fallback | dispatch, providers | both paths find the fit providers and nobody else, best first |
| Providers, KYC, verification (`providers.py`, `profile.py`, `admin.py`) | provider rows | register, toggle, send photos, verify, review, penalize | matching reads them | what an admin decided stands, photos get into the review queue |
| Accounts (`auth_service.py`, `auth.py`, `settings.py`, `admin.py`) | `users` and what hangs on them | register, Google sign-in, change password, delete, disable | all | orders go only with their user, only an admin reactivates |
| Tokens (`core/security.py`, `deps.py`, `token.py`) | JWTs with the client, the blacklist in Redis | issue, refresh, logout | every request | a token that was logged out stays out |
| Failed logins (`auth.py`) | a count per address in Redis | log in | | a lockout ends |
| Forgotten password (`auth.py`) | three Redis keys per address | request, reset | mail | guesses per code are bounded |
| Marketplace: listings (`marketplace.py`) | products, vendors, categories | create with a client request id, update, delete, order, sales | accounts | a submission makes one product, vendor names agree, sales stay with the seller |
| Marketplace: cart (`marketplace.py`) | cart lines | add, set, remove, clear | | the cart holds what the answers add up to, a removed line stays removed |
| Marketplace: fitment (`marketplace.py`) | fitment rows | check a vehicle | | an answer follows from the rows |
| Reviews (`reviews.py`) | reviews, the provider's rating | review a finished job | jobs, matching | the rating is the average of the reviews |
| Found-or-created rows (`settings.py`, `card.py`, `profile.py`, `referral.py`, `favorites.py`, `fleet.py`, `garage_routes.py`) | one row per user (or pair) | get, update, add, remove | users | never two |
| Device tokens and push (`device_tokens.py`, `push_service.py`) | `device_tokens` | register, unregister, send, deactivate | worker, FCM | the last word on a token counts |
| WebSockets and chat (`ws/manager.py`, `main.py`) | sockets per user, chat messages | connect, die, send, fetch history | jobs | what is shown is stored, what is stored is shown |
| Disputes and audit trail (`admin.py`, `api/audit.py`) | the dispute's status and texts, `audit_logs` | update, refund, penalize, message | payments, providers | the texts tell what was done, no change without its record |
| Notifications, tickets, safety, FAQ, mail | single rows, texts | CRUD | few | no protocol to model |
| Deployment watchdogs (`src/deploy/`) | counters on disk | probe, heal, alert | systemd | restart budget respected |

What makes this system hard:

* **Read, decide, write.** PostgreSQL runs at READ COMMITTED and only
  `create_provider_offers` and `accept_offer` lock what they read. Every other handler
  decides on a row another request may change before it commits.
* **Column-wise writes.** SQLAlchemy's `UPDATE` sets the columns whose value changed in
  memory. Two handlers therefore merge rather than overwrite each other.
* **The commit comes last.** `get_db` commits after the handler has returned and before
  the response is sent; tasks enqueued by the handler are in Redis before that.
* **Callbacks.** The gateway repeats a webhook until it gets a 2xx, in any order, next to
  the client's own `verify`.
* **Find or create.** Most rows of a user are made by whichever request comes first and
  finds none; only some of the tables have a unique index, and the handlers' look fails
  on two rows.
* **Redis without transactions.** Each command is atomic, a handler's sequence of them is
  not: a guess at a reset code reads, compares, counts and deletes in separate commands.
* **Copies of shared state.** A message goes to sockets copied out of the registry while
  clients come and go; a push batch works on tokens loaded before.
* **Records beside the transaction.** The audit row is committed in a session of its own
  before the change it records, and its failure is only logged.
* **Death between two steps.** Sessions, statements (30 s timeout) and workers may be
  lost; Celery acknowledges a task when it starts, so it is lost with the worker.

`PROJECT.json` lists the hazards with the line at which each bites.

## 2. Modules

```
Orm ──┬── JobRows ──┬── Dispatch ── MCDispatch     (implements OfferAward, and
      │             │      └─────── DispatchProofs  JobLifecycle job by job)
      │             └── JobLifecycle ── MCJobLifecycle
      │                     ├── JobLifecycleProofs ──┐
      │                     └── Payments ── MCPayments        (implements JobLifecycle)
      │                             └── PaymentsProofs (extends both)
      ├── Listings, Cart, Fitments     ── MarketplaceProofs ┐
      ├── Providers, Reviews, Matching, Chat, DeviceTokens  │
      ├── Accounts, PasswordReset (and Sessions, Logins     ├── MCServices ── ServicesProofs
      │   without Orm)                 ── AuthProofs        │           (extends the other four
      ├── Records                      ── RecordsProofs     │            proof modules as well)
      └── Disputes                     ── DisputesProofs    ┘
```

A module ending in `Proofs` extends its components and TLAPS; ServicesProofs extends the MC
module as well, since its last theorems are about the composition. The MC modules extend the
components alone.

Dispatch and Payments write `jobs` from two sides. Their interface is **JobLifecycle**: one
row and the requests in flight on it. Both are proved to implement it, Payments with
the mapping `JobSide` (a payment's handler in flight is one more request on the row if it
changes it), Dispatch with `Life(j)` (the row from its commit on, and the cancels of that
job): neither does anything to a job that JobLifecycle, which has all its writers, leaves out.

* **Orm**: how SQLAlchemy's unit of work writes a row back (`OrmChanges` is what differs
  from the loaded row, `OrmFlush` the `UPDATE` of those columns). Every handler that edits
  a row it has loaded is modelled with it, in two steps: read and decide, then write and
  commit (or fail and leave everything as it was).
* **JobRows**: providers, the columns of `jobs` all components share, the transition
  table, and the edits several handlers make (`Assign`, `Cancel`).
* **Dispatch**: `job`, `offer`, `expires` are committed rows; `txn` is a session that is
  creating offers (from its `FOR UPDATE` to its commit); `tasks` is Redis; `notified` is
  what the push task announced; `req` holds accept, decline and cancel requests between
  their read and their commit. `booking` is what the customer asked for and `eligible`
  whom matching would return (verified, available, in range).
  `CreateServiceRequest`+`CommitCreate` are `POST /jobs/create`;
  `RetryAssignment`+`CommitRetry` and `RetryIgnored` the retry task; `DispatchOfferPush`
  the push task; `AcceptRead` and then `AcceptWins` or `AcceptLoses` the accept;
  `DeclineRead`+`DeclineCommit` and `CancelRead`+`CancelCommit` the others; `Rollback`,
  `RequestFails` and `TaskLost` the failures. A statement that needs the job row's lock
  is guarded by `~Locked(j)`. An id of a job whose transaction was rolled back is never
  used again.
* **OfferAward**: what dispatch promises, without offers, tasks, locks or sessions: post,
  award to a provider of the right type and not before the slot, withdraw.
* **JobLifecycle**: one row after its creation and every handler that writes its status,
  assignee or bill, as `Load` (SELECT, checks, edits in memory: `req[r].changes` is the
  diff) and `CommitUpdate`/`CommitDelete`. An accept is one step, since it reads under
  the lock. `service_amount` is abstracted to whether it is set, `provider_upi_id` to the
  provider it was copied from.
* **Payments**: extends JobLifecycle with the payments of that job. A handler is
  `Begin` (what it read decides what it will write) and `CommitCall`; `paid` and
  `events` are the gateway's side; `payouts` counts the calls of `process_payouts` that
  pay. Amounts do not matter to the properties and are left out. Order ids name
  payments, since each is created with one, and a captured row's `ref`
  (`provider_payment_id`) names the order whose payment it is. `VerifyPayment` takes any row
  and any order with a genuine payment, of this job or another (`OtherOrders`): the handler
  checks the signature of the two ids it was sent and looks the row up by its own id.
  `ReleasePayment` takes a held payment, or any with a `ref`.

* **Listings**: products with `client_request_id` (unique), vendors (name not unique),
  the one category that may have to be created, and which products some order names.
  `CreateReplayed` answers a replay, `CreateProduct`+`CommitCreate` make the product;
  `UpdateProduct`+`CommitUpdate` and `DeleteProduct`+`CommitDelete` are under the ownership
  rule `MayEdit`. `answers` is a history variable: what the clients were told.
* **Cart**: lines of `marketplace_cart_items`. `AddItem` computes the new quantity from
  the line it read and `CommitSet` writes the number; `UpdateItem` with 0 ends in the
  exception on which the session is rolled back, so the line stays, although the answer is
  204, "Item removed" (`AnswerZero`). `wanted` is what the answers add up to, a zero quantity
  counted as the removal it was said to be, `kept` what such removals have left in the cart, and
  `overlapped` whether a customer ever had two requests in flight.
* **Fitments**: the check as a function of the rows in *some* order (the query has no
  `ORDER BY`), compared with a definition that looks at the set of rows. The rows of the seed
  for products that fit all vehicles (`Universal`, without a make) are among them; no query
  selects one.
* **Providers**: the verification, KYC, penalty and availability columns of a provider's
  row under the owner's and the admins' handlers. `granted` and `unseen` record what was
  decided and which photos nobody has reviewed; `crossed` marks providers on whose row two
  requests overlapped.
* **Reviews**: check, insert-and-average, commit; and `DeleteJob`, which takes the reviews of a
  job with it and computes no average (`withdrawn` are those a rating still counts). The
  average is represented by the set of reviews it is of, which tells apart exactly what an
  average can get wrong here.
* **Matching**: `PostgisFetch` runs the query or, when its statement fails, `Fallback`
  filters and ranks in Python in the same session. On SQLite that works; on PostgreSQL the
  failed statement has aborted the transaction, so the fallback's first statement fails
  too (`FallbackFails`), although `services/matching.py:30` speaks of a fallback. What is
  checked of both paths is one definition, `Suits`, written from the rows alone.
* **Accounts**: user rows, the rows that hang on them (`profiles`, `linked`) and orders,
  which do not. Registration is a check and an insert under the unique index on the
  address; `OauthGoogle` finds, links or creates; deleting a user is the two-phase handler
  that first tries to delete and then, on an `IntegrityError`, rolls back and anonymises.
* **Sessions**: access tokens and the one Redis set that is the blacklist. `blacklist_token`
  is two commands, `AddToBlacklist` (SADD) and `SetExpiry` (EXPIRE, of the whole set), between
  which others run and after the first of which a request may fail or die (`CutOffRevoking`),
  with the same answer to the client. `Logout` and `RevokeRefresh` (the refresh token, of a
  logout or of a rotation) begin with the first. `unextended` are the tokens no EXPIRE has
  covered since they were put in. `Pass` ages everything, `RedisComesOrGoes` makes the check
  fail open.
* **PasswordReset**: the three keys of one address, one action per Redis command,
  requests cut off between any two, keys expiring at any moment.
* **Logins**: the count of failed logins of one address, likewise; `stranded` counts the
  requests that died between `INCR` and `EXPIRE`.
* **Chat**: one job's sockets, the registry, the stored messages, what each client shows.
  The handler of a message goes through three stages: `StoreMessage`, then for the customer
  and for the provider `send_json_to_user`, which is `CopySockets` (under the manager's lock),
  a `SendCopy` for each socket of the copy, and `RemoveBroken`, which takes those whose send
  failed out of the map. Every one is a step of its own: other handlers, connections, closures,
  deaths and history requests come in between. A socket that is closed meanwhile leaves every
  copy, since a send to it fails and there is nothing of it to remove.
* **Records**: the eleven find-or-create (or check-then-insert) handlers, by kind of row;
  `OwnRow` are the kinds whose `user_id` is unique. An UPDATE of a row that is gone fails, a
  DELETE of one only logs a warning.
* **DeviceTokens**: a user's tokens under registrations, unregistrations and batches of
  pushes; a batch's flush of a refused token holds the row's lock until its commit.
* **Disputes**: one dispute under the admins' four handlers, with the decorator that
  writes the audit row (`WriteAudit`) between the handler and its commit. The comment at
  `api/audit.py:52` calls that "fire-and-forget", but it is awaited, which is what the model
  has and what `ChangesAudited` depends on.

Definitions called *Defect variant* are not part of the model: each is a plausible bug
used in place of the definition it stands before, to show that the properties can tell
the difference.

## 3. Runs

| run | checks | instance |
|---|---|---|
| `dispatch_safety` | `TypeOK`, `SingleWinner`, `WinnerIsAssignee`, `NothingBeforeSlot`, `AssigneeFitsRequest`, `CancelledStaysCancelled`, `ImplementsAward` | 1 job, 2 mechanics, 1 garage, 2 requests, slots 0 and 2, time to 3, crashes and churn on |
| `dispatch_live` | `RequestsAnswered`, `OffersAnnounced` | 1 mechanic, 1 garage, fairness, churn on, crashes off |
| `dispatch_scheduled` | `ScheduledJobsAreOffered`: **violated** | as `dispatch_live`, no churn |
| `dispatch_decided` | `DecidedOffersStay`: **violated** | as `dispatch_scheduled`, without fairness |
| `lifecycle` | `BillHasPayee`, `NeverReopened`, `AssigneeNotLost` | 2 mechanics, 1 garage, 2 requests |
| `lifecycle_terminal` | `TerminalStays`: **violated** | 1 mechanic, 1 garage, 2 requests |
| `payments_safety` | `PaymentsTypeOK`, `MoneyRecordedWasPaid`, `AckedMeansRecorded` | 1 payment, 1 order of another job, 2 handlers, 1 job request, 1 mechanic, crashes on |
| `payments_live` | `PaidIsRecorded`, `CaptureSticks`, `ImplementsLifecycle` | 1 payment, 1 order of another job, 1 handler at a time, 1 job request, fairness |
| `payments_cash` | `CashCollectedOnce`: **violated** | 2 payments, 2 handlers |
| `payments_payout` | `PaidOutOnce`: **violated** | 1 payment, 1 handler |
| `services` | `ServicesTypeOK` and the properties of the fourteen services below | see below |
| `cart_zero` | `ZeroRemoves`: **violated** | as `services` |

The properties of `services`, with the instance of each part (two requests at a time
everywhere they exist):

| part | properties | instance |
|---|---|---|
| providers | `ReviewsTakeEffect`, `AdminDecisionsStand` | 1 mechanic |
| reviews | `RatingExact` | 3 jobs, 3 reviews |
| matching | `SearchComplete` | tables of up to 3 rows out of 8 kinds (each failing one condition), limits 2 and 4, fallback cut at 2 |
| accounts | `OrdersGoWithUser`, `OnlyAdminReactivates` | 2 users in succession, 1 address, 1 order, 2 passwords |
| sessions | `LoggedOutStaysOut` | 2 tokens, lives 2 and 3 |
| logins | `LockoutEnds` | 3 failures allowed |
| reset | `GuessesBounded` | 2 codes, 2 attempts, 2 requests per hour |
| chat | `ChatAgrees` | the customer and 2 helpers, 2 sockets, 2 messages |
| records | `NeverDoubled` | 3 rows |
| devices | `LastWordCounts` | 1 token, 2 batches |
| disputes | `DisputeTold`, `ChangesAudited` | 2 acts |
| listings | `ReplaysAgree`, `VendorNameTrue`, `SalesKept` | 2 sellers of one display name, 1 admin, 2 submissions, 2 products, 2 vendors |
| cart | `CartExact`, `RemovedStaysRemoved` (and `ZeroRemoves`) | 1 customer, 2 parts, 2 lines, quantity to 2 |
| fitments | `FitmentExplained` | up to 2 rows, 2 makes, 1 model, 2 years |

Components that share no state and call nothing of each other are checked in one run:
the MC module picks a part in its initial state and steps only that one, so the run
visits the states of each part and not their product. Ids that are interchangeable (of the
product and vendor an old listing begins with, of requests, of sockets) are taken in one of
their orders, by `MCInit` and by symmetry.

**Bounds.** Jobs do not interact in the tables modelled here (offers, tasks and locks are
per job), so one job is enough; the proofs are for any number. Three providers of two
types give two rivals of one type and one of the other; two requests are the smallest
number that can race, and a request that ends frees its slot, so any number of them
follow each other. `MaxTime`, `OFFER_TTL`, `RETRY_DELAY` and `PUSH_DELAY` are scaled
down so that a slot may come after the retry, an offer may expire while a task is
still to run, and push may precede or follow a commit. `MaxPayouts` bounds the payout
counter: once more than the property allows is enough to refute it. In `payments_safety` a second
payment would only add a copy: the three properties speak of one payment at a time.

In the services two requests are the smallest number that can race over a row, and the
slots are used again. Ids that are never given out twice (products, lines, users, rows,
codes, tokens) bound the length of a behaviour: there are as many of them as a property
needs to be violated (two products, of one submission or of two sellers; three reviews so
that one follows two that overlapped; a second user after the first was deleted).
`MaxAttempts`, `MaxFails` and `MaxRequests` are 5, 5 and 3 in the code. Token lives 2 and 3 stand for
lives of which the blacklist has the longer one, as in `core/security.py`; the proof is
for all. The seven odd candidates of the matching table are a fit one with one thing
changed, so every condition of the query decides some search.

**Qualified properties.** Some properties speak only of histories in which two requests
did not overlap on one row, because the code promises no more: `RatingExact`, `CartExact`,
`ReviewsTakeEffect`, `LastWordCounts`, `DisputeTold`, `GuessesBounded`, `NeverDoubled` for
the kinds without a unique column. A history variable marks such an overlap, and the
comment at the property says what then happens. What they do cover is everything else:
failures between any two steps, long sequences, overlaps on other rows, and (in
`RatingExact`) the repair by the next request. `RatingExact` and `CartExact` also name what
the code leaves behind: the reviews of deleted jobs, the lines of zero quantities.
`LoggedOutStaysOut` is about tokens that one EXPIRE, of any request, has covered: a token
whose own EXPIRE was lost comes back when the expiry the set had before runs out, unless
another revocation extends it, and the code has only a log line for that.

**Deadlock.** Dispatch ends when the clock stops and the tasks are gone; a job that is
deleted is the end of JobLifecycle and Payments; the services end when the ids of their
bounds are used up. Those runs say `CHECK_DEADLOCK FALSE`;
waiting for a lock for ever is what `RequestsAnswered` excludes.

**Fairness.** `Fairness` of Dispatch assumes only what runs by itself: the server
finishes requests it has begun (commit, roll back, or fail), the worker runs due tasks,
time passes. Customers and providers owe nothing. `PaymentsFairness` adds that the
gateway delivers a webhook again until it is answered: strong fairness of
`WebhookCaptured`, because other handlers may be in the way in between.

**CaptureSticks and PaidIsRecorded** are checked with one handler at a time: they show that the
order of the webhooks does no harm. With two handlers at once a `payment.failed` that
read the payment as pending can commit after the capture and overwrite it; the source
promises nothing about that, so it is described in the hazards and not claimed.

**OffersAnnounced** is about offers that are committed while their push task is still to run.
A push that overtakes the commit announces nothing and is not repeated (two seconds'
delay is the only guard), and one lost with its worker does not come back, which is why
`dispatch_live` runs without crashes; both are in the hazards.

**Searches that fail.** `SearchComplete` is about searches that are answered. On a
PostgreSQL without PostGIS none is: see Matching above.

### Where the code does not do what it says

* **An answer is not final** (`dispatch_decided`). Accept reads its offer before it locks
  the job and does not read it again, decline takes no lock. In flight together, both
  succeed and the later one's status stands: the job may be assigned to a provider whose
  offer says declined. `src/backend/tests/test_accept_decline_offers.py:335`: "Already
  accepted/declined offers return 409 on decline."
* **A scheduled job may never be offered** (`dispatch_scheduled`). It gets one retry, 45 s
  after it was posted, and if the slot is later than that nothing else calls
  `create_provider_offers`. `services/offer_service.py:42-44` relies on the retry, "or a
  due-time scheduler", which does not exist.
* **Terminal is not terminal** (`lifecycle_terminal`). Two patches from the same status
  are both validated against it, and the second reopens what the first closed. The admin
  assignments and a capture do not look at the status at all. `services/job_service.py:24-25`
  marks both statuses `# terminal`.
* **Cash can be collected twice** (`payments_cash`): `api/v1/payments.py:351` checks for
  an existing payment, without a lock or a constraint.
* **A capture can be paid out twice** (`payments_payout`): the guard of `verify` and the
  webhook (`api/v1/payments.py:167`, `:231`) is "not captured", and a refunded or
  released payment is not captured. The comments there say "Idempotent".
* **A removed item stays in the cart** (`cart_zero`). `update_cart_item` deletes the line of a
  zero quantity and then raises its 204, "Item removed" (`api/v1/marketplace.py:984`), on which
  `get_db` rolls back. `api/v1/marketplace.py:966`: "Update item quantity (set to 0 to remove)."

Four more the models contain, without a run of their own:

* A product that fits all vehicles is "unknown" for each of them: the seed writes it a row
  without a make (`src/backend/scripts/bootstrap_db.py:357`: "Universal-fit products (fit all
  vehicles)"), and the query selects by make (`api/v1/marketplace.py:527`).
* The rating is "real avg from reviews" (`models/mechanic.py:25`), but not after the deletion
  of a reviewed job, until the next review (`services/job_service.py:501-502`).
* `verify` marks a payment captured by the signed ids of an order it does not compare with the
  payment's own (`api/v1/payments.py:146-161`), so `MoneyRecordedWasPaid` says that recorded
  money names a collected payment, and not that it is the row's own order's.
* The audit row is not "fire-and-forget" (`api/audit.py:52`) but awaited before the commit.

## 4. Proofs

TLAPS proves every invariant and every action property of the passing runs, and both refinements
they check, for every value of the constants: any number of jobs, providers, users,
rows and requests in flight (finite or not, but for the two sets that are counted, see
*Assumptions*). What is left to TLC is liveness, see *Only model-checked*.

A proof module first states the inductive invariant of each component as a conjunction of
named parts, then one lemma or case per action, then the theorems. Each inductive invariant
was model-checked on a small instance before it was proved. Most of them have to say
something about the requests that are between their read and their commit: a
property of the rows alone is never inductive when a handler writes what it decided earlier.

| module | theorems (property) |
|---|---|
| `DispatchProofs` | `TypeCorrect` (`TypeOK`), `Invariance`, `OneWinner` (`SingleWinner`), `WinnerOnJobRow` (`WinnerIsAssignee`), `OffersWaitForSlot` (`NothingBeforeSlot`), `AssigneeFits` (`AssigneeFitsRequest`), `CancelIsFinal` (`CancelledStaysCancelled`), `Refinement` (`ImplementsAward`), `RefinesLifecycle` |
| `JobLifecycleProofs` | `LifecycleInvariance`, `JobTypeCorrect` (`TypeOK`), `JobNeverReopened` (`NeverReopened`), `JobAssigneeNotLost` (`AssigneeNotLost`), `JobBillHasPayee` (`BillHasPayee`) |
| `PaymentsProofs` | `PaymentsInvariance`, `PaymentsTypeCorrect` (`PaymentsTypeOK`), `MoneyIsReal` (`MoneyRecordedWasPaid`), `NoCaptureForgotten` (`AckedMeansRecorded`), `SerialCaptureSticks` (`CaptureSticks`, one handler at a time), `PaymentsRefineLifecycle` (`ImplementsLifecycle`), `LifecycleUnderPayments` |
| `MarketplaceProofs` | `ListingsInvariance`, `ReplaysGetOneProduct` (`ReplaysAgree`), `VendorsInvariance`, `VendorNamesTrue` (`VendorNameTrue`), `SalesStay` (`SalesKept`), `CartInvariance`, `CartAddsUp` (`CartExact`), `RemovedForGood` (`RemovedStaysRemoved`), `AnswersExplained` (`FitmentExplained`), `ListingsTyped`, `CartTyped`, `FitmentsTyped` |
| `ServicesProofs` | `ReviewsInvariance`, `RatingIsExact` (`RatingExact`), `ProvidersInvariance`, `DecisionsTakeEffect` (`ReviewsTakeEffect`), `DecisionsStand` (`AdminDecisionsStand`), `DeviceTokensInvariance`, `LastWordHolds` (`LastWordCounts`), `ChatInvariance`, `HistoryAndSocketsAgree` (`ChatAgrees`), `SearchInvariance`, `SearchFindsAll` (`SearchComplete`), `ReviewsTyped`, `ProvidersTyped`, `DeviceTokensTyped`, `ChatTyped`, `MatchingTyped`, `PartsOfTheServices`, `ServicesTyped` (`ServicesTypeOK`) |
| `AuthProofs` | `SessionsTypeCorrect`, `SessionsInvariance`, `LogoutHolds` (`LoggedOutStaysOut`), `LoginsInvariance`, `LoginsTypeCorrect`, `NoEndlessLockout` (`LockoutEnds`), `ResetInvariance`, `GuessesStayBounded` (`GuessesBounded`), `ResetTyped`, `AccountsInvariance`, `OrdersKept` (`OrdersGoWithUser`), `DisabledStaysDisabled` (`OnlyAdminReactivates`), `AccountsTyped` |
| `RecordsProofs` | `RecordsInvariance`, `OwnRowsAreSingle` (`NeverDoubled`), `RecordsTyped` |
| `DisputesProofs` | `NoSilentChange` (`ChangesAudited`), `ToldInvariance`, `DisputesTold` (`DisputeTold`), `DisputesTyped` |

**Assumptions.** The named `ASSUME` of each component, evaluated by TLC in the runs: ids are
not NULL and none is of two kinds (they are UUIDs, `None` is NULL); bounds and limits are
naturals, positive where the code has a positive constant; the blacklist's life is not
shorter than a token's; nobody signs up with the address an anonymised user gets
(`deleted_<id>@deleted.local`: `EmailStr` refuses the domain `.local`); every submission has a form; the requests of `Logins` and of
`PasswordReset` are finitely many, since the count of those in flight is part of what is
promised. `SerialCaptureSticks` has the hypothesis that there is at most one handler of
payments, which is what `payments_live` checks; with two the property is false (see the
hazards).

### Dispatch

`SingleWinner` is not inductive: an accept that has read its offer as pending
could follow another that won. What rules it out is that `AcceptWins` needs the job to be
`searching`, together with `WinnerIsAssignee`: an accepted offer means the job has left
`searching` and names that provider, so two accepted offers name the same one. To keep
`WinnerIsAssignee` when a job row is inserted, no offer of an uncommitted job may exist
(`UncommittedIsAbsent`). `OffersAreDue` (committed offers and those in an open transaction
are of the right type and due) together with `RequestsAreGrounded` (a request in flight was made for an
offer that exists) carries `NothingBeforeSlot` and `AssigneeFitsRequest` through the
stale read of an accept. `UnclaimedHasNoAssignee` (a row nobody was assigned to is blank)
is what the refinement needs: the award's `winner` changes in the step that awards.
`IInv` is the conjunction of these.

`RefinesLifecycle` maps, for one job, its row and the cancels in flight of it to
JobLifecycle. A cancel is there a request with the change `status = cancelled`
(`CancelOf`): `LifeCancels` shows that this is the diff the unit of work finds when the
handler edits the row it has read, and that its commit merges it into the row as it is
then. The accept is the lifecycle's one step under the lock (`LifeAccepts`); accepts and declines
still reading, offers, tasks and crashes are no step of the row at all (`LifeRest`). The
bill columns stay empty.

### Job lifecycle

`LifecycleInv` is about the columns a request in flight is going to write (`changes`, the
difference to the row it *read*). `Forward`: into the status only one of the statuses, and never
`searching`; never NULL over a payee. `HandsOver`: one that is not an admin's writes a mechanic with the type or
nothing of the assignee. Since the unit of work leaves the other columns alone, these hold
of whatever row the changes meet, which gives `NeverReopened` and `AssigneeNotLost`.
`BringsPayee` ties a bill in flight to the row: it brings the payee, or the row has one; that
this stays so while others commit is again `Forward`. The lemmas on the unit of work
(`FlushFits` and its neighbours) say what a diff against one row does to another.

### Payments

`PaymentsInv` extends `LifecycleInv`: a payment's handler also completes the job, with
changes that are `Forward`. `CallsOK` says what a handler that has begun may
write: it records or pays out money only under a `Genuine` payment, one the gateway holds of
this job's or another's orders, which it brings or the row has (`UpdateOK`, `PayoutOK`); an
insert only under an id nobody has (`InsertOK`), the answer to a capture only together with its
record (`EventOK`). What it read may be stale at its commit; `paid` only grows and no write
takes a `ref` away, so what it was told stays true. For `CaptureSticks` the serial case adds `FailsPending`: a failed
attempt is about to be written only over a payment that still is pending.

`PaymentsRefineLifecycle` shows that a handler that begins with a change to the job takes
JobLifecycle's step `PaymentCompletesJob`, that its commit is `CommitUpdate` and its failure
`RequestFails`, and that one without a change is none of the job's steps. JobLifecycle completes only a
job that is there, and a handler reads the payment, not the job; `GoneWithJob` says that the
payments of a deleted job are gone with it, so it never finds one.
`LifecycleUnderPayments` restates `NeverReopened`, `AssigneeNotLost` and `BillHasPayee` for the
whole system: the lemmas of JobLifecycleProofs on a commit are stated of changes and rows,
so they apply to a handler of payments too.

### Listings, cart and fitments

`ReplaysAgree`: `OneProduct` (no two products of one submission, by the unique index at the
commit) and `AnswersTrue` (an answer names a product of its submission, by then or
deleted) need that no update in flight is about to write `client_request_id`
(`CallsShape`: the unit of work writes only columns that were edited)
and that ids are not given out twice (`RowsShape`).

`VendorNameTrue`: an update writes the vendor's id and its name together or neither
(`Paired`), which is *not* what the code says (it assigns both, and SQLAlchemy drops what
does not differ): it follows from the row it read having the name of its vendor, and that
the names of two vendors differ. So the invariant has to hold of rows and requests
together, and only until twins exist (`TwinVendors`).

`CartExact`: the only request of a customer has read lines that still are as it read them
(`ReadsTrue`), and the cart has one line per product, with what is wanted and what is kept
(`Books`): a zero quantity moves what was wanted to `kept`, a removal or a set empties it. The
quantity in the cart is a sum over lines (`InCart`, a fold); `OneLineSum` and `NoLineSum`
compute it for the sets of one line and of none, which are the only ones that occur. No
induction is needed for that. `RemovedStaysRemoved` needs only the shape: a write of a
quantity is an `UPDATE`, and an id is not given out twice.

`FitmentExplained` is proved of whichever row the database puts first, and of rows without a make.

The types of Listings (`ListingsTyped`) need besides that
an answer and an order name products that were there once, that a submission in flight was
posted, and that a vendor's name is that of some user.

### Providers, reviews and matching

`AdminDecisionsStand` follows from `Respects`: a request that is no decision does not have
`verified` among its changes, and none has `penalized` with FALSE. It holds where requests
overlap. `ReviewsTakeEffect` does not, and its invariant is `Timely`: a request nobody came
between with would, applied to the row *as it is now*, leave it the way it decided.

`RatingExact`: `ExactCall` says that a request that has been alone so far is alone, and
that the average it is about to commit is of what is stored and of its own review; a deletion
of a review it has counted ends its being alone, and one of a review that is in the rating moves
it to `withdrawn`. Where
requests do overlap, `AveragesStored` still holds (the average is of reviews that are or were
stored, if not of all of them), and that is what `ReviewsTyped` rests on.

`SearchComplete`: both paths sort and cut, so the lemmas are about sequences. `RankedHasAll`
(a ranking of a finite set has each of its members once, best first), `FirstOfRanked` (the first
of a ranking are ranked), `SuitsIsGated` (the gates, the filter by skill and the radius of
either path together say of a row what `Suits` says, the resolution of the issue included), `OldestAreAll` (the
cut at `MaxFallbackRows` loses nobody while the table is not longer, which is what the
property asks of the fallback). That an answer shorter than its limit was not cut is then
a matter of cardinalities. A ranking is characterised, not computed, so no induction over it is needed.

### Chat and device tokens

`ChatAgrees` speaks of messages that are through. The invariant adds how far the handler of
each has come (`OnItsWay`): past the first await the message is stored; past the
customer's sockets it is shown at every one that watches; and between the copy and the last
send each watching socket of the recipient shows it or is still to be sent it. A socket that
begins to watch after the copy has fetched a history that has the message, since it is stored
first, which is what the defect variant `Stages_RelayFirst` breaks. The map the sockets are
copied from misses no live one (`LiveIsRegistered`), and a handler takes only dead ones out.

`LastWordCounts`: a token that two have not held together has `OneHolder`, and the
changes of the one who holds it lead to what it says (`OpenTokenCall`), although a
registration that found the token as it wants it writes nothing. For the types
(`DeviceTokensTyped`) that is too much, since two may hold a token: `TypedTokenCall` says of each request
only that it brings a whole row, or edits one that is there.

### Who gets in

*Sessions.* The difficulty is that the blacklist has one expiry, which every revocation moves
in a command of its own. `RevokedIsListed` says that a token with time left that an EXPIRE has
covered is in the set and the set has at least as much left: an EXPIRE gives the set its full
life, or moves it from none at all to that, which no token exceeds either way; nothing ever
shortens it but time, and time takes one from both, or only from the token. An SADD without its
EXPIRE leaves the expiry as it was or, in an empty set, makes one that does not end.

*Logins and forgotten passwords* count requests. `FailsAccounted`: a count without an end
is of failures whose requests are about to give it one or died (`stranded`).
`FailsLimited` and `GuessesCounted` add to the count those who were let in by it and have
not been counted yet; the bounds follow with the number of requests there can be. The
lemmas `LoginMoves` and its sisters say how the cardinalities change when one request takes
a step. `ResetTyped` bounds the two counts themselves (`ResetCounts`): each is read before
it is raised, so it passes its limit, by no more than the requests that were let in by
one reading.

*Accounts.* `OpenAccountCall`: a deletion in flight still finds its user's orders to be
that user's or the user gone, and no edit of a user's own is about to set `is_active`.
The types (`AccountsTyped`) contain more than types: no two users have one address
(the unique index, checked where each request commits), every provider has its profile and
every profile its user. Anonymising gives a user a new address; that nobody has it yet is
where the assumption on `.local` is used.

### Records and disputes

`NeverDoubled`, with no assumption at all. For kinds with a unique column the index keeps
the rows `Single`. For the others, as long
as no two inserts have overlapped, one in flight is `Alone` and has found nothing, which
is still true when it commits.

`ChangesAudited`: a request that has reached the step before its commit has left its row,
or the logged failure to write it (`AuditedIsLogged`). Neither is ever taken back, also
when the request fails afterwards.

`DisputeTold`: `ToldInv` says that a request which extends a text nobody else has in hand
has read it as it is (`UpToDate`), that two with one text in hand have been noticed
(`Noticed`), and that a flushed row does not go away before its commit (`LockHolds`), so
that every act is applied at most once (`Fresh`) and is in its text.

`DisputesTyped`: a closed dispute says when it was closed. Status and time are two columns, and
the unit of work drops the time where the row read had one, so `TypedAct` says of a request
that closes the dispute that it writes the time or the row has it, whoever wrote it since.

### The services together

`MCServices` steps one part and leaves the others alone. `PartsOfTheServices` shows that each
part then follows its own specification, so that every theorem above holds of the composition
the run checks; the composed type invariant follows from the parts' in one step.

### What proving changed

Three definitions had `CASE` arms that overlap (`FinalizePrice`, `CommitCall`, `Resolve`),
where TLC takes the first and the logic any: they are `IF ... ELSE IF` now, as the code
is. The assumptions on `None` in Payments, Reviews and Disputes, and that the requests of
Logins and PasswordReset are finitely many, were found by leaves that could not be proved
without them; so was `Addresses \cap UserIds = {}` in Accounts. `Forward` first said only that a change never
writes `searching`; to apply it to the changes of a payment's handler it had to say that what
is written is a status. `NoChange` is a function with an empty domain, which the
proofs compare with the changes of a request that edits nothing.

### Only model-checked

* Liveness: `RequestsAnswered`, `OffersAnnounced`, `PaidIsRecorded` (fairness and `ENABLED`
  are out of the prover's reach).
* The violations: that a property is false is shown by TLC's counterexample.

## 5. Not modelled, and the plan

Left out for good: text, prices, distances beyond their order, formatting, e-mail, uploads, logging,
dashboards, lists and other read-only queries, migrations, seeds and scripts. They change no
state the properties tell apart. Left out because each is one user's edit of one row that
nothing else decides on: notifications, tickets, payout details, fleet vehicles, job
vehicles, product reviews, marketplace offers and coupons. Positions of mechanics are relayed without being kept but for
one every `LOCATION_DB_INTERVAL_SEC`, so the last one may not be stored; nothing depends on it
but the next search. The watchdogs are shell scripts that systemd runs one at a time; they see the
backend only through an HTTP probe.

Known behaviours that no property excludes, because nothing in the repository promises
otherwise: two `cart` adds in flight together make two lines, and later adds of that product
fail; two first products of one seller make two vendors of one name, and every later
product of theirs fails; two device-token batches may wait for each other's rows, and the database
breaks the deadlock; a wrong guess that is still counting when a new code is sent can take
the new code away; a socket is authenticated only when it connects.

Not done:

* *One composition* of Dispatch, JobLifecycle and Payments, with accepts in flight while an
  admin reassigns or a party deletes the job. The refinements show that Dispatch
  and Payments keep to JobLifecycle, which has all the writers of the row, but the offers of a job
  are only in Dispatch: what an admin's reassignment leaves of `WinnerIsAssignee` is not stated.
* *Abstract specifications* in the manner of `OfferAward` for the payment of a job (money
  comes in once, goes out at most once, unless the known findings happen) and for the cart.
