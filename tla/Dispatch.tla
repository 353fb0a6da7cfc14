------------------------------ MODULE Dispatch ------------------------------
(***************************************************************************)
(* How a service request finds its provider: create_service_request fans   *)
(* offers out to matching providers, two Celery tasks follow (a retry when *)
(* nobody matched, a push when somebody did), and the providers accept or  *)
(* decline while the customer may cancel.                                  *)
(*                                                                         *)
(* Every HTTP request has its own database session at READ COMMITTED: a    *)
(* plain SELECT sees what is committed at that moment and is not repeated, *)
(* so a request that decides on what it read is two steps, the read and    *)
(* the commit.  create_provider_offers holds the job row FOR UPDATE from   *)
(* its first statement until its caller commits.                           *)
(***************************************************************************)
EXTENDS JobRows

CONSTANTS
  Requests,      \* accept, decline and cancel requests that can be in flight
  Slots,         \* values of scheduled_at, 0 being "immediate"
  MaxTime,       \* the clock stops here: bounds the model
  OFFER_TTL,     \* timedelta(minutes=15)
  RETRY_DELAY,   \* countdown=45 of retry_job_assignment
  PUSH_DELAY,    \* countdown=2 of dispatch_offer_push
  Crashes,       \* TRUE: sessions may die before they commit
  Churn          \* TRUE: providers may come and go while the system runs

ASSUME TimingAssumption ==
  /\ Slots \subseteq Nat
  /\ MaxTime \in Nat
  /\ OFFER_TTL \in Nat
  /\ RETRY_DELAY \in Nat
  /\ PUSH_DELAY \in Nat

ASSUME SwitchAssumption == Crashes \in BOOLEAN /\ Churn \in BOOLEAN

VARIABLES
  now,       \* the clock all hosts share
  booking,   \* what the customer asks for: request_type and scheduled_at
  eligible,  \* providers that matching would return for these jobs
  job,       \* committed rows of jobs
  offer,     \* committed provider_offers.status per (job, provider)
  expires,   \* committed provider_offers.expires_at
  txn,       \* the open transaction that is creating offers for a job
  tasks,     \* Celery tasks enqueued and not yet started
  notified,  \* (job, provider) pairs that dispatch_offer_push has announced
  req        \* accept / decline / cancel requests past their checks

vars == <<now, booking, eligible, job, offer, expires, txn, tasks, notified, req>>

Pairs == Jobs \X Providers
OfferStatus == {"none", "pending", "accepted", "declined"}
Booking == [type : RequestTypes, at : Slots]

\* by: who holds the transaction. "fresh" is an id no request has used yet.
Txn == [by : {"fresh", "create", "retry", "idle"}, offers : SUBSET Providers,
        expires : Nat]
Fresh == [by |-> "fresh", offers |-> {}, expires |-> 0]
NoTxn == [by |-> "idle", offers |-> {}, expires |-> 0]

Task == [kind : {"retry", "push"}, job : Jobs, eta : Nat]

Idle == [op |-> "idle", job |-> None, by |-> None]
Request == {Idle}
           \cup [op : {"accept", "decline"}, job : Jobs, by : Providers]
           \cup [op : {"cancel"}, job : Jobs, by : {None}]

TypeOK ==
  /\ now \in Nat
  /\ booking \in [Jobs -> Booking]
  /\ eligible \in SUBSET Providers
  /\ job \in [Jobs -> JobRow]
  /\ offer \in [Pairs -> OfferStatus]
  /\ expires \in [Pairs -> Nat]
  /\ txn \in [Jobs -> Txn]
  /\ tasks \in SUBSET Task
  /\ notified \in SUBSET Pairs
  /\ req \in [Requests -> Request]

Init ==
  /\ now = 0
  /\ booking \in [Jobs -> Booking]
  /\ eligible \in SUBSET Providers
  /\ job = [j \in Jobs |-> NoRow]
  /\ offer = [jp \in Pairs |-> "none"]
  /\ expires = [jp \in Pairs |-> 0]
  /\ txn = [j \in Jobs |-> Fresh]
  /\ tasks = {}
  /\ notified = {}
  /\ req = [r \in Requests |-> Idle]

------------------------------------------------------------------------------
(* Creating offers.                                                        *)

\* A session that runs create_provider_offers on a committed row keeps the
\* row locked until it commits.
Locked(j) == txn[j].by = "retry"

\* Defect variant: request_type is not looked at.
Candidates_AnyType(j) == eligible

\* The providers matching can return: verified, available, in range (eligible)
\* and of the requested type.
Candidates(j) ==
  {p \in eligible : booking[j].type \in {ProviderType(p), "auto"}}

\* Defect variant: scheduled_at is not looked at.
NewOffers_IgnoreSlot(j) ==
  LET unasked == {p \in Candidates(j) : offer[<<j, p>>] = "none"}
  IN {S \in SUBSET unasked : S = {} => unasked = {}}

\* The providers that get a new offer row. Nearest-first with a limit, so any
\* non-empty part of the candidates; nobody before scheduled_at; ON CONFLICT
\* DO NOTHING skips those who have an offer already.
NewOffers(j) ==
  IF booking[j].at > now
  THEN {{}}
  ELSE LET unasked == {p \in Candidates(j) : offer[<<j, p>>] = "none"}
       IN {S \in SUBSET unasked : S = {} => unasked = {}}

RetryTask(j) == [kind |-> "retry", job |-> j, eta |-> now + RETRY_DELAY]
PushTask(j)  == [kind |-> "push",  job |-> j, eta |-> now + PUSH_DELAY]

\* POST /jobs/create up to its last statement: the row and the offers are
\* flushed, the follow-up task is already in Redis, nothing is committed.
CreateServiceRequest(j) ==
  /\ txn[j] = Fresh
  /\ \E found \in NewOffers(j) :
       /\ txn' = [txn EXCEPT ![j] = [by |-> "create", offers |-> found,
                                     expires |-> now + OFFER_TTL]]
       /\ tasks' = tasks \cup {IF found = {} THEN RetryTask(j) ELSE PushTask(j)}
  /\ UNCHANGED <<now, booking, eligible, job, offer, expires, notified, req>>

\* The offers of the open transaction become visible.
InsertOffers(j) ==
  /\ offer' = [jp \in Pairs |->
       IF jp[1] = j /\ jp[2] \in txn[j].offers THEN "pending" ELSE offer[jp]]
  /\ expires' = [jp \in Pairs |->
       IF jp[1] = j /\ jp[2] \in txn[j].offers THEN txn[j].expires ELSE expires[jp]]

\* get_db commits after the handler has returned.
CommitCreate(j) ==
  /\ txn[j].by = "create"
  /\ job' = [job EXCEPT ![j] = NewRow]
  /\ InsertOffers(j)
  /\ txn' = [txn EXCEPT ![j] = NoTxn]
  /\ UNCHANGED <<now, booking, eligible, tasks, notified, req>>

\* The session dies, or the handler raises after the flush: get_db rolls back.
\* What was enqueued stays enqueued.
Rollback(j) ==
  /\ Crashes
  /\ txn[j].by \in {"create", "retry"}
  /\ txn' = [txn EXCEPT ![j] = NoTxn]
  /\ UNCHANGED <<now, booking, eligible, job, offer, expires, tasks, notified, req>>

\* retry_job_assignment on a job that is still searching. With nothing to
\* insert the transaction commits as it is; otherwise the push is enqueued and
\* the offers wait for the commit.
RetryAssignment(j) ==
  \E t \in tasks :
    /\ t.kind = "retry" /\ t.job = j /\ t.eta <= now
    /\ job[j].status = "searching"
    /\ ~Locked(j)
    /\ \E found \in NewOffers(j) :
         IF found = {}
         THEN /\ tasks' = tasks \ {t}
              /\ UNCHANGED txn
         ELSE /\ tasks' = (tasks \ {t}) \cup {PushTask(j)}
              /\ txn' = [txn EXCEPT ![j] = [by |-> "retry", offers |-> found,
                                            expires |-> now + OFFER_TTL]]
    /\ UNCHANGED <<now, booking, eligible, job, offer, expires, notified, req>>

\* The job is not committed yet, was rolled back, or has left "searching": the
\* task does nothing, and nothing enqueues it again.
RetryIgnored(j) ==
  \E t \in tasks :
    /\ t.kind = "retry" /\ t.job = j /\ t.eta <= now
    /\ job[j].status # "searching"
    /\ tasks' = tasks \ {t}
    /\ UNCHANGED <<now, booking, eligible, job, offer, expires, txn, notified, req>>

\* Defect variant: the worker's session is never closed.
CommitRetry_KeepsLock(j) ==
  /\ txn[j].by = "retry"
  /\ InsertOffers(j)
  /\ txn' = [txn EXCEPT ![j].offers = {}]
  /\ UNCHANGED <<now, booking, eligible, job, tasks, notified, req>>

CommitRetry(j) ==
  /\ txn[j].by = "retry"
  /\ InsertOffers(j)
  /\ txn' = [txn EXCEPT ![j] = NoTxn]
  /\ UNCHANGED <<now, booking, eligible, job, tasks, notified, req>>

\* Defect variant: garages are looked up among the mechanics.
DispatchOfferPush_MechanicsOnly(j) ==
  \E t \in tasks :
    /\ t.kind = "push" /\ t.job = j /\ t.eta <= now
    /\ tasks' = tasks \ {t}
    /\ notified' = notified \cup
         {jp \in Pairs : jp[1] = j /\ offer[jp] = "pending" /\ jp[2] \in Mechanics}
    /\ UNCHANGED <<now, booking, eligible, job, offer, expires, txn, req>>

\* dispatch_offer_push: one Notification per provider whose offer is pending.
\* The job's own status is not looked at; a job or offers not committed yet
\* leave nothing to announce.
DispatchOfferPush(j) ==
  \E t \in tasks :
    /\ t.kind = "push" /\ t.job = j /\ t.eta <= now
    /\ tasks' = tasks \ {t}
    /\ notified' = notified \cup
         {jp \in Pairs : jp[1] = j /\ offer[jp] = "pending"}
    /\ UNCHANGED <<now, booking, eligible, job, offer, expires, txn, req>>

\* Celery acknowledges a task when a worker starts it: a worker killed before
\* its session commits takes the task with it.
TaskLost(j) ==
  /\ Crashes
  /\ \E t \in tasks :
       /\ t.job = j /\ t.eta <= now
       /\ tasks' = tasks \ {t}
  /\ UNCHANGED <<now, booking, eligible, job, offer, expires, txn, notified, req>>

------------------------------------------------------------------------------
(* Answering an offer, and cancelling.                                     *)

\* accept_offer up to the lock: the offer is mine, pending and not expired.
AcceptRead(r, j, p) ==
  /\ req[r] = Idle
  /\ offer[<<j, p>>] = "pending"
  /\ now <= expires[<<j, p>>]
  /\ req' = [req EXCEPT ![r] = [op |-> "accept", job |-> j, by |-> p]]
  /\ UNCHANGED <<now, booking, eligible, job, offer, expires, txn, tasks, notified>>

\* Defect variant: the locked row is loaded without "status == searching".
AcceptWins_NoRecheck(r) ==
  LET j == req[r].job
      p == req[r].by
  IN /\ req[r].op = "accept"
     /\ ~Locked(j)
     /\ offer' = [offer EXCEPT ![<<j, p>>] = "accepted"]
     /\ job' = [job EXCEPT ![j] = Assign(@, p)]
     /\ req' = [req EXCEPT ![r] = Idle]
     /\ UNCHANGED <<now, booking, eligible, expires, txn, tasks, notified>>

\* The row lock is granted and the row still says searching: offer and job are
\* written and committed under the lock. The offer is not read again.
AcceptWins(r) ==
  LET j == req[r].job
      p == req[r].by
  IN /\ req[r].op = "accept"
     /\ ~Locked(j)
     /\ job[j].status = "searching"
     /\ offer' = [offer EXCEPT ![<<j, p>>] = "accepted"]
     /\ job' = [job EXCEPT ![j] = Assign(@, p)]
     /\ req' = [req EXCEPT ![r] = Idle]
     /\ UNCHANGED <<now, booking, eligible, expires, txn, tasks, notified>>

\* 409: the row no longer says searching.
AcceptLoses(r) ==
  /\ req[r].op = "accept"
  /\ ~Locked(req[r].job)
  /\ job[req[r].job].status # "searching"
  /\ req' = [req EXCEPT ![r] = Idle]
  /\ UNCHANGED <<now, booking, eligible, job, offer, expires, txn, tasks, notified>>

DeclineRead(r, j, p) ==
  /\ req[r] = Idle
  /\ offer[<<j, p>>] = "pending"
  /\ req' = [req EXCEPT ![r] = [op |-> "decline", job |-> j, by |-> p]]
  /\ UNCHANGED <<now, booking, eligible, job, offer, expires, txn, tasks, notified>>

\* decline_offer takes no lock on the job and leaves it alone.
DeclineCommit(r) ==
  /\ req[r].op = "decline"
  /\ offer' = [offer EXCEPT ![<<req[r].job, req[r].by>>] = "declined"]
  /\ req' = [req EXCEPT ![r] = Idle]
  /\ UNCHANGED <<now, booking, eligible, job, expires, txn, tasks, notified>>

\* POST /service/request/{id}/cancel: cancel_job returns early on a closed job.
CancelRead(r, j) ==
  /\ req[r] = Idle
  /\ job[j].status \notin {"absent", "completed", "cancelled"}
  /\ req' = [req EXCEPT ![r] = [op |-> "cancel", job |-> j, by |-> None]]
  /\ UNCHANGED <<now, booking, eligible, job, offer, expires, txn, tasks, notified>>

\* The UPDATE waits for the row lock, then overwrites the status it finds.
CancelCommit(r) ==
  /\ req[r].op = "cancel"
  /\ ~Locked(req[r].job)
  /\ job' = [job EXCEPT ![req[r].job] = Cancel(@)]
  /\ req' = [req EXCEPT ![r] = Idle]
  /\ UNCHANGED <<now, booking, eligible, offer, expires, txn, tasks, notified>>

\* statement_timeout while waiting for the lock, or a lost connection: 500, and
\* get_db rolls back.
RequestFails(r) ==
  /\ Crashes
  /\ req[r] # Idle
  /\ req' = [req EXCEPT ![r] = Idle]
  /\ UNCHANGED <<now, booking, eligible, job, offer, expires, txn, tasks, notified>>

------------------------------------------------------------------------------
(* The environment.                                                        *)

\* PATCH /providers/availability, an admin verifying or penalizing a provider.
ProviderComesOrGoes(p) ==
  /\ Churn
  /\ eligible' = IF p \in eligible THEN eligible \ {p} ELSE eligible \cup {p}
  /\ UNCHANGED <<now, booking, job, offer, expires, txn, tasks, notified, req>>

Tick ==
  /\ now < MaxTime
  /\ now' = now + 1
  /\ UNCHANGED <<booking, eligible, job, offer, expires, txn, tasks, notified, req>>

DispatchStep(j) ==
  \/ CreateServiceRequest(j)
  \/ CommitCreate(j)
  \/ Rollback(j)
  \/ RetryAssignment(j)
  \/ RetryIgnored(j)
  \/ CommitRetry(j)
  \/ DispatchOfferPush(j)
  \/ TaskLost(j)

AnswerStep(r) ==
  \/ \E j \in Jobs, p \in Providers : AcceptRead(r, j, p) \/ DeclineRead(r, j, p)
  \/ AcceptWins(r)
  \/ AcceptLoses(r)
  \/ DeclineCommit(r)
  \/ \E j \in Jobs : CancelRead(r, j)
  \/ CancelCommit(r)
  \/ RequestFails(r)

Next ==
  \/ \E j \in Jobs : DispatchStep(j)
  \/ \E r \in Requests : AnswerStep(r)
  \/ \E p \in Providers : ProviderComesOrGoes(p)
  \/ Tick

Spec == Init /\ [][Next]_vars

\* The server finishes the requests it has begun, the worker runs due tasks,
\* time passes. Customers and providers may do nothing.
Fairness ==
  /\ WF_vars(Tick)
  /\ \A j \in Jobs :
       /\ WF_vars(CommitCreate(j) \/ CommitRetry(j) \/ Rollback(j))
       /\ WF_vars(RetryAssignment(j) \/ RetryIgnored(j))
       /\ WF_vars(DispatchOfferPush(j))
  /\ \A r \in Requests :
       WF_vars(AcceptWins(r) \/ AcceptLoses(r) \/ DeclineCommit(r) \/ CancelCommit(r)
               \/ RequestFails(r))

FairSpec == Spec /\ Fairness

------------------------------------------------------------------------------
(* Safety.                                                                 *)

\* At most one provider's offer for a job is ever "accepted", however the
\* accepts, declines, cancels and retries overlap (docstring of accept_offer:
\* "only one concurrent accept succeeds").
SingleWinner ==
  \A j \in Jobs : \A p, q \in Providers :
    offer[<<j, p>>] = "accepted" /\ offer[<<j, q>>] = "accepted" => p = q

\* The offer table and the job row agree: an accepted offer belongs to the
\* provider the job row names, and the job has left "searching" for good. The
\* two rows are written by one transaction out of a stale and a locked read.
WinnerIsAssignee ==
  \A j \in Jobs : \A p \in Providers :
    offer[<<j, p>>] = "accepted" =>
      /\ AssignedTo(job[j], p)
      /\ job[j].status \in {"assigned", "cancelled"}

\* Nobody holds an offer for a job before its scheduled_at, whichever of the
\* request and the retry task created it and whenever it committed.
NothingBeforeSlot ==
  \A j \in Jobs : \A p \in Providers :
    offer[<<j, p>>] # "none" => booking[j].at <= now

\* A job is only ever assigned to a provider of the type the customer asked
\* for, several steps after create_provider_offers filtered by request_type.
AssigneeFitsRequest ==
  \A j \in Jobs : \A p \in Providers :
    AssignedTo(job[j], p) => booking[j].type \in {ProviderType(p), "auto"}

\* No step of this component reopens or assigns a job once the customer's
\* cancel has committed: an accept that read its offer before must lose.
CancelledStaysCancelled ==
  [][\A j \in Jobs : job[j].status = "cancelled" => job'[j] = job[j]]_vars

\* An answer is final: once an offer is accepted or declined, later requests
\* get 409 and its status stays (test_cannot_decline_already_accepted_offer).
DecidedOffersStay ==
  [][\A jp \in Pairs :
       offer[jp] \in {"accepted", "declined"} => offer'[jp] = offer[jp]]_vars

\* What the job rows show of dispatch is the award of OfferAward.
PhaseOf(row) ==
  CASE row.status = "absent"    -> "unposted"
    [] row.status = "searching" -> "open"
    [] row.status = "cancelled" -> "withdrawn"
    [] OTHER                    -> "awarded"

AssigneeOf(row) ==
  IF row.assigned_type = "mechanic" THEN row.assigned_mechanic_id
                                    ELSE row.assigned_garage_id

Award == INSTANCE OfferAward WITH
  phase  <- [j \in Jobs |-> PhaseOf(job[j])],
  winner <- [j \in Jobs |-> AssigneeOf(job[j])]

\* Dispatch implements OfferAward: every step awards, posts, withdraws, lets
\* time pass, or changes nothing of it.
ImplementsAward == Award!Spec

------------------------------------------------------------------------------
(* Liveness, under FairSpec.                                               *)

\* No request waits for ever: each accept, decline and cancel is answered,
\* because whoever holds the job row's lock commits or dies.
RequestsAnswered ==
  \A r \in Requests : req[r] # Idle ~> req[r] = Idle

\* A committed offer whose push task is still to run is announced to its
\* provider, unless it is answered first.
OffersAnnounced ==
  \A j \in Jobs : \A p \in Providers :
    (/\ offer[<<j, p>>] = "pending"
     /\ \E t \in tasks : t.kind = "push" /\ t.job = j)
    ~> (<<j, p>> \in notified \/ offer[<<j, p>>] # "pending")

\* A job that has its retry still to come, and a provider to take it, is
\* offered to somebody in the end: of a scheduled job create_provider_offers
\* says that retry_job_assignment "will call this again once it is due".
ScheduledJobsAreOffered ==
  \A j \in Jobs :
    (/\ job[j].status = "searching"
     /\ Candidates(j) # {}
     /\ booking[j].at <= MaxTime
     /\ \E t \in tasks : t.kind = "retry" /\ t.job = j)
    ~> (job[j].status # "searching" \/ \E p \in Providers : offer[<<j, p>>] # "none")

=============================================================================
