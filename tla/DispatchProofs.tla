--------------------------- MODULE DispatchProofs ---------------------------
(***************************************************************************)
(* Theorems about Dispatch for any number of jobs, providers and requests  *)
(* and any timing: type correctness, that a job has one winner and the     *)
(* winner is the provider on the job row, that nobody is asked before the  *)
(* booked slot, that a cancelled job stays cancelled, that Dispatch        *)
(* implements OfferAward, and that to every one job it does what           *)
(* JobLifecycle allows.                                                    *)
(***************************************************************************)
EXTENDS Dispatch, TLAPS

------------------------------------------------------------------------------
(* Type correctness.                                                       *)

\* The row accept_offer writes is a row: the provider id goes to the column of
\* its own table.
LEMMA AssignType ==
  ASSUME NEW row \in JobRow, NEW p \in Providers
  PROVE  Assign(row, p) \in JobRow
BY DEF Assign, JobRow, JobStatus, Providers, ProviderType

\* The offers create_provider_offers picks are providers.
LEMMA NewOffersType ==
  ASSUME NEW j \in Jobs, NEW found \in NewOffers(j), TypeOK
  PROVE  found \in SUBSET Providers
BY DEF NewOffers, Candidates, TypeOK

\* The due times of the two tasks are times.
LEMMA TaskType ==
  ASSUME NEW j \in Jobs, TypeOK
  PROVE  RetryTask(j) \in Task /\ PushTask(j) \in Task
BY TimingAssumption DEF RetryTask, PushTask, Task, TypeOK

\* Making the offers of a transaction visible keeps the offer table typed.
LEMMA InsertOffersType ==
  ASSUME NEW j \in Jobs, TypeOK, InsertOffers(j)
  PROVE  offer' \in [Pairs -> OfferStatus] /\ expires' \in [Pairs -> Nat]
<1>1. txn[j].expires \in Nat
  BY DEF TypeOK, Txn
<1>2. QED
  BY <1>1 DEF InsertOffers, TypeOK, OfferStatus

\* Every step of offer creation keeps every variable in its type.
LEMMA DispatchStepType ==
  ASSUME TypeOK, NEW j \in Jobs, DispatchStep(j)
  PROVE  TypeOK'
<1>1. CASE CreateServiceRequest(j)
  <2>1. PICK found \in NewOffers(j) :
          /\ txn' = [txn EXCEPT ![j] = [by |-> "create", offers |-> found,
                                        expires |-> now + OFFER_TTL]]
          /\ tasks' = tasks \cup {IF found = {} THEN RetryTask(j) ELSE PushTask(j)}
    BY <1>1 DEF CreateServiceRequest
  <2>2. [by |-> "create", offers |-> found, expires |-> now + OFFER_TTL] \in Txn
    BY NewOffersType, TimingAssumption DEF Txn, TypeOK
  <2>3. txn' \in [Jobs -> Txn]
    BY <2>1, <2>2 DEF TypeOK
  <2>4. tasks' \in SUBSET Task
    BY <2>1, TaskType DEF TypeOK
  <2>5. QED
    BY <1>1, <2>3, <2>4 DEF CreateServiceRequest, TypeOK
<1>2. CASE CommitCreate(j)
  <2>1. NewRow \in JobRow /\ NoTxn \in Txn
    BY DEF NewRow, NoRow, JobRow, JobStatus, NoTxn, Txn
  <2>2. QED
    BY <1>2, <2>1, InsertOffersType DEF CommitCreate, TypeOK
<1>3. CASE Rollback(j)
  <2>1. NoTxn \in Txn
    BY DEF NoTxn, Txn
  <2>2. QED
    BY <1>3, <2>1 DEF Rollback, TypeOK
<1>4. CASE RetryAssignment(j)
  <2>1. PICK t \in tasks, found \in NewOffers(j) :
          IF found = {}
          THEN tasks' = tasks \ {t} /\ UNCHANGED txn
          ELSE /\ tasks' = (tasks \ {t}) \cup {PushTask(j)}
               /\ txn' = [txn EXCEPT ![j] = [by |-> "retry", offers |-> found,
                                             expires |-> now + OFFER_TTL]]
    BY <1>4 DEF RetryAssignment
  <2>2. [by |-> "retry", offers |-> found, expires |-> now + OFFER_TTL] \in Txn
    BY NewOffersType, TimingAssumption DEF Txn, TypeOK
  <2>3. txn' \in [Jobs -> Txn]
    BY <2>1, <2>2 DEF TypeOK
  <2>4. tasks' \in SUBSET Task
    BY <2>1, TaskType DEF TypeOK
  <2>5. QED
    BY <1>4, <2>3, <2>4 DEF RetryAssignment, TypeOK
<1>5. CASE RetryIgnored(j)
  BY <1>5 DEF RetryIgnored, TypeOK
<1>6. CASE CommitRetry(j)
  <2>1. NoTxn \in Txn
    BY DEF NoTxn, Txn
  <2>2. QED
    BY <1>6, <2>1, InsertOffersType DEF CommitRetry, TypeOK
<1>7. CASE DispatchOfferPush(j)
  BY <1>7 DEF DispatchOfferPush, TypeOK
<1>8. CASE TaskLost(j)
  BY <1>8 DEF TaskLost, TypeOK
<1>9. QED
  BY <1>1, <1>2, <1>3, <1>4, <1>5, <1>6, <1>7, <1>8 DEF DispatchStep

\* What a request that is past its checks carries.
LEMMA RequestType ==
  ASSUME TypeOK, NEW r \in Requests
  PROVE  /\ req[r].op \in {"accept", "decline"} =>
               req[r].job \in Jobs /\ req[r].by \in Providers
         /\ req[r].op = "cancel" => req[r].job \in Jobs
BY DEF TypeOK, Request, Idle

\* Every step of a request keeps every variable in its type.
LEMMA AnswerStepType ==
  ASSUME TypeOK, NEW r \in Requests, AnswerStep(r)
  PROVE  TypeOK'
<1>0. Idle \in Request
  BY DEF Request
<1>1. ASSUME NEW j \in Jobs, NEW p \in Providers, AcceptRead(r, j, p) \/ DeclineRead(r, j, p)
      PROVE  TypeOK'
  <2>1. /\ [op |-> "accept", job |-> j, by |-> p] \in Request
        /\ [op |-> "decline", job |-> j, by |-> p] \in Request
    BY DEF Request
  <2>2. QED
    BY <1>1, <2>1 DEF AcceptRead, DeclineRead, TypeOK
<1>2. CASE AcceptWins(r)
  <2>1. req[r].job \in Jobs /\ req[r].by \in Providers
    BY <1>2, RequestType DEF AcceptWins
  <2>2. offer' \in [Pairs -> OfferStatus]
    BY <1>2, <2>1 DEF AcceptWins, TypeOK, OfferStatus
  <2>3. job' \in [Jobs -> JobRow]
    BY <1>2, <2>1, AssignType DEF AcceptWins, TypeOK
  <2>4. QED
    BY <1>0, <1>2, <2>2, <2>3 DEF AcceptWins, TypeOK
<1>3. CASE AcceptLoses(r)
  BY <1>0, <1>3 DEF AcceptLoses, TypeOK
<1>4. CASE DeclineCommit(r)
  BY <1>0, <1>4 DEF DeclineCommit, TypeOK, OfferStatus
<1>5. ASSUME NEW j \in Jobs, CancelRead(r, j)
      PROVE  TypeOK'
  <2>1. [op |-> "cancel", job |-> j, by |-> None] \in Request
    BY DEF Request
  <2>2. QED
    BY <1>5, <2>1 DEF CancelRead, TypeOK
<1>6. CASE CancelCommit(r)
  <2>1. \A row \in JobRow : Cancel(row) \in JobRow
    BY DEF Cancel, JobRow, JobStatus
  <2>2. job' \in [Jobs -> JobRow]
    BY <1>6, <2>1, RequestType DEF CancelCommit, TypeOK
  <2>3. QED
    BY <1>0, <1>6, <2>2 DEF CancelCommit, TypeOK
<1>7. CASE RequestFails(r)
  BY <1>0, <1>7 DEF RequestFails, TypeOK
<1>8. QED
  BY <1>1, <1>2, <1>3, <1>4, <1>5, <1>6, <1>7 DEF AnswerStep

\* TypeOK is an invariant of Dispatch.
THEOREM TypeCorrect == Spec => []TypeOK
<1>1. Init => TypeOK
  BY DEF Init, TypeOK, NoRow, JobRow, Fresh, Txn, OfferStatus, Request
<1>2. TypeOK /\ [Next]_vars => TypeOK'
  <2> SUFFICES ASSUME TypeOK, [Next]_vars PROVE TypeOK'
    OBVIOUS
  <2>1. ASSUME NEW j \in Jobs, DispatchStep(j) PROVE TypeOK'
    BY <2>1, DispatchStepType
  <2>2. ASSUME NEW r \in Requests, AnswerStep(r) PROVE TypeOK'
    BY <2>2, AnswerStepType
  <2>3. ASSUME NEW p \in Providers, ProviderComesOrGoes(p) PROVE TypeOK'
    BY <2>3 DEF ProviderComesOrGoes, TypeOK
  <2>4. CASE Tick
    BY <2>4 DEF Tick, TypeOK
  <2>5. CASE UNCHANGED vars
    BY <2>5 DEF vars, TypeOK
  <2>6. QED
    BY <2>1, <2>2, <2>3, <2>4, <2>5 DEF Next
<1>3. QED
  BY <1>1, <1>2, PTL DEF Spec

------------------------------------------------------------------------------
(* The inductive invariant.                                                *)

Fits(j, p) == booking[j].type \in {ProviderType(p), "auto"}

\* A job nobody has won has no assignee in any column.
UnclaimedHasNoAssignee ==
  \A j \in Jobs :
    job[j].status \in {"absent", "searching"} =>
      /\ job[j].assigned_type = None
      /\ job[j].assigned_mechanic_id = None
      /\ job[j].assigned_garage_id = None

\* The transaction that creates a job is the first to touch it.
UncommittedIsAbsent ==
  \A j \in Jobs : txn[j].by \in {"fresh", "create"} => job[j].status = "absent"

\* Offers, committed or not, are due and go to the type that was asked for.
OffersAreDue ==
  \A j \in Jobs : \A p \in Providers :
    offer[<<j, p>>] # "none" \/ p \in txn[j].offers =>
      booking[j].at <= now /\ Fits(j, p)

\* What a request read is still there: offers and rows do not disappear.
RequestsAreGrounded ==
  \A r \in Requests :
    /\ req[r].op \in {"accept", "decline"} => offer[<<req[r].job, req[r].by>>] # "none"
    /\ req[r].op = "cancel" => job[req[r].job].status # "absent"

IInv ==
  /\ TypeOK
  /\ UnclaimedHasNoAssignee
  /\ UncommittedIsAbsent
  /\ OffersAreDue
  /\ RequestsAreGrounded
  /\ WinnerIsAssignee
  /\ AssigneeFitsRequest

\* A row with no assignee is assigned to nobody.
LEMMA NoAssignee ==
  ASSUME NEW row, row.assigned_type = None, NEW p \in Providers
  PROVE  ~AssignedTo(row, p)
BY ProvidersAssumption DEF AssignedTo, ProviderType

\* Assign names its provider and, on a row with no assignee, nobody else.
LEMMA AssignNames ==
  ASSUME NEW row \in JobRow, row.assigned_type = None,
         row.assigned_mechanic_id = None, row.assigned_garage_id = None,
         NEW p \in Providers, NEW q \in Providers
  PROVE  AssignedTo(Assign(row, p), q) <=> q = p
BY ProvidersAssumption DEF AssignedTo, Assign, JobRow, ProviderType, Providers

\* Cancelling a row keeps its assignee.
LEMMA CancelKeepsAssignee ==
  ASSUME NEW row \in JobRow, NEW p \in Providers
  PROVE  /\ Cancel(row) \in JobRow
         /\ Cancel(row).status = "cancelled"
         /\ AssignedTo(Cancel(row), p) <=> AssignedTo(row, p)
BY DEF AssignedTo, Cancel, JobRow, JobStatus

\* The customer's booking never changes and the clock never goes back.
LEMMA Frame ==
  ASSUME TypeOK, [Next]_vars
  PROVE  booking' = booking /\ now' >= now /\ now' \in Nat /\ now \in Nat
<1>1. booking' = booking
  BY DEF Next, vars, DispatchStep, AnswerStep, CreateServiceRequest, CommitCreate,
         Rollback, RetryAssignment, RetryIgnored, CommitRetry, DispatchOfferPush,
         TaskLost, AcceptRead, DeclineRead, AcceptWins, AcceptLoses, DeclineCommit,
         CancelRead, CancelCommit, RequestFails, ProviderComesOrGoes, Tick
<1>2. now' = now \/ now' = now + 1
  BY DEF Next, vars, DispatchStep, AnswerStep, CreateServiceRequest, CommitCreate,
         Rollback, RetryAssignment, RetryIgnored, CommitRetry, DispatchOfferPush,
         TaskLost, AcceptRead, DeclineRead, AcceptWins, AcceptLoses, DeclineCommit,
         CancelRead, CancelCommit, RequestFails, ProviderComesOrGoes, Tick
<1>3. now \in Nat
  BY DEF TypeOK
<1>4. QED
  BY <1>1, <1>2, <1>3

\* A step that leaves rows, offers, transactions and requests alone.
LEMMA QuietStep ==
  ASSUME IInv, TypeOK', booking' = booking, now' >= now, now \in Nat, now' \in Nat,
         UNCHANGED <<job, offer, txn, req>>
  PROVE  IInv'
<1>1. \A j \in Jobs : booking[j].at \in Nat
  BY TimingAssumption DEF IInv, TypeOK, Booking
<1>2. OffersAreDue'
  BY <1>1 DEF IInv, OffersAreDue, Fits
<1>3. QED
  BY <1>2 DEF IInv, UnclaimedHasNoAssignee, UncommittedIsAbsent, RequestsAreGrounded,
              WinnerIsAssignee, AssigneeFitsRequest

\* New offers are due and fit the request.
LEMMA NewOffersAreDue ==
  ASSUME TypeOK, NEW j \in Jobs, NEW found \in NewOffers(j), NEW p \in found
  PROVE  booking[j].at <= now /\ Fits(j, p)
<1>1. booking[j].at \in Nat /\ now \in Nat
  BY TimingAssumption DEF TypeOK, Booking
<1>2. ~(booking[j].at > now)
  BY DEF NewOffers
<1>3. p \in Candidates(j)
  BY <1>2 DEF NewOffers
<1>4. QED
  BY <1>1, <1>2, <1>3 DEF Candidates, Fits

\* Committing the offers of a transaction adds pending offers that are due, and
\* takes none away.
LEMMA InsertOffersStep ==
  ASSUME IInv, NEW j \in Jobs, InsertOffers(j), NEW i \in Jobs, NEW p \in Providers
  PROVE  /\ offer[<<i, p>>] # "none" => offer'[<<i, p>>] # "none"
         /\ offer'[<<i, p>>] = "accepted" => offer[<<i, p>>] = "accepted"
         /\ offer'[<<i, p>>] # "none" => booking[i].at <= now /\ Fits(i, p)
<1>1. <<i, p>> \in Pairs
  BY DEF Pairs
<1>2. offer'[<<i, p>>] = IF i = j /\ p \in txn[j].offers THEN "pending" ELSE offer[<<i, p>>]
  BY <1>1 DEF InsertOffers
<1>3. QED
  BY <1>2 DEF IInv, OffersAreDue

\* Every step of offer creation preserves the invariant.
LEMMA DispatchStepIInv ==
  ASSUME IInv, TypeOK', NEW j \in Jobs, DispatchStep(j)
  PROVE  IInv'
<1> USE DEF IInv
<1>0. TypeOK /\ [Next]_vars
  BY DEF Next
<1>1. CASE CreateServiceRequest(j)
  <2>1. PICK found \in NewOffers(j) :
          txn' = [txn EXCEPT ![j] = [by |-> "create", offers |-> found,
                                     expires |-> now + OFFER_TTL]]
    BY <1>1 DEF CreateServiceRequest
  <2>2. UNCHANGED <<now, booking, job, offer, req>> /\ txn[j].by = "fresh"
    BY <1>1 DEF CreateServiceRequest, Fresh
  <2>3. UncommittedIsAbsent'
    BY <2>1, <2>2 DEF UncommittedIsAbsent, TypeOK
  <2>4. OffersAreDue'
    BY <2>1, <2>2, NewOffersAreDue DEF OffersAreDue, Fits, TypeOK
  <2>5. QED
    BY <2>2, <2>3, <2>4 DEF UnclaimedHasNoAssignee, RequestsAreGrounded,
                            WinnerIsAssignee, AssigneeFitsRequest
<1>2. CASE CommitCreate(j)
  <2>1. /\ UNCHANGED <<now, booking, req>>
        /\ job' = [job EXCEPT ![j] = NewRow]
        /\ txn' = [txn EXCEPT ![j] = NoTxn]
        /\ InsertOffers(j)
        /\ job[j].status = "absent"
    BY <1>2 DEF CommitCreate, UncommittedIsAbsent
  <2>2. UnclaimedHasNoAssignee'
    BY <2>1 DEF UnclaimedHasNoAssignee, NewRow, NoRow, TypeOK
  <2>3. UncommittedIsAbsent'
    BY <2>1 DEF UncommittedIsAbsent, NoTxn, TypeOK
  <2>4. OffersAreDue'
    BY <2>1, InsertOffersStep DEF OffersAreDue, NoTxn, TypeOK, Fits
  <2>5. RequestsAreGrounded'
    BY <2>1, InsertOffersStep, RequestType DEF RequestsAreGrounded, NewRow, NoRow, TypeOK
  <2>6. WinnerIsAssignee'
    BY <2>1, InsertOffersStep DEF WinnerIsAssignee, TypeOK
  <2>7. AssigneeFitsRequest'
    <3>1. NewRow.assigned_type = None
      BY DEF NewRow, NoRow
    <3>2. QED
      BY <2>1, <3>1, NoAssignee DEF AssigneeFitsRequest, TypeOK
  <2>8. QED
    BY <2>2, <2>3, <2>4, <2>5, <2>6, <2>7
<1>3. CASE Rollback(j)
  <2>1. UNCHANGED <<now, booking, job, offer, req>> /\ txn' = [txn EXCEPT ![j] = NoTxn]
    BY <1>3 DEF Rollback
  <2>2. UncommittedIsAbsent' /\ OffersAreDue'
    BY <2>1 DEF UncommittedIsAbsent, OffersAreDue, Fits, NoTxn, TypeOK
  <2>3. QED
    BY <2>1, <2>2 DEF UnclaimedHasNoAssignee, RequestsAreGrounded,
                      WinnerIsAssignee, AssigneeFitsRequest
<1>4. CASE RetryAssignment(j)
  <2>1. PICK found \in NewOffers(j) :
          \/ UNCHANGED txn
          \/ txn' = [txn EXCEPT ![j] = [by |-> "retry", offers |-> found,
                                        expires |-> now + OFFER_TTL]]
    BY <1>4 DEF RetryAssignment
  <2>2. UNCHANGED <<now, booking, job, offer, req>> /\ job[j].status = "searching"
    BY <1>4 DEF RetryAssignment
  <2>3. UncommittedIsAbsent'
    BY <2>1, <2>2 DEF UncommittedIsAbsent, TypeOK
  <2>4. OffersAreDue'
    BY <2>1, <2>2, NewOffersAreDue DEF OffersAreDue, Fits, TypeOK
  <2>5. QED
    BY <2>2, <2>3, <2>4 DEF UnclaimedHasNoAssignee, RequestsAreGrounded,
                            WinnerIsAssignee, AssigneeFitsRequest
<1>5. CASE RetryIgnored(j)
  BY <1>0, <1>5, Frame, QuietStep DEF RetryIgnored
<1>6. CASE CommitRetry(j)
  <2>1. /\ UNCHANGED <<now, booking, job, req>>
        /\ txn' = [txn EXCEPT ![j] = NoTxn]
        /\ InsertOffers(j)
    BY <1>6 DEF CommitRetry
  <2>2. UncommittedIsAbsent'
    BY <2>1 DEF UncommittedIsAbsent, NoTxn, TypeOK
  <2>3. OffersAreDue'
    BY <2>1, InsertOffersStep DEF OffersAreDue, NoTxn, TypeOK, Fits
  <2>4. RequestsAreGrounded'
    BY <2>1, InsertOffersStep, RequestType DEF RequestsAreGrounded
  <2>5. WinnerIsAssignee'
    BY <2>1, InsertOffersStep DEF WinnerIsAssignee
  <2>6. QED
    BY <2>1, <2>2, <2>3, <2>4, <2>5 DEF UnclaimedHasNoAssignee, AssigneeFitsRequest
<1>7. CASE DispatchOfferPush(j)
  BY <1>0, <1>7, Frame, QuietStep DEF DispatchOfferPush
<1>8. CASE TaskLost(j)
  BY <1>0, <1>8, Frame, QuietStep DEF TaskLost
<1>9. QED
  BY <1>1, <1>2, <1>3, <1>4, <1>5, <1>6, <1>7, <1>8 DEF DispatchStep

\* A request that gives up, or is answered without a write, leaves the
\* invariant alone.
LEMMA RequestEnds ==
  ASSUME IInv, TypeOK', NEW r \in Requests, req' = [req EXCEPT ![r] = Idle],
         UNCHANGED <<now, booking, job, offer, txn>>
  PROVE  IInv'
<1>1. RequestsAreGrounded'
  BY DEF IInv, TypeOK, RequestsAreGrounded, Idle
<1>2. QED
  BY <1>1 DEF IInv, UnclaimedHasNoAssignee, UncommittedIsAbsent, OffersAreDue, Fits,
              WinnerIsAssignee, AssigneeFitsRequest

\* The accept that finds the row still searching preserves the invariant.
LEMMA AcceptWinsIInv ==
  ASSUME IInv, TypeOK', NEW r \in Requests, AcceptWins(r)
  PROVE  IInv'
<1> DEFINE j == req[r].job
           p == req[r].by
<1> USE DEF IInv
<1>1. /\ UNCHANGED <<now, booking, txn>>
      /\ job[j].status = "searching"
      /\ offer' = [offer EXCEPT ![<<j, p>>] = "accepted"]
      /\ job' = [job EXCEPT ![j] = Assign(job[j], p)]
      /\ req' = [req EXCEPT ![r] = Idle]
  BY DEF AcceptWins
<1>2. j \in Jobs /\ p \in Providers /\ offer[<<j, p>>] # "none"
  BY RequestType DEF AcceptWins, RequestsAreGrounded
<1> HIDE DEF j, p
<1>3. /\ job[j] \in JobRow
      /\ job[j].assigned_type = None
      /\ job[j].assigned_mechanic_id = None
      /\ job[j].assigned_garage_id = None
  BY <1>1, <1>2 DEF UnclaimedHasNoAssignee, TypeOK
<1>4. Assign(job[j], p).status = "assigned"
  BY <1>3 DEF Assign, JobRow
<1>5. \A i \in Jobs : job'[i] = IF i = j THEN Assign(job[j], p) ELSE job[i]
  BY <1>1, <1>2 DEF TypeOK
<1>6. \A i \in Jobs, q \in Providers :
        offer'[<<i, q>>] = IF i = j /\ q = p THEN "accepted" ELSE offer[<<i, q>>]
  BY <1>1, <1>2 DEF TypeOK, Pairs
<1>7. UnclaimedHasNoAssignee'
  BY <1>4, <1>5 DEF UnclaimedHasNoAssignee
<1>8. UncommittedIsAbsent'
  BY <1>1, <1>2, <1>5 DEF UncommittedIsAbsent
<1>9. OffersAreDue'
  BY <1>1, <1>2, <1>6 DEF OffersAreDue, Fits
<1>10. RequestsAreGrounded'
  BY <1>1, <1>4, <1>5, <1>6, RequestType DEF RequestsAreGrounded, Idle, TypeOK
<1>11. WinnerIsAssignee'
  <2> SUFFICES ASSUME NEW i \in Jobs, NEW q \in Providers, offer'[<<i, q>>] = "accepted"
               PROVE  /\ AssignedTo(job'[i], q)
                      /\ job'[i].status \in {"assigned", "cancelled"}
    BY DEF WinnerIsAssignee
  <2>1. CASE i = j
    <3>1. q = p
      BY <1>1, <1>6, <2>1 DEF WinnerIsAssignee
    <3>2. QED
      BY <1>2, <1>3, <1>4, <1>5, <2>1, <3>1, AssignNames
  <2>2. CASE i # j
    BY <1>5, <1>6, <2>2 DEF WinnerIsAssignee
  <2>3. QED
    BY <2>1, <2>2
<1>12. AssigneeFitsRequest'
  <2> SUFFICES ASSUME NEW i \in Jobs, NEW q \in Providers, AssignedTo(job'[i], q)
               PROVE  booking'[i].type \in {ProviderType(q), "auto"}
    BY DEF AssigneeFitsRequest
  <2>1. CASE i = j
    <3>1. q = p
      BY <1>2, <1>3, <1>5, <2>1, AssignNames
    <3>2. QED
      BY <1>1, <1>2, <2>1, <3>1 DEF OffersAreDue, Fits
  <2>2. CASE i # j
    BY <1>1, <1>5, <2>2 DEF AssigneeFitsRequest
  <2>3. QED
    BY <2>1, <2>2
<1>13. QED
  BY <1>7, <1>8, <1>9, <1>10, <1>11, <1>12

\* Every step of a request preserves the invariant.
LEMMA AnswerStepIInv ==
  ASSUME IInv, TypeOK', NEW r \in Requests, AnswerStep(r)
  PROVE  IInv'
<1> USE DEF IInv
<1>1. ASSUME NEW j \in Jobs, NEW p \in Providers, AcceptRead(r, j, p) \/ DeclineRead(r, j, p)
      PROVE  IInv'
  <2>1. UNCHANGED <<now, booking, job, offer, txn>>
    BY <1>1 DEF AcceptRead, DeclineRead
  <2>2. RequestsAreGrounded'
    BY <1>1 DEF AcceptRead, DeclineRead, RequestsAreGrounded, TypeOK
  <2>3. QED
    BY <2>1, <2>2 DEF UnclaimedHasNoAssignee, UncommittedIsAbsent, OffersAreDue, Fits,
                      WinnerIsAssignee, AssigneeFitsRequest
<1>2. CASE AcceptWins(r)
  BY <1>2, AcceptWinsIInv
<1>3. CASE AcceptLoses(r)
  BY <1>3, RequestEnds DEF AcceptLoses
<1>4. CASE DeclineCommit(r)
  <2>1. /\ UNCHANGED <<now, booking, job, txn>>
        /\ offer' = [offer EXCEPT ![<<req[r].job, req[r].by>>] = "declined"]
        /\ req' = [req EXCEPT ![r] = Idle]
    BY <1>4 DEF DeclineCommit
  <2>2. offer[<<req[r].job, req[r].by>>] # "none"
    BY <1>4 DEF DeclineCommit, RequestsAreGrounded
  <2>3. \A i \in Jobs, q \in Providers :
          \/ offer'[<<i, q>>] = offer[<<i, q>>]
          \/ offer'[<<i, q>>] = "declined" /\ offer[<<i, q>>] # "none"
    BY <2>1, <2>2 DEF TypeOK, Pairs
  <2>4. OffersAreDue' /\ WinnerIsAssignee'
    BY <2>1, <2>3 DEF OffersAreDue, WinnerIsAssignee, Fits
  <2>5. RequestsAreGrounded'
    BY <2>1, <2>3, RequestType DEF RequestsAreGrounded, TypeOK, Idle
  <2>6. QED
    BY <2>1, <2>4, <2>5 DEF UnclaimedHasNoAssignee, UncommittedIsAbsent, AssigneeFitsRequest
<1>5. ASSUME NEW j \in Jobs, CancelRead(r, j)
      PROVE  IInv'
  <2>1. UNCHANGED <<now, booking, job, offer, txn>>
    BY <1>5 DEF CancelRead
  <2>2. RequestsAreGrounded'
    BY <1>5 DEF CancelRead, RequestsAreGrounded, TypeOK
  <2>3. QED
    BY <2>1, <2>2 DEF UnclaimedHasNoAssignee, UncommittedIsAbsent, OffersAreDue, Fits,
                      WinnerIsAssignee, AssigneeFitsRequest
<1>6. CASE CancelCommit(r)
  <2> DEFINE j == req[r].job
  <2>1. /\ UNCHANGED <<now, booking, offer, txn>>
        /\ job' = [job EXCEPT ![j] = Cancel(job[j])]
        /\ req' = [req EXCEPT ![r] = Idle]
    BY <1>6 DEF CancelCommit
  <2>2. j \in Jobs /\ job[j].status # "absent"
    BY <1>6, RequestType DEF CancelCommit, RequestsAreGrounded
  <2> HIDE DEF j
  <2>3. \A i \in Jobs : job'[i] = IF i = j THEN Cancel(job[j]) ELSE job[i]
    BY <2>1, <2>2 DEF TypeOK
  <2>4. job[j] \in JobRow /\ job'[j].status = "cancelled"
    BY <2>2, <2>3 DEF TypeOK, JobRow, Cancel
  <2>5. \A i \in Jobs, q \in Providers : AssignedTo(job'[i], q) <=> AssignedTo(job[i], q)
    BY <2>3, <2>4, CancelKeepsAssignee
  <2>6. UnclaimedHasNoAssignee' /\ UncommittedIsAbsent'
    BY <2>1, <2>2, <2>3, <2>4 DEF UnclaimedHasNoAssignee, UncommittedIsAbsent
  <2>7. RequestsAreGrounded'
    BY <2>1, <2>3, <2>4 DEF RequestsAreGrounded, TypeOK, Idle
  <2>8. WinnerIsAssignee' /\ AssigneeFitsRequest'
    BY <2>1, <2>3, <2>4, <2>5 DEF WinnerIsAssignee, AssigneeFitsRequest
  <2>9. OffersAreDue'
    BY <2>1 DEF OffersAreDue, Fits
  <2>10. QED
    BY <2>6, <2>7, <2>8, <2>9
<1>7. CASE RequestFails(r)
  BY <1>7, RequestEnds DEF RequestFails
<1>8. QED
  BY <1>1, <1>2, <1>3, <1>4, <1>5, <1>6, <1>7 DEF AnswerStep

\* IInv is an invariant of Dispatch.
THEOREM Invariance == Spec => []IInv
<1>1. Init => IInv
  <2> SUFFICES ASSUME Init PROVE IInv
    OBVIOUS
  <2>1. TypeOK
    BY DEF Init, TypeOK, NoRow, JobRow, Fresh, Txn, OfferStatus, Request
  <2>2. UnclaimedHasNoAssignee /\ UncommittedIsAbsent
    BY DEF Init, NoRow, UnclaimedHasNoAssignee, UncommittedIsAbsent
  <2>3. \A jp \in Pairs : offer[jp] = "none"
    BY DEF Init
  <2>4. OffersAreDue /\ WinnerIsAssignee
    BY <2>3 DEF Init, Fresh, OffersAreDue, WinnerIsAssignee, Pairs
  <2>5. RequestsAreGrounded
    BY DEF Init, Idle, RequestsAreGrounded
  <2>6. AssigneeFitsRequest
    BY NoAssignee DEF Init, NoRow, AssigneeFitsRequest
  <2>7. QED
    BY <2>1, <2>2, <2>4, <2>5, <2>6 DEF IInv
<1>2. IInv /\ TypeOK' /\ [Next]_vars => IInv'
  <2> SUFFICES ASSUME IInv, TypeOK', [Next]_vars PROVE IInv'
    OBVIOUS
  <2>1. ASSUME NEW j \in Jobs, DispatchStep(j) PROVE IInv'
    BY <2>1, DispatchStepIInv
  <2>2. ASSUME NEW r \in Requests, AnswerStep(r) PROVE IInv'
    BY <2>2, AnswerStepIInv
  <2>3. ASSUME NEW p \in Providers, ProviderComesOrGoes(p) PROVE IInv'
    BY <2>3, Frame, QuietStep DEF ProviderComesOrGoes, IInv
  <2>4. CASE Tick
    BY <2>4, Frame, QuietStep DEF Tick, IInv
  <2>5. CASE UNCHANGED vars
    BY <2>5, Frame, QuietStep DEF vars, IInv
  <2>6. QED
    BY <2>1, <2>2, <2>3, <2>4, <2>5 DEF Next
<1>3. QED
  BY <1>1, <1>2, TypeCorrect, PTL DEF Spec

------------------------------------------------------------------------------
(* The properties.                                                         *)

\* The job row names at most one provider.
LEMMA OneAssignee ==
  ASSUME NEW row, NEW p \in Providers, NEW q \in Providers,
         AssignedTo(row, p), AssignedTo(row, q)
  PROVE  p = q
BY ProvidersAssumption DEF AssignedTo, ProviderType, Providers

\* However accepts, declines, cancels and retries overlap, at most one offer of
\* a job is ever accepted: accept_offer writes only under the row lock.
THEOREM OneWinner == Spec => []SingleWinner
<1>1. IInv => SingleWinner
  BY OneAssignee DEF IInv, WinnerIsAssignee, SingleWinner
<1>2. QED
  BY <1>1, Invariance, PTL

\* The accepted offer and the job row always name the same provider.
THEOREM WinnerOnJobRow == Spec => []WinnerIsAssignee
<1>1. IInv => WinnerIsAssignee
  BY DEF IInv
<1>2. QED
  BY <1>1, Invariance, PTL

\* No provider is offered a job before its scheduled_at, by the request or by
\* the retry.
THEOREM OffersWaitForSlot == Spec => []NothingBeforeSlot
<1>1. IInv => NothingBeforeSlot
  BY DEF IInv, OffersAreDue, NothingBeforeSlot
<1>2. QED
  BY <1>1, Invariance, PTL

\* The assignee is of the type the customer asked for.
THEOREM AssigneeFits == Spec => []AssigneeFitsRequest
<1>1. IInv => AssigneeFitsRequest
  BY DEF IInv
<1>2. QED
  BY <1>1, Invariance, PTL

\* What a step may do to a job row: create it, award it to the provider whose
\* offer was read, cancel it, or leave it.
LEMMA RowStep ==
  ASSUME IInv, [Next]_vars
  PROVE  \/ job' = job
         \/ /\ now' = now
            /\ \E i \in Jobs :
                 \/ job[i].status = "absent" /\ job' = [job EXCEPT ![i] = NewRow]
                 \/ /\ job[i].status = "searching"
                    /\ \E p \in Providers : /\ offer[<<i, p>>] # "none"
                                             /\ job' = [job EXCEPT ![i] = Assign(@, p)]
                 \/ /\ job[i].status # "absent"
                    /\ job' = [job EXCEPT ![i] = Cancel(@)]
<1> USE DEF IInv
<1>1. ASSUME NEW i \in Jobs, CommitCreate(i)
      PROVE  now' = now /\ job[i].status = "absent" /\ job' = [job EXCEPT ![i] = NewRow]
  BY <1>1 DEF CommitCreate, UncommittedIsAbsent
<1>2. ASSUME NEW r \in Requests, AcceptWins(r)
      PROVE  /\ now' = now
             /\ \E i \in Jobs : /\ job[i].status = "searching"
                                /\ \E p \in Providers : /\ offer[<<i, p>>] # "none"
                                                         /\ job' = [job EXCEPT ![i] = Assign(@, p)]
  <2>1. /\ now' = now
        /\ job[req[r].job].status = "searching"
        /\ job' = [job EXCEPT ![req[r].job] = Assign(@, req[r].by)]
    BY <1>2 DEF AcceptWins
  <2>2. /\ req[r].job \in Jobs /\ req[r].by \in Providers
        /\ offer[<<req[r].job, req[r].by>>] # "none"
    BY <1>2, RequestType DEF AcceptWins, RequestsAreGrounded
  <2>3. QED
    BY <2>1, <2>2
<1>3. ASSUME NEW r \in Requests, CancelCommit(r)
      PROVE  /\ now' = now
             /\ \E i \in Jobs : /\ job[i].status # "absent"
                                /\ job' = [job EXCEPT ![i] = Cancel(@)]
  <2>1. now' = now /\ job' = [job EXCEPT ![req[r].job] = Cancel(@)]
    BY <1>3 DEF CancelCommit
  <2>2. req[r].job \in Jobs /\ job[req[r].job].status # "absent"
    BY <1>3, RequestType DEF CancelCommit, RequestsAreGrounded
  <2>3. QED
    BY <2>1, <2>2
<1>4. \/ \E i \in Jobs : CommitCreate(i)
      \/ \E r \in Requests : AcceptWins(r) \/ CancelCommit(r)
      \/ job' = job
  BY DEF Next, vars, DispatchStep, AnswerStep, CreateServiceRequest,
         Rollback, RetryAssignment, RetryIgnored, CommitRetry, DispatchOfferPush,
         TaskLost, AcceptRead, DeclineRead, AcceptLoses, DeclineCommit,
         CancelRead, RequestFails, ProviderComesOrGoes, Tick
<1>5. QED
  BY <1>1, <1>2, <1>3, <1>4

\* A cancelled job is never reopened or assigned by a request that read it, or
\* an offer of it, before the cancel committed.
THEOREM CancelIsFinal == Spec => CancelledStaysCancelled
<1>1. IInv /\ [Next]_vars =>
        (\A j \in Jobs : job[j].status = "cancelled" => job'[j] = job[j])
  <2> SUFFICES ASSUME IInv, [Next]_vars, NEW j \in Jobs, job[j].status = "cancelled"
               PROVE  job'[j] = job[j]
    OBVIOUS
  <2>1. job \in [Jobs -> JobRow]
    BY DEF IInv, TypeOK
  <2>2. Cancel(job[j]) = job[j]
    BY <2>1 DEF Cancel, JobRow
  <2>3. QED
    BY <2>1, <2>2, RowStep
<1>2. QED
  BY <1>1, Invariance, PTL DEF Spec, CancelledStaysCancelled

------------------------------------------------------------------------------
(* Dispatch implements OfferAward.                                         *)

\* What a row change looks like to the abstract specification.
LEMMA PhaseOfRow ==
  ASSUME NEW row \in JobRow, NEW p \in Providers
  PROVE  /\ PhaseOf(NewRow) = "open" /\ AssigneeOf(NewRow) = None
         /\ PhaseOf(Assign(row, p)) = "awarded" /\ AssigneeOf(Assign(row, p)) = p
         /\ PhaseOf(Cancel(row)) = "withdrawn"
         /\ AssigneeOf(Cancel(row)) = AssigneeOf(row)
         /\ row.status = "absent" => PhaseOf(row) = "unposted"
         /\ row.status = "searching" => PhaseOf(row) = "open"
         /\ row.status = "cancelled" => PhaseOf(row) = "withdrawn"
         /\ row.status \notin {"absent", "searching", "cancelled"} => PhaseOf(row) = "awarded"
BY ProvidersAssumption
   DEF PhaseOf, AssigneeOf, Cancel, NewRow, NoRow, Assign, JobRow, ProviderType, Providers

\* Every step of Dispatch posts, awards, withdraws, lets time pass, or changes
\* nothing that OfferAward sees.
LEMMA StepRefinement ==
  ASSUME IInv, [Next]_vars
  PROVE  [Award!Next]_(Award!vars)
<1> DEFINE ph == [i \in Jobs |-> PhaseOf(job[i])]
           win == [i \in Jobs |-> AssigneeOf(job[i])]
<1>0. job \in [Jobs -> JobRow] /\ booking' = booking /\ now \in Nat
  BY Frame DEF IInv, TypeOK
<1>1. CASE job' = job
  <2>1. now' = now \/ now' = now + 1
    BY DEF Next, vars, DispatchStep, AnswerStep, CreateServiceRequest, CommitCreate,
           Rollback, RetryAssignment, RetryIgnored, CommitRetry, DispatchOfferPush,
           TaskLost, AcceptRead, DeclineRead, AcceptWins, AcceptLoses, DeclineCommit,
           CancelRead, CancelCommit, RequestFails, ProviderComesOrGoes, Tick
  <2>2. QED
    BY <1>0, <1>1, <2>1 DEF Award!Next, Award!Advance, Award!vars
<1>2. ASSUME NEW i \in Jobs, now' = now, job[i].status = "absent",
             job' = [job EXCEPT ![i] = NewRow]
      PROVE  Award!Next
  <2>1. job[i] \in JobRow /\ AssigneeOf(job[i]) = None
    BY <1>0, <1>2 DEF IInv, UnclaimedHasNoAssignee, AssigneeOf
  <2>2. ph' = [ph EXCEPT ![i] = "open"] /\ win' = win /\ ph[i] = "unposted"
    BY <1>0, <1>2, <2>1 DEF PhaseOf, AssigneeOf, NewRow, NoRow
  <2>3. Award!Post(i)
    BY <1>0, <1>2, <2>2 DEF Award!Post
  <2>4. QED
    BY <2>3 DEF Award!Next
<1>3. ASSUME NEW i \in Jobs, now' = now, job[i].status = "searching",
             NEW p \in Providers, offer[<<i, p>>] # "none",
             job' = [job EXCEPT ![i] = Assign(@, p)]
      PROVE  Award!Next
  <2>1. booking[i].at <= now /\ Fits(i, p)
    BY <1>3 DEF IInv, OffersAreDue
  <2>2. job[i] \in JobRow
    BY <1>0
  <2>3. /\ PhaseOf(Assign(job[i], p)) = "awarded"
        /\ AssigneeOf(Assign(job[i], p)) = p
        /\ PhaseOf(job[i]) = "open"
    BY <1>3, <2>2, PhaseOfRow
  <2>4. /\ ph' = [ph EXCEPT ![i] = "awarded"]
        /\ win' = [win EXCEPT ![i] = p]
        /\ ph[i] = "open"
    BY <1>0, <1>3, <2>3
  <2>5. Award!Award(i, p)
    BY <1>0, <1>3, <2>1, <2>4 DEF Award!Award, Award!ProviderType, Fits, ProviderType
  <2>6. QED
    BY <2>5 DEF Award!Next, Award!Providers, Providers
<1>4. ASSUME NEW i \in Jobs, now' = now, job[i].status # "absent",
             job' = [job EXCEPT ![i] = Cancel(@)]
      PROVE  [Award!Next]_(Award!vars)
  <2>1. job[i] \in JobRow
    BY <1>0
  <2>3. /\ PhaseOf(Cancel(job[i])) = "withdrawn"
        /\ AssigneeOf(Cancel(job[i])) = AssigneeOf(job[i])
        /\ PhaseOf(job[i]) \in {"open", "awarded", "withdrawn"}
    BY <1>4, <2>1 DEF PhaseOf, AssigneeOf, Cancel, JobRow
  <2>4. ph' = [ph EXCEPT ![i] = "withdrawn"] /\ win' = win
    BY <1>0, <1>4, <2>3
  <2>5. CASE ph[i] = "withdrawn"
    <3>1. ph' = ph
      BY <2>4, <2>5
    <3>2. QED
      BY <1>0, <1>4, <2>4, <3>1 DEF Award!vars
  <2>6. CASE ph[i] \in {"open", "awarded"}
    <3>1. Award!Withdraw(i)
      BY <1>0, <1>4, <2>4, <2>6 DEF Award!Withdraw
    <3>2. QED
      BY <3>1 DEF Award!Next
  <2>7. QED
    BY <2>3, <2>5, <2>6
<1>5. CASE job' # job
  <2>1. /\ now' = now
        /\ \E i \in Jobs :
             \/ job[i].status = "absent" /\ job' = [job EXCEPT ![i] = NewRow]
             \/ /\ job[i].status = "searching"
                /\ \E p \in Providers : /\ offer[<<i, p>>] # "none"
                                         /\ job' = [job EXCEPT ![i] = Assign(@, p)]
             \/ /\ job[i].status # "absent"
                /\ job' = [job EXCEPT ![i] = Cancel(@)]
    BY <1>5, RowStep
  <2>2. QED
    BY <1>2, <1>3, <1>4, <2>1
<1>6. QED
  BY <1>1, <1>5

\* Dispatch implements OfferAward.
THEOREM Refinement == Spec => ImplementsAward
<1>1. Init => Award!Init
  BY DEF Init, Award!Init, PhaseOf, AssigneeOf, NoRow, Booking, RequestTypes,
         Award!RequestTypes
<1>2. IInv /\ [Next]_vars => [Award!Next]_(Award!vars)
  BY StepRefinement
<1>3. QED
  BY <1>1, <1>2, Invariance, PTL DEF Spec, ImplementsAward, Award!Spec

------------------------------------------------------------------------------
(* To each job, dispatch is a part of its lifecycle.                       *)

\* What JobLifecycle sees of a job: its row from the commit on, without a bill, and
\* of the requests the cancels of that job.
Full(rw) ==
  [status |-> rw.status, assigned_type |-> rw.assigned_type,
   assigned_mechanic_id |-> rw.assigned_mechanic_id,
   assigned_garage_id |-> rw.assigned_garage_id,
   service_amount |-> FALSE, provider_upi_id |-> None]

RowOf(j) == Full(IF job[j].status = "absent" THEN NewRow ELSE job[j])

NoRequest == [op |-> "idle", by |-> None, changes |-> [x \in {} |-> None]]
Cancelling == [x \in {"status"} |-> "cancelled"]
CancelOf == [op |-> "update", by |-> "other", changes |-> Cancelling]

RequestOn(j, q) == IF q.op = "cancel" /\ q.job = j THEN CancelOf ELSE NoRequest

RequestsOn(j) == [r \in Requests |-> RequestOn(j, req[r])]

Life(j) == INSTANCE JobLifecycle WITH
  row <- RowOf(j),
  req <- RequestsOn(j)

\* What dispatch does to a row, seen with the other columns.
LEMMA FullColumns ==
  ASSUME NEW rw
  PROVE  /\ Full(rw)["status"] = rw.status /\ Full(rw)["assigned_type"] = rw.assigned_type
         /\ Full(rw)["assigned_mechanic_id"] = rw.assigned_mechanic_id
         /\ Full(rw)["assigned_garage_id"] = rw.assigned_garage_id
         /\ Full(rw)["service_amount"] = FALSE /\ Full(rw)["provider_upi_id"] = None
BY DEF Full

LEMMA FullAssign ==
  ASSUME NEW rw \in JobRow, NEW p
  PROVE  Assign(Full(rw), p) = Full(Assign(rw, p)) /\ Assign(rw, p).status = "assigned"
<1>1. /\ Assign(rw, p).status = "assigned" /\ Assign(rw, p).assigned_type = ProviderType(p)
      /\ Assign(rw, p).assigned_mechanic_id = IF p \in Mechanics THEN p ELSE rw.assigned_mechanic_id
      /\ Assign(rw, p).assigned_garage_id = IF p \in Mechanics THEN rw.assigned_garage_id ELSE p
  BY DEF Assign, JobRow
<1>2. Assign(Full(rw), p) = [status |-> "assigned", assigned_type |-> ProviderType(p),
        assigned_mechanic_id |-> IF p \in Mechanics THEN p ELSE rw.assigned_mechanic_id,
        assigned_garage_id |-> IF p \in Mechanics THEN rw.assigned_garage_id ELSE p,
        service_amount |-> FALSE, provider_upi_id |-> None]
  <2> DEFINE full == [status |-> rw.status, assigned_type |-> rw.assigned_type,
                      assigned_mechanic_id |-> rw.assigned_mechanic_id,
                      assigned_garage_id |-> rw.assigned_garage_id,
                      service_amount |-> FALSE, provider_upi_id |-> None]
             m == IF p \in Mechanics THEN p ELSE rw.assigned_mechanic_id
             g == IF p \in Mechanics THEN rw.assigned_garage_id ELSE p
  <2>1. full.assigned_mechanic_id = rw.assigned_mechanic_id /\ full.assigned_garage_id = rw.assigned_garage_id
    OBVIOUS
  <2>2. Assign(full, p) = [full EXCEPT !.status = "assigned", !.assigned_type = ProviderType(p),
                             !.assigned_mechanic_id = m, !.assigned_garage_id = g]
    BY <2>1 DEF Assign
  <2> HIDE DEF m, g
  <2>3. Assign(full, p) = [status |-> "assigned", assigned_type |-> ProviderType(p),
          assigned_mechanic_id |-> m, assigned_garage_id |-> g,
          service_amount |-> FALSE, provider_upi_id |-> None]
    BY <2>2
  <2> QED
    BY <2>3 DEF Full, m, g
<1> QED
  BY <1>1, <1>2 DEF Full

LEMMA FullCancel ==
  ASSUME NEW rw \in JobRow
  PROVE  /\ Cancel(rw).status = "cancelled"
         /\ Full(Cancel(rw)) = [c \in DOMAIN Full(rw) |->
                                  IF c = "status" THEN "cancelled" ELSE Full(rw)[c]]
<1> DEFINE cols == {"status", "assigned_type", "assigned_mechanic_id", "assigned_garage_id",
                    "service_amount", "provider_upi_id"}
<1>1. /\ Cancel(rw).status = "cancelled" /\ Cancel(rw).assigned_type = rw.assigned_type
      /\ Cancel(rw).assigned_mechanic_id = rw.assigned_mechanic_id
      /\ Cancel(rw).assigned_garage_id = rw.assigned_garage_id
  BY DEF Cancel, JobRow
<1>2. Full(Cancel(rw)) = [c \in cols |-> Full(Cancel(rw))[c]] /\ DOMAIN Full(rw) = cols
  BY DEF Full
<1>3. \A c \in cols : Full(Cancel(rw))[c] = IF c = "status" THEN "cancelled" ELSE Full(rw)[c]
  BY <1>1, FullColumns
<1> HIDE DEF cols
<1> QED
  BY <1>1, <1>2, <1>3

LEMMA LifeParts ==
  ASSUME NEW j
  PROVE  /\ Life(j)!Idle = NoRequest
         /\ Life(j)!Providers = Providers
         /\ \A rw, p : Life(j)!Assign(rw, p) = Assign(rw, p)
         /\ \A rw : Life(j)!Cancel(rw) = Cancel(rw)
         /\ Life(j)!Who("customer") = "other" /\ "customer" \in Life(j)!Users
BY DEF Life!Idle, Life!NoChange, NoRequest, Life!Providers, Providers, Life!Assign, Assign, Life!ProviderType,
       ProviderType, Life!Cancel, Cancel, Life!Who, Life!Users

LEMMA SameRequests ==
  ASSUME NEW j, \A r \in Requests : RequestOn(j, req'[r]) = RequestOn(j, req[r])
  PROVE  RequestsOn(j)' = RequestsOn(j)
<1>1. RequestsOn(j)' = [r \in Requests |-> RequestOn(j, req'[r])]
  BY DEF RequestsOn, RequestOn
<1> QED
  BY <1>1 DEF RequestsOn

\* A step that changes neither the row of the job nor its cancels.
LEMMA LifeStutters ==
  ASSUME NEW j, RowOf(j)' = RowOf(j), \A r \in Requests : RequestOn(j, req'[r]) = RequestOn(j, req[r])
  PROVE  UNCHANGED Life(j)!jobVars
BY SameRequests DEF Life!jobVars

\* A request of another kind becomes or was a cancel of the job.
LEMMA OneRequest ==
  ASSUME IInv, NEW j, NEW r \in Requests, NEW q, req' = [req EXCEPT ![r] = q],
         NEW seen, RequestOn(j, q) = seen
  PROVE  /\ RequestsOn(j)[r] = RequestOn(j, req[r])
         /\ RequestsOn(j)' = [RequestsOn(j) EXCEPT ![r] = seen]
<1>1. RequestsOn(j)' = [x \in Requests |-> RequestOn(j, req'[x])]
  BY DEF RequestsOn, RequestOn
<1>2. RequestsOn(j) = [x \in Requests |-> RequestOn(j, req[x])]
  BY DEF RequestsOn
<1>3. \A x \in Requests : req'[x] = IF x = r THEN q ELSE req[x]
  BY DEF IInv, TypeOK
<1>4. \A x \in Requests : RequestOn(j, req'[x]) = IF x = r THEN seen ELSE RequestOn(j, req[x])
  BY <1>3
<1> QED
  BY <1>1, <1>2, <1>4

\* The offer's provider is written to the row of its job alone.
LEMMA LifeAccepts ==
  ASSUME IInv, NEW j \in Jobs, NEW r \in Requests, AcceptWins(r)
  PROVE  Life(j)!Next \/ UNCHANGED Life(j)!jobVars
<1>1. /\ job \in [Jobs -> JobRow] /\ req \in [Requests -> Request]
      /\ req[r].op = "accept" /\ req[r].job \in Jobs /\ req[r].by \in Providers
      /\ job[req[r].job].status = "searching"
      /\ job' = [job EXCEPT ![req[r].job] = Assign(@, req[r].by)]
      /\ req' = [req EXCEPT ![r] = Idle]
  BY RequestType DEF AcceptWins, IInv, TypeOK
<1>2. \A q \in Requests : RequestOn(j, req'[q]) = RequestOn(j, req[q])
  BY <1>1 DEF RequestOn, Idle
<1>3. CASE req[r].job # j
  <2>1. RowOf(j)' = RowOf(j)
    BY <1>1, <1>3 DEF RowOf
  <2> QED
    BY <1>2, <2>1, LifeStutters
<1>4. CASE req[r].job = j
  <2> DEFINE p == req[r].by
  <2>1. job[j] \in JobRow /\ job[j].status = "searching" /\ job'[j] = Assign(job[j], p)
    BY <1>1, <1>4
  <2>2. RowOf(j) = Full(job[j]) /\ RowOf(j).status = "searching"
    BY <2>1 DEF RowOf, Full
  <2>3. RowOf(j)' = Assign(RowOf(j), p)
    <3>1. RowOf(j)' = Full(job'[j])
      BY <2>1, FullAssign DEF RowOf
    <3> QED
      BY <2>1, <2>2, <3>1, FullAssign
  <2>4. Life(j)!AcceptOffer(p)
    BY <1>2, <2>2, <2>3, LifeParts, SameRequests DEF Life!AcceptOffer
  <2> QED
    BY <1>1, <2>4, LifeParts DEF Life!Next
<1> QED
  BY <1>3, <1>4

\* A cancel is the customer's request on the row of its job, from the read on.
LEMMA LifeCancels ==
  ASSUME IInv, NEW j \in Jobs, NEW r \in Requests,
         (\E i \in Jobs : CancelRead(r, i)) \/ CancelCommit(r) \/ RequestFails(r)
  PROVE  Life(j)!Next \/ UNCHANGED Life(j)!jobVars
<1>1. /\ job \in [Jobs -> JobRow] /\ req \in [Requests -> Request]
      /\ job[j] \in JobRow
  BY DEF IInv, TypeOK
<1>2. RequestOn(j, Idle) = NoRequest
  BY DEF RequestOn, Idle
<1>3. CASE \E i \in Jobs : CancelRead(r, i)
  <2>1. PICK i \in Jobs : CancelRead(r, i)
    BY <1>3
  <2>2. /\ req[r] = Idle /\ job[i].status \notin {"absent", "completed", "cancelled"}
        /\ req' = [req EXCEPT ![r] = [op |-> "cancel", job |-> i, by |-> None]]
        /\ job' = job
    BY <2>1 DEF CancelRead
  <2>3. RowOf(j)' = RowOf(j)
    BY <2>2 DEF RowOf
  <2>4. CASE i # j
    <3>1. \A q \in Requests : RequestOn(j, req'[q]) = RequestOn(j, req[q])
      BY <1>1, <2>2, <2>4 DEF RequestOn, Idle
    <3> QED
      BY <2>3, <3>1, LifeStutters
  <2>5. CASE i = j
    <3>1. ASSUME NEW seen, seen = CancelOf
          PROVE  RequestsOn(j)[r] = NoRequest /\ RequestsOn(j)' = [RequestsOn(j) EXCEPT ![r] = seen]
      <4> DEFINE q == [op |-> "cancel", job |-> i, by |-> None]
      <4>1. RequestOn(j, q) = seen
        BY <2>5, <3>1 DEF RequestOn
      <4>2. req' = [req EXCEPT ![r] = q]
        BY <2>2
      <4> HIDE DEF q
      <4>3. /\ RequestsOn(j)[r] = RequestOn(j, req[r])
            /\ RequestsOn(j)' = [RequestsOn(j) EXCEPT ![r] = seen]
        BY <4>1, <4>2, OneRequest
      <4> QED
        BY <1>2, <2>2, <4>3
    <3>2. RowOf(j).status = job[j].status /\ Life(j)!MayAct("customer")
      BY <2>2, <2>5 DEF RowOf, Full, Life!MayAct
    <3> DEFINE edited == Cancel(RowOf(j))
    <3>3. /\ edited # RowOf(j)
          /\ Life(j)!OrmChanges(RowOf(j), edited) = Cancelling
      <4> DEFINE rw == RowOf(j)
                 cols == {"status", "assigned_type", "assigned_mechanic_id", "assigned_garage_id",
                          "service_amount", "provider_upi_id"}
      <4>1. rw = [x \in cols |-> rw[x]] /\ rw["status"] # "cancelled"
        BY <2>2, <2>5, <3>2 DEF RowOf, Full
      <4>2. edited = [rw EXCEPT !["status"] = "cancelled"]
        BY DEF Cancel
      <4> HIDE DEF rw, edited
      <4>3. \A x \in cols : edited[x] = IF x = "status" THEN "cancelled" ELSE rw[x]
        BY <4>1, <4>2
      <4>4. {x \in cols : edited[x] # rw[x]} = {"status"}
        BY <4>1, <4>3
      <4>5. DOMAIN rw = cols
        BY <4>1
      <4> QED
        BY <4>1, <4>3, <4>4, <4>5 DEF rw, Cancelling, Life!OrmChanges
    <3> HIDE DEF edited
    <3>4. Life(j)!Load(r, "customer", edited)
      <4> DEFINE q == [op |-> "update", by |-> Life(j)!Who("customer"),
                       changes |-> Life(j)!OrmChanges(RowOf(j), edited)]
      <4>1. q = CancelOf
        BY <3>3, LifeParts DEF CancelOf
      <4>2. RequestsOn(j)[r] = NoRequest /\ RequestsOn(j)' = [RequestsOn(j) EXCEPT ![r] = q]
        BY <3>1, <4>1
      <4> QED
        BY <2>3, <3>3, <4>2, LifeParts DEF Life!Load
    <3>5. Life(j)!CancelRequest(r, "customer")
      BY <2>2, <2>5, <3>2, <3>4, LifeParts DEF Life!CancelRequest, edited
    <3> QED
      BY <3>5, LifeParts DEF Life!Next, Life!PartyStep
  <2> QED
    BY <2>4, <2>5
<1>4. CASE (CancelCommit(r) \/ RequestFails(r)) /\ ~(req[r].op = "cancel" /\ req[r].job = j)
  <2>1. \A q \in Requests : RequestOn(j, req'[q]) = RequestOn(j, req[q])
    BY <1>1, <1>2, <1>4 DEF CancelCommit, RequestFails, RequestOn
  <2>2. RowOf(j)' = RowOf(j)
    BY <1>1, <1>4 DEF CancelCommit, RequestFails, RowOf
  <2> QED
    BY <2>1, <2>2, LifeStutters
<1>5. CASE (CancelCommit(r) \/ RequestFails(r)) /\ req[r].op = "cancel" /\ req[r].job = j
  <2>1. /\ RequestsOn(j)[r] = CancelOf
        /\ RequestsOn(j)' = [RequestsOn(j) EXCEPT ![r] = Life(j)!Idle]
    <3>1. req' = [req EXCEPT ![r] = Idle]
      BY <1>5 DEF CancelCommit, RequestFails
    <3>2. ASSUME NEW seen, RequestOn(j, Idle) = seen
          PROVE  /\ RequestsOn(j)[r] = RequestOn(j, req[r])
                 /\ RequestsOn(j)' = [RequestsOn(j) EXCEPT ![r] = seen]
      BY <3>1, <3>2, OneRequest
    <3>3. RequestOn(j, Idle) = Life(j)!Idle
      BY <1>2, LifeParts
    <3>4. RequestsOn(j)[r] = RequestOn(j, req[r]) /\ RequestsOn(j)' = [RequestsOn(j) EXCEPT ![r] = Life(j)!Idle]
      BY <3>2, <3>3
    <3> QED
      BY <1>5, <3>4 DEF RequestOn
  <2>2. CASE CancelCommit(r)
    <3>1. job[j].status # "absent" /\ job'[j] = Cancel(job[j])
      BY <1>1, <1>5, <2>2 DEF CancelCommit, IInv, RequestsAreGrounded
    <3>2. /\ RowOf(j) = Full(job[j]) /\ RowOf(j).status # "absent"
          /\ RowOf(j)' = Full(Cancel(job[j]))
      BY <1>1, <3>1, FullCancel DEF RowOf, Full
    <3>3. Life(j)!CommitUpdate(r)
      <4>1. RowOf(j)' = Life(j)!OrmFlush(RowOf(j), Cancelling)
        BY <1>1, <3>2, FullCancel DEF Cancelling, Life!OrmFlush
      <4>2. RequestsOn(j)[r].op = "update" /\ RequestsOn(j)[r].changes = Cancelling
        BY <2>1 DEF CancelOf
      <4> QED
        BY <2>1, <3>2, <4>1, <4>2, LifeParts DEF Life!CommitUpdate
    <3> QED
      BY <3>3 DEF Life!Next, Life!PartyStep
  <2>3. CASE RequestFails(r)
    <3>1. RowOf(j)' = RowOf(j)
      BY <2>3 DEF RequestFails, RowOf
    <3>2. Life(j)!RequestFails(r)
      BY <2>1, <3>1, LifeParts DEF Life!RequestFails, CancelOf, NoRequest
    <3> QED
      BY <3>2 DEF Life!Next, Life!PartyStep
  <2> QED
    BY <1>5, <2>2, <2>3
<1> QED
  BY <1>3, <1>4, <1>5

\* Every other step: a job appears as JobLifecycle has it, or its row stays.
LEMMA LifeRest ==
  ASSUME IInv, [Next]_vars, NEW j \in Jobs,
         ~\E r \in Requests : \/ AcceptWins(r) \/ CancelCommit(r) \/ RequestFails(r)
                             \/ \E i \in Jobs : CancelRead(r, i)
  PROVE  UNCHANGED Life(j)!jobVars
<1>1. req \in [Requests -> Request] /\ job \in [Jobs -> JobRow]
  BY DEF IInv, TypeOK
<1>2. \A r \in Requests : RequestOn(j, req'[r]) = RequestOn(j, req[r])
  <2>1. ASSUME NEW r \in Requests, NEW i \in Jobs, NEW p \in Providers,
               AcceptRead(r, i, p) \/ DeclineRead(r, i, p)
        PROVE  \A q \in Requests : RequestOn(j, req'[q]) = RequestOn(j, req[q])
    BY <1>1, <2>1 DEF AcceptRead, DeclineRead, RequestOn, Idle
  <2>2. ASSUME NEW r \in Requests, AcceptLoses(r) \/ DeclineCommit(r)
        PROVE  \A q \in Requests : RequestOn(j, req'[q]) = RequestOn(j, req[q])
    BY <1>1, <2>2 DEF AcceptLoses, DeclineCommit, RequestOn, Idle
  <2>3. ASSUME req' = req
        PROVE  \A q \in Requests : RequestOn(j, req'[q]) = RequestOn(j, req[q])
    BY <2>3
  <2>4. ASSUME NEW i \in Jobs, DispatchStep(i)
        PROVE  req' = req
    BY <2>4 DEF DispatchStep, CreateServiceRequest, CommitCreate, Rollback, RetryAssignment,
                RetryIgnored, CommitRetry, DispatchOfferPush, TaskLost
  <2> QED
    BY <2>1, <2>2, <2>3, <2>4 DEF Next, AnswerStep, ProviderComesOrGoes, Tick, vars
<1>3. job' = job \/ \E i \in Jobs : job[i].status = "absent" /\ job' = [job EXCEPT ![i] = NewRow]
  BY DEF IInv, UncommittedIsAbsent, Next, vars, DispatchStep, AnswerStep, CreateServiceRequest,
         CommitCreate, Rollback, RetryAssignment, RetryIgnored, CommitRetry, DispatchOfferPush,
         TaskLost, AcceptRead, DeclineRead, AcceptLoses, DeclineCommit, ProviderComesOrGoes, Tick
<1>4. RowOf(j)' = RowOf(j)
  BY <1>1, <1>3 DEF RowOf, NewRow, NoRow
<1> QED
  BY <1>2, <1>4, LifeStutters

\* To any one job, dispatch with its offers, tasks, locks and crashes does what
\* JobLifecycle allows: the cancel is a stale read that merges into the row, the
\* accept one step under the lock, and all else leaves the row alone.
THEOREM RefinesLifecycle == ASSUME NEW j \in Jobs PROVE Spec => Life(j)!Spec
<1>1. Init => Life(j)!Init
  <2> SUFFICES ASSUME Init
               PROVE  Life(j)!Init
    OBVIOUS
  <2>1. RowOf(j) = Life(j)!Created
    BY DEF Init, RowOf, Full, NoRow, NewRow, Life!Created
  <2>2. RequestsOn(j) = [r \in Requests |-> NoRequest]
    BY DEF Init, RequestsOn, RequestOn, Idle
  <2>3. RequestsOn(j) = [r \in Requests |-> Life(j)!Idle]
    BY <2>2, LifeParts
  <2> QED
    BY <2>1, <2>3 DEF Life!Init
<1>2. IInv /\ [Next]_vars => [Life(j)!Next]_(Life(j)!jobVars)
  BY LifeAccepts, LifeCancels, LifeRest
<1> QED
  BY <1>1, <1>2, Invariance, PTL DEF Spec, Life!Spec

=============================================================================
