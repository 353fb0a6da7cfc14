------------------------------ MODULE Payments ------------------------------
(***************************************************************************)
(* The payments of one job, on top of JobLifecycle: orders and QR codes    *)
(* created at the gateway, the client's verify call and the gateway's      *)
(* webhooks (delivered at least once, in any order), cash, escrow holds    *)
(* and the admin's refunds.                                                *)
(*                                                                         *)
(* A handler that decides on what it read is two steps, as in              *)
(* JobLifecycle: its first step loads the payment and the job, its second  *)
(* flushes what changed of both and commits.                               *)
(***************************************************************************)
EXTENDS JobLifecycle

CONSTANTS
  PaymentIds,   \* ids of payments rows
  OtherOrders,  \* orders of other jobs the gateway has collected the money of
  Callbacks,    \* payment requests and webhooks that can be in flight
  MaxPayouts,   \* process_payouts is followed this often per payment: a bound
  Crashes       \* TRUE: sessions may die before they commit

Event == [type : {"payment.captured", "payment.failed"}, payment : PaymentIds]

\* NULL is no event and no id, and a request is a payment's or not.
ASSUME PaymentsAssumption ==
  /\ MaxPayouts \in Nat \ {0}
  /\ Crashes \in BOOLEAN
  /\ None \notin Event /\ None \notin PaymentIds \cup OtherOrders
  /\ Requests \cap Callbacks = {}

VARIABLES
  pay,      \* committed rows of payments
  paid,     \* orders and QR codes the gateway has collected the money of
  events,   \* webhooks the gateway has not been given a 2xx for
  payouts,  \* how often process_payouts has paid out for a payment
  call      \* payment handlers between their load and their commit

payVars == <<pay, paid, events, payouts, call>>
vars == <<jobVars, payVars>>

\* kind abstracts provider, provider_order_id and method; ref is the column
\* provider_payment_id: NULL, the gateway's payment of an order of this job or of
\* another, or the "client"'s own id of a transaction. A row deleted with
\* its job is "gone".
PaymentRow ==
  [kind   : {"none", "order", "qr", "cash", "hold"},
   status : {"none", "pending", "captured", "failed", "refunded", "held", "released", "gone"},
   ref    : PaymentIds \cup OtherOrders \cup {None, "client"}]

NoPayment == [kind |-> "none", status |-> "none", ref |-> None]

\* A handler that will set these payments to a status, and to a gateway's payment
\* unless ref is None, change the job, pay out if payout, and answer the webhook
\* event, if it is one.
Quiet == [op |-> "idle", payments |-> {}, status |-> "none", ref |-> None,
          job |-> NoChange, payout |-> FALSE, event |-> None]

PaymentsTypeOK ==
  /\ TypeOK
  /\ pay \in [PaymentIds -> PaymentRow]
  /\ paid \in SUBSET PaymentIds
  /\ events \in SUBSET Event
  /\ payouts \in [PaymentIds -> 0..MaxPayouts]
  /\ \A c \in Callbacks :
       /\ call[c].op \in {"idle", "update", "insert"}
       /\ call[c].payments \in SUBSET PaymentIds
       /\ OrmFlush(Created, call[c].job) \in Row

PaymentsInit ==
  /\ Init
  /\ pay = [p \in PaymentIds |-> NoPayment]
  /\ paid = {}
  /\ events = {}
  /\ payouts = [p \in PaymentIds |-> 0]
  /\ call = [c \in Callbacks |-> Quiet]

\* A row that can be read.
Exists(p) == pay[p].status \notin {"none", "gone"}

\* An id no row and no handler has.
Unused(p) ==
  /\ pay[p] = NoPayment
  /\ \A c \in Callbacks : p \notin call[c].payments

\* Defect variant: the job goes back to waiting for its payment.
JobCompleted_Pending == OrmChanges(row, [row EXCEPT !.status = "payment_pending"])

\* The job columns a handler changes that wants the job completed.
JobCompleted == OrmChanges(row, [row EXCEPT !.status = "completed"])

Begin(c, handler) ==
  /\ call[c] = Quiet
  /\ call' = [call EXCEPT ![c] = handler]
  /\ UNCHANGED <<jobVars, pay, paid, events, payouts>>

------------------------------------------------------------------------------
(* New payments.                                                           *)

\* Inserting a payment needs its job (foreign key), whatever its status.
Insert(p, kind, status, ref) ==
  /\ Unused(p)
  /\ row.status # "absent"
  /\ pay' = [pay EXCEPT ![p] = [kind |-> kind, status |-> status, ref |-> ref]]
  /\ UNCHANGED <<jobVars, paid, events, payouts, call>>

\* POST /payments/create and /payments/qr: a pending row for what the gateway
\* has created. The job's status is not looked at.
CreateOrder(p) == Insert(p, "order", "pending", None)
CreateQr(p) == Insert(p, "qr", "pending", None)

\* Defect variant: a status the enum of the column does not have.
HoldPayment_Escrow(p) ==
  /\ row.status \in {"payment_pending", "in_progress"}
  /\ \E ref \in {None, "client"} : Insert(p, "hold", "escrow", ref)

\* POST /service/request/{id}/hold, with or without an id of the client's.
HoldPayment(p) ==
  /\ row.status \in {"payment_pending", "in_progress"}
  /\ \E ref \in {None, "client"} : Insert(p, "hold", "held", ref)

\* POST /payments/cash: the job is open and has no captured or pending payment.
CashPayment(c, p) ==
  /\ Unused(p)
  /\ row.status \notin {"absent", "completed", "cancelled"}
  /\ \A q \in PaymentIds : pay[q].status \notin {"captured", "pending"}
  /\ Begin(c, [Quiet EXCEPT !.op = "insert", !.payments = {p}, !.status = "captured",
                            !.job = JobCompleted])

------------------------------------------------------------------------------
(* The gateway.                                                            *)

\* The customer pays. Only orders are reported: the entity of a QR payment has
\* no order_id.
GatewayCaptures(p) ==
  /\ pay[p].kind \in {"order", "qr"}
  /\ p \notin paid
  /\ paid' = paid \cup {p}
  /\ events' = IF pay[p].kind = "order"
               THEN events \cup {[type |-> "payment.captured", payment |-> p]}
               ELSE events
  /\ UNCHANGED <<jobVars, pay, payouts, call>>

\* An attempt to pay an order fails; a later one may succeed.
GatewayAttemptFails(p) ==
  /\ pay[p].kind = "order"
  /\ p \notin paid
  /\ events' = events \cup {[type |-> "payment.failed", payment |-> p]}
  /\ UNCHANGED <<jobVars, pay, paid, payouts, call>>

\* What verify and the captured webhook do with a payment that is not captured:
\* capture it under the gateway's payment of the order o, complete its job from
\* any status, pay out if the job has a bill.
Capture(c, p, o, event) ==
  /\ payouts[p] < MaxPayouts
  /\ Begin(c, [op |-> "update", payments |-> {p}, status |-> "captured", ref |-> o,
               job |-> JobCompleted, payout |-> row.service_amount, event |-> event])

\* The orders of this job and of others.
Orders == {o \in PaymentIds : pay[o].kind = "order"} \cup OtherOrders

\* Defect variant: the signature is not checked.
VerifyPayment_Unsigned(c, p, o) ==
  /\ o \in Orders
  /\ Exists(p) /\ pay[p].status # "captured"
  /\ Capture(c, p, o, None)

\* POST /payments/verify. Only the gateway can have signed the ids of an order and
\* of its payment, which it does when the order is paid. The row is looked up by
\* an id of its own: the handler does not compare its order with the signed one.
VerifyPayment(c, p, o) ==
  /\ o \in Orders \cap (paid \cup OtherOrders)
  /\ Exists(p) /\ pay[p].status # "captured"
  /\ Capture(c, p, o, None)

\* Defect variant: only a pending payment is captured.
ToCapture_PendingOnly(p) == pay[p].status = "pending"

\* The webhook's guard: captured is not captured again, all else is.
ToCapture(p) == Exists(p) /\ pay[p].status # "captured"

\* POST /payments/webhook, event payment.captured.
WebhookCaptured(c, p) ==
  LET e == [type |-> "payment.captured", payment |-> p] IN
  /\ e \in events
  /\ ToCapture(p)
  /\ Capture(c, p, p, e)

\* Defect variant: the status is not looked at.
WebhookFailed_AnyStatus(c, p) ==
  LET e == [type |-> "payment.failed", payment |-> p] IN
  /\ e \in events
  /\ Exists(p)
  /\ Begin(c, [Quiet EXCEPT !.op = "update", !.payments = {p}, !.status = "failed",
                            !.event = e])

\* POST /payments/webhook, event payment.failed.
WebhookFailed(c, p) ==
  LET e == [type |-> "payment.failed", payment |-> p] IN
  /\ e \in events
  /\ pay[p].status = "pending"
  /\ Begin(c, [Quiet EXCEPT !.op = "update", !.payments = {p}, !.status = "failed",
                            !.event = e])

\* A webhook with nothing to do is answered 200.
WebhookIgnored(e) ==
  /\ e \in events
  /\ \/ e.type = "payment.captured" /\ ~ToCapture(e.payment)
     \/ e.type = "payment.failed" /\ pay[e.payment].status # "pending"
  /\ events' = events \ {e}
  /\ UNCHANGED <<jobVars, pay, paid, payouts, call>>

------------------------------------------------------------------------------
(* Escrow and refunds.                                                     *)

\* POST /service/request/{id}/release: a held payment, or any payment of the job
\* the customer names by its provider_payment_id. A cancelled job is refused
\* after the payment was written, so nothing is.
ReleasePayment(c, p) ==
  /\ row.status \notin {"absent", "cancelled"}
  /\ \/ pay[p].status = "held"
     \/ Exists(p) /\ pay[p].ref # None
  /\ Begin(c, [Quiet EXCEPT !.op = "update", !.payments = {p}, !.status = "released",
                            !.job = JobCompleted])

\* POST /admin/payments/{id}/refund.
RefundPayment(c, p) ==
  /\ pay[p].status = "captured"
  /\ Begin(c, [Quiet EXCEPT !.op = "update", !.payments = {p}, !.status = "refunded"])

\* POST /admin/disputes/{id}/refund: every captured payment of the job.
RefundDispute(c) ==
  LET captured == {p \in PaymentIds : pay[p].status = "captured"} IN
  /\ captured # {}
  /\ Begin(c, [Quiet EXCEPT !.op = "update", !.payments = captured, !.status = "refunded"])

------------------------------------------------------------------------------
(* The end of a handler.                                                   *)

\* All rows to update are still there, and so is the job of a new row: payments
\* and job are flushed, the payout is made, the transaction commits. A webhook
\* may be delivered again although it was answered.
CommitCall(c) ==
  LET h == call[c] IN
  /\ h.op # "idle"
  /\ row.status # "absent"
  /\ pay' = [p \in PaymentIds |->
       IF p \notin h.payments THEN pay[p]
       ELSE IF h.op = "insert" THEN [kind |-> "cash", status |-> h.status, ref |-> None]
       ELSE [pay[p] EXCEPT !.status = h.status, !.ref = IF h.ref = None THEN @ ELSE h.ref]]
  /\ row' = OrmFlush(row, h.job)
  /\ payouts' = [p \in PaymentIds |->
       IF h.payout /\ p \in h.payments /\ payouts[p] < MaxPayouts
       THEN payouts[p] + 1 ELSE payouts[p]]
  /\ events' \in {events, events \ {h.event}}
  /\ call' = [call EXCEPT ![c] = Quiet]
  /\ UNCHANGED <<req, paid>>

\* The job and its payments were deleted meanwhile, or the session is lost: 500,
\* and the gateway will deliver again.
CallFails(c) ==
  /\ call[c].op # "idle"
  /\ Crashes \/ row.status = "absent"
  /\ call' = [call EXCEPT ![c] = Quiet]
  /\ UNCHANGED <<jobVars, pay, paid, events, payouts>>

\* delete_job takes the payments of the job with it.
DeleteJob(r) ==
  /\ CommitDelete(r)
  /\ pay' = [p \in PaymentIds |->
       IF Exists(p) THEN [pay[p] EXCEPT !.status = "gone"] ELSE pay[p]]
  /\ UNCHANGED <<paid, events, payouts, call>>

CallStep(c) ==
  \/ \E p \in PaymentIds : \/ CashPayment(c, p)
                           \/ \E o \in Orders : VerifyPayment(c, p, o)
                           \/ WebhookCaptured(c, p) \/ WebhookFailed(c, p)
                           \/ ReleasePayment(c, p) \/ RefundPayment(c, p)
  \/ RefundDispute(c)
  \/ CommitCall(c)
  \/ CallFails(c)

PaymentsNext ==
  \/ \E r \in Requests : PartyStep(r) /\ UNCHANGED payVars
  \/ \E r \in Requests : DeleteJob(r)
  \/ \E p \in Providers : AcceptOffer(p) /\ UNCHANGED payVars
  \/ \E p \in PaymentIds : CreateOrder(p) \/ CreateQr(p) \/ HoldPayment(p)
                           \/ GatewayCaptures(p) \/ GatewayAttemptFails(p)
  \/ \E e \in events : WebhookIgnored(e)
  \/ \E c \in Callbacks : CallStep(c)

PaymentsSpec == PaymentsInit /\ [][PaymentsNext]_vars

\* The server finishes what it has begun, and the gateway delivers a webhook
\* again until it is answered.
PaymentsFairness ==
  /\ \A c \in Callbacks : WF_vars(CommitCall(c) \/ CallFails(c))
  /\ \A p \in PaymentIds : SF_vars(\E c \in Callbacks : WebhookCaptured(c, p))

FairPaymentsSpec == PaymentsSpec /\ PaymentsFairness

------------------------------------------------------------------------------
(* Properties.                                                             *)

\* An order or a QR code recorded as captured, refunded or released, and whatever
\* was paid out for, names an order's payment that the gateway has collected:
\* every way to record one goes through a signature, and no late webhook, release
\* or refund that overlaps it parts the two. It need not be the row's own order,
\* which verify does not ask for.
MoneyRecordedWasPaid ==
  \A p \in PaymentIds :
    \/ /\ pay[p].kind \in {"order", "qr"}
       /\ pay[p].status \in {"captured", "refunded", "released"}
    \/ payouts[p] > 0
    => pay[p].ref \in paid \cup OtherOrders

\* The gateway stops delivering a capture only when it is on record: not while
\* the payment still says pending, nor while it says failed because of an
\* earlier attempt, nor when the session was lost before its commit.
AckedMeansRecorded ==
  [][\A p \in PaymentIds :
       LET e == [type |-> "payment.captured", payment |-> p] IN
       e \in events /\ e \notin events' => pay'[p].status \notin {"pending", "failed"}]_vars

\* Webhooks that arrive out of order do no harm when they are handled one at a
\* time: a captured payment is refunded or released by somebody, or stays.
CaptureSticks ==
  [][\A p \in PaymentIds :
       pay[p].status = "captured" =>
         pay'[p].status \in {"captured", "refunded", "released", "gone"}]_vars

\* What JobLifecycle sees of payments: a handler in flight that changes the job is
\* one more request on its row, and one that does not is none.
RequestOf(h) ==
  IF h.job = NoChange THEN Idle ELSE [op |-> "update", by |-> "other", changes |-> h.job]

AllRequests ==
  [r \in Requests \cup Callbacks |-> IF r \in Requests THEN req[r] ELSE RequestOf(call[r])]

JobSide == INSTANCE JobLifecycle WITH
  Requests <- Requests \cup Callbacks,
  req      <- AllRequests

\* The job behaves as JobLifecycle says, with its payments in the system: all that
\* a webhook, a verify call or a release does to it is completing it, and none
\* of them does it to a job that was not there when its payment was read.
ImplementsLifecycle == JobSide!Spec

\* Money the gateway has collected for an order gets on record without the
\* client, whatever failed before (under FairPaymentsSpec, one handler at a time).
PaidIsRecorded ==
  \A p \in PaymentIds :
    pay[p].kind = "order" /\ p \in paid ~> pay[p].status \notin {"pending", "failed"}

\* "Prevent double-collect: check if payment already exists for this job": cash
\* is not collected twice for one job.
CashCollectedOnce ==
  \A p, q \in PaymentIds :
    /\ pay[p].kind = "cash" /\ pay[p].status = "captured"
    /\ pay[q].kind = "cash" /\ pay[q].status = "captured"
    => p = q

\* "Idempotent processing": reporting one and the same payment again does not
\* pay out for it again.
PaidOutOnce == \A p \in PaymentIds : payouts[p] <= 1

=============================================================================
