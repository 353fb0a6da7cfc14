--------------------------- MODULE PaymentsProofs ---------------------------
(***************************************************************************)
(* PaymentsTypeOK, MoneyRecordedWasPaid and AckedMeansRecorded, proved for *)
(* any number of payments, requests and webhooks in flight; CaptureSticks  *)
(* when handlers do not overlap; and that the job under its payments is    *)
(* the job of JobLifecycle, with the properties that has.                  *)
(***************************************************************************)
EXTENDS Payments, JobLifecycleProofs

\* The changes to the job a payment handler can hold: none, or its completion.
Completion == [x \in {"status"} |-> "completed"]

Handler ==
  [op       : {"idle", "update", "insert"},
   payments : SUBSET PaymentIds,
   status   : {"none", "captured", "failed", "refunded", "released"},
   ref      : PaymentIds \cup OtherOrders \cup {None},
   job      : {NoChange, Completion},
   payout   : BOOLEAN,
   event    : Event \cup {None}]

PaymentsShape ==
  /\ pay \in [PaymentIds -> PaymentRow]
  /\ paid \in SUBSET PaymentIds
  /\ events \in SUBSET Event
  /\ payouts \in [PaymentIds -> 0..MaxPayouts]
  /\ call \in [Callbacks -> Handler]

\* The statuses that say the money of an order has come in.
Collected == {"captured", "refunded", "released"}

\* The gateway's payments it has collected the money of.
Genuine == paid \cup OtherOrders

\* A handler that updates payments has rows to update, names a genuine payment if
\* it names one, and one that is about to record money of the gateway's finds the
\* row with such a name or brings it.
UpdateOK(h) ==
  h.op = "update" =>
    /\ h.ref # None => h.ref \in Genuine
    /\ \A p \in h.payments :
         /\ pay[p].kind # "none"
         /\ h.status \in Collected /\ pay[p].kind \in {"order", "qr"} /\ h.ref = None
              => pay[p].ref \in Genuine

\* A handler that inserts a payment has the id to itself.
InsertOK(c) ==
  call[c].op = "insert" =>
    /\ \A p \in call[c].payments : pay[p] = NoPayment
    /\ \A d \in Callbacks \ {c} : call[c].payments \cap call[d].payments = {}
    /\ ~call[c].payout /\ call[c].event = None

PayoutOK(h) == h.payout => h.op = "update" /\ h.ref \in Genuine

\* A handler that will answer a captured webhook is recording the capture.
EventOK(h) ==
  \A e \in Event :
    h.event = e /\ e.type = "payment.captured" =>
      h.op = "update" /\ h.payments = {e.payment} /\ h.status = "captured"

CallsOK ==
  \A c \in Callbacks :
    UpdateOK(call[c]) /\ InsertOK(c) /\ PayoutOK(call[c]) /\ EventOK(call[c])

RowsOK ==
  \A p \in PaymentIds :
    /\ pay[p].kind = "none" => pay[p] = NoPayment
    /\ pay[p].kind \in {"order", "qr"} =>
         /\ pay[p].ref # None => pay[p].ref \in Genuine
         /\ pay[p].status \in Collected => pay[p].ref \in Genuine
    /\ payouts[p] > 0 => pay[p].ref \in Genuine
    /\ pay[p].status = "held" => pay[p].kind = "hold"

EventsOK == \A e \in events : e.type = "payment.captured" => e.payment \in paid

PaymentsInv == LifecycleInv /\ PaymentsShape /\ CallsOK /\ RowsOK /\ EventsOK

------------------------------------------------------------------------------
(* The job under a payment.                                                *)

\* Completing a job changes its status alone, or nothing.
LEMMA CompletionOnly ==
  ASSUME row \in Row
  PROVE  JobCompleted \in {NoChange, Completion}
<1> DEFINE edited == [row EXCEPT !.status = "completed"]
<1>1. DOMAIN row = Columns /\ DOMAIN Created = Columns
  BY RowColumns, CreatedIsRow
<1>2. \A x \in Columns : edited[x] = IF x = "status" THEN "completed" ELSE row[x]
  BY <1>1 DEF Columns
<1>4. JobCompleted = [x \in {y \in Columns : edited[y] # row[y]} |-> edited[x]]
  BY <1>1 DEF JobCompleted, OrmChanges
<1> HIDE DEF edited
<1>5. CASE row["status"] = "completed"
  <2>1. {y \in Columns : edited[y] # row[y]} = {}
    BY <1>2, <1>5
  <2>2. JobCompleted = [x \in {} |-> edited[x]]
    BY <1>4, <2>1
  <2> QED
    BY <2>2 DEF NoChange
<1>6. CASE row["status"] # "completed"
  <2>1. {y \in Columns : edited[y] # row[y]} = {"status"}
    BY <1>2, <1>6 DEF Columns
  <2>2. JobCompleted = [x \in {"status"} |-> edited[x]]
    BY <1>4, <2>1
  <2> QED
    BY <1>2, <2>2 DEF Completion, Columns
<1> QED
  BY <1>5, <1>6

\* What a payment handler holds of the job can be flushed onto any row of it.
LEMMA CompletionFits ==
  ASSUME NEW ch \in {NoChange, Completion}
  PROVE  OrmFlush(Created, ch) \in Row /\ Forward(ch)
<1>1. CASE ch = NoChange
  BY <1>1, NoChangeIsEmpty DEF Forward
<1>2. CASE ch = Completion
  <2> DEFINE g == OrmFlush(Created, ch)
  <2>1. DOMAIN Created = Columns
    BY RowColumns, CreatedIsRow
  <2>2. g = [x \in Columns |-> IF x = "status" THEN "completed" ELSE Created[x]]
    BY <1>2, <2>1 DEF OrmFlush, Completion
  <2>3. g = [x \in Columns |-> g[x]]
    BY <2>2
  <2>4. /\ g["status"] = "completed"
        /\ \A x \in Columns \ {"status"} : g[x] = Created[x]
    BY <2>2 DEF Columns
  <2> HIDE DEF g
  <2>5. g \in Row
    BY <2>3, <2>4, RowColumns, CreatedIsRow DEF Columns, JobStatus
  <2>6. Forward(ch)
    BY <1>2 DEF Forward, Completion, JobStatus
  <2> QED
    BY <2>5, <2>6 DEF g
<1> QED
  BY <1>1, <1>2

LEMMA CommitRowKeeps ==
  ASSUME LifecycleInv, NEW ch \in {NoChange, Completion}, row.status # "absent",
         row' = OrmFlush(row, ch), req' = req
  PROVE  LifecycleInv'
<1>1. row \in Row
  BY DEF LifecycleInv, JobTypeOK, TypeOK
<1>2. OrmFlush(Created, ch) \in Row /\ Forward(ch)
  BY CompletionFits
<1>3. row' \in Row /\ (row.provider_upi_id # None => row'.provider_upi_id # None)
  BY <1>1, <1>2, FlushGoesOn
<1>4. RowGoesOn
  BY <1>3 DEF RowGoesOn
<1>5. ChangesOK'
  BY <1>4, RestKeeps DEF LifecycleInv
<1> QED
  BY <1>3, <1>5 DEF LifecycleInv, JobTypeOK, TypeOK

LEMMA JobUntouched ==
  ASSUME LifecycleInv, UNCHANGED jobVars
  PROVE  LifecycleInv'
BY DEF jobVars, LifecycleInv, JobTypeOK, TypeOK, ChangesOK, BringsPayee

------------------------------------------------------------------------------
(* Handlers in flight.                                                     *)

LEMMA QuietIsHandler == Quiet \in Handler
BY DEF Quiet, Handler

\* What a handler that fills in Quiet amounts to, field by field.
LEMMA HandlerFields ==
  ASSUME NEW h,
         h = [x \in {"op", "payments", "status", "ref", "job", "payout", "event"} |-> h[x]],
         h.op \in {"idle", "update", "insert"}, h.payments \in SUBSET PaymentIds,
         h.status \in {"none", "captured", "failed", "refunded", "released"},
         h.ref \in PaymentIds \cup OtherOrders \cup {None},
         h.job \in {NoChange, Completion}, h.payout \in BOOLEAN, h.event \in Event \cup {None}
  PROVE  h \in Handler
BY DEF Handler

\* A handler may start with changes it is entitled to.
LEMMA BeginKeeps ==
  ASSUME PaymentsInv, NEW c \in Callbacks, NEW h \in Handler, Begin(c, h),
         UpdateOK(h), PayoutOK(h), EventOK(h), h.op # "idle",
         h.op = "insert" => /\ \A p \in h.payments : Unused(p)
                            /\ ~h.payout /\ h.event = None
  PROVE  PaymentsInv'
<1>1. /\ call' = [call EXCEPT ![c] = h]
      /\ UNCHANGED <<jobVars, pay, paid, events, payouts>>
  BY DEF Begin
<1>2. LifecycleInv' /\ PaymentsShape' /\ RowsOK' /\ EventsOK'
  BY <1>1, JobUntouched DEF PaymentsInv, PaymentsShape, RowsOK, EventsOK, Genuine
<1>3. /\ call'[c] = h
      /\ \A d \in Callbacks \ {c} : call'[d] = call[d]
      /\ call \in [Callbacks -> Handler]
  BY <1>1 DEF PaymentsInv, PaymentsShape
<1>4. \A d \in Callbacks : UpdateOK(call[d]) /\ PayoutOK(call[d]) /\ EventOK(call[d])
  BY DEF PaymentsInv, CallsOK
<1>5. \A d \in Callbacks : (UpdateOK(call[d]) /\ PayoutOK(call[d]) /\ EventOK(call[d]))'
  BY <1>1, <1>3, <1>4 DEF Genuine, UpdateOK, PayoutOK, EventOK
<1>6. h.op = "update" => \A p \in h.payments : pay[p] # NoPayment
  BY DEF UpdateOK, NoPayment
<1>7. h.op \in {"update", "insert"}
  BY DEF Handler
<1>8. ASSUME NEW d \in Callbacks
      PROVE  InsertOK(d)'
  <2>1. CASE d = c
    BY <1>1, <1>3, <2>1 DEF InsertOK, Unused
  <2>2. CASE d # c
    <3>1. InsertOK(d)
      BY DEF PaymentsInv, CallsOK
    <3>2. call[d].op = "insert" => call[d].payments \cap h.payments = {}
      BY <1>6, <1>7, <3>1 DEF InsertOK, Unused
    <3> QED
      BY <1>1, <1>3, <2>2, <3>1, <3>2 DEF InsertOK
  <2> QED
    BY <2>1, <2>2
<1> QED
  BY <1>2, <1>5, <1>8 DEF PaymentsInv, CallsOK

\* Handlers in flight stay entitled while others end, payments they are about
\* keep their kind, and more money comes in.
LEMMA CallsGoOn ==
  ASSUME PaymentsInv, paid \subseteq paid',
         \A c \in Callbacks : call'[c] = call[c] \/ call'[c] = Quiet,
         \A c \in Callbacks : \A p \in call'[c].payments :
           /\ pay'[p].kind = pay[p].kind /\ (pay[p] = NoPayment => pay'[p] = NoPayment)
           /\ pay[p].kind \in {"order", "qr"} /\ pay[p].ref \in Genuine => pay'[p].ref \in Genuine'
  PROVE  CallsOK'
<1> SUFFICES ASSUME NEW c \in Callbacks
             PROVE  (UpdateOK(call[c]) /\ InsertOK(c) /\ PayoutOK(call[c]) /\ EventOK(call[c]))'
  BY DEF CallsOK
<1>1. UpdateOK(call[c]) /\ InsertOK(c) /\ PayoutOK(call[c]) /\ EventOK(call[c])
  BY DEF PaymentsInv, CallsOK
<1>2. CASE call'[c] = call[c]
  <2>1. (UpdateOK(call[c]) /\ PayoutOK(call[c]) /\ EventOK(call[c]))'
    <3>1. Genuine \subseteq Genuine'
      BY DEF Genuine
    <3>2. UpdateOK(call[c])'
      BY <1>1, <1>2, <3>1 DEF UpdateOK
    <3> QED
      BY <1>1, <1>2, <3>1, <3>2 DEF PayoutOK, EventOK
  <2>2. \A d \in Callbacks : call'[d].payments \subseteq call[d].payments
    BY DEF Quiet
  <2>3. InsertOK(c)'
    BY <1>1, <1>2, <2>2 DEF InsertOK
  <2> QED
    BY <2>1, <2>3
<1>3. CASE call'[c] = Quiet
  BY <1>3, PaymentsAssumption DEF UpdateOK, InsertOK, PayoutOK, EventOK, Quiet
<1> QED
  BY <1>2, <1>3

------------------------------------------------------------------------------
(* The steps.                                                              *)

\* New payments, with an id that nobody has.
LEMMA InsertKeeps ==
  ASSUME PaymentsInv, NEW p \in PaymentIds, CreateOrder(p) \/ CreateQr(p) \/ HoldPayment(p)
  PROVE  PaymentsInv'
<1>1. PICK kind \in {"order", "qr", "hold"}, status \in {"pending", "held"},
            ref \in {None, "client"} :
        Insert(p, kind, status, ref) /\ (kind # "hold" => ref = None /\ status = "pending")
  BY DEF CreateOrder, CreateQr, HoldPayment
<1>2. /\ pay' = [pay EXCEPT ![p] = [kind |-> kind, status |-> status, ref |-> ref]]
      /\ UNCHANGED <<jobVars, paid, events, payouts, call>>
      /\ Unused(p)
  BY <1>1 DEF Insert
<1>3. LifecycleInv'
  BY <1>2, JobUntouched DEF PaymentsInv
<1>4. [kind |-> kind, status |-> status, ref |-> ref] \in PaymentRow
  BY DEF PaymentRow
<1>5. PaymentsShape' /\ EventsOK'
  BY <1>2, <1>4 DEF PaymentsInv, PaymentsShape, EventsOK
<1>6. pay'[p] = [kind |-> kind, status |-> status, ref |-> ref] /\ \A q \in PaymentIds \ {p} : pay'[q] = pay[q]
  BY <1>2 DEF PaymentsInv, PaymentsShape
<1>7. RowsOK'
  <2>1. Genuine' = Genuine /\ payouts' = payouts
    BY <1>2 DEF Genuine
  <2>2. pay[p] = NoPayment /\ ~(payouts[p] > 0)
    BY <1>2, PaymentsAssumption DEF Unused, PaymentsInv, PaymentsShape, RowsOK, NoPayment, Genuine
  <2> QED
    BY <1>1, <1>6, <2>1, <2>2 DEF PaymentsInv, RowsOK, Collected, Genuine
<1>8. \A c \in Callbacks : call[c].payments \subseteq PaymentIds \ {p}
  BY <1>2 DEF Unused, PaymentsInv, PaymentsShape, Handler
<1>9. CallsOK'
  BY <1>2, <1>6, <1>8, CallsGoOn DEF Genuine
<1> QED
  BY <1>3, <1>5, <1>7, <1>9 DEF PaymentsInv

\* The gateway and the webhooks that find nothing to do.
LEMMA GatewayKeeps ==
  ASSUME PaymentsInv,
         \/ \E p \in PaymentIds : GatewayCaptures(p) \/ GatewayAttemptFails(p)
         \/ \E e \in events : WebhookIgnored(e)
  PROVE  PaymentsInv'
<1>1. /\ UNCHANGED <<jobVars, pay, payouts, call>>
      /\ paid \subseteq paid' /\ paid' \subseteq PaymentIds
      /\ events' \subseteq Event
      /\ \A e \in events' \ events : e.type = "payment.captured" => e.payment \in paid'
  BY DEF PaymentsInv, PaymentsShape, Event, GatewayCaptures, GatewayAttemptFails, WebhookIgnored
<1>2. LifecycleInv'
  BY <1>1, JobUntouched DEF PaymentsInv
<1>3. PaymentsShape'
  BY <1>1 DEF PaymentsInv, PaymentsShape
<1>4. EventsOK'
  BY <1>1 DEF PaymentsInv, EventsOK
<1>5. RowsOK' /\ Genuine \subseteq Genuine'
  BY <1>1 DEF PaymentsInv, RowsOK, Genuine
<1>6. CallsOK'
  BY <1>1, <1>5, CallsGoOn
<1> QED
  BY <1>2, <1>3, <1>4, <1>5, <1>6 DEF PaymentsInv

LEMMA CashKeeps ==
  ASSUME PaymentsInv, NEW c \in Callbacks, NEW p \in PaymentIds, CashPayment(c, p)
  PROVE  PaymentsInv'
<1> DEFINE h == [Quiet EXCEPT !.op = "insert", !.payments = {p}, !.status = "captured",
                              !.job = JobCompleted]
<1>1. Begin(c, h) /\ Unused(p)
  BY DEF CashPayment
<1>2. JobCompleted \in {NoChange, Completion}
  BY CompletionOnly DEF PaymentsInv, LifecycleInv, JobTypeOK, TypeOK
<1>3. /\ h = [x \in {"op", "payments", "status", "ref", "job", "payout", "event"} |-> h[x]]
      /\ h.op = "insert" /\ h.payments = {p} /\ h.status = "captured"
      /\ h.job = JobCompleted /\ h.payout = FALSE /\ h.ref = None /\ h.event = None
  BY DEF Quiet
<1> HIDE DEF h
<1>4. h \in Handler
  BY <1>2, <1>3, HandlerFields
<1>5. UpdateOK(h) /\ PayoutOK(h) /\ EventOK(h)
  BY <1>3, PaymentsAssumption DEF UpdateOK, PayoutOK, EventOK
<1> QED
  BY <1>1, <1>3, <1>4, <1>5, BeginKeeps

\* Both ways to record a capture start from the gateway's word for it.
LEMMA CaptureKeeps ==
  ASSUME PaymentsInv, NEW c \in Callbacks, NEW p \in PaymentIds, NEW o \in Genuine,
         NEW event \in Event \cup {None}, Capture(c, p, o, event), Exists(p),
         event \in Event => event.payment = p
  PROVE  PaymentsInv'
<1> DEFINE h == [op |-> "update", payments |-> {p}, status |-> "captured", ref |-> o,
                 job |-> JobCompleted, payout |-> row.service_amount, event |-> event]
<1>1. Begin(c, h)
  BY DEF Capture
<1>2. JobCompleted \in {NoChange, Completion} /\ row.service_amount \in BOOLEAN
  BY CompletionOnly DEF PaymentsInv, LifecycleInv, JobTypeOK, TypeOK, Row
<1>3. o \in PaymentIds \cup OtherOrders /\ o # None
  BY PaymentsAssumption DEF Genuine, PaymentsInv, PaymentsShape
<1>4. h \in Handler
  BY <1>2, <1>3 DEF Handler
<1>5. pay[p].kind # "none"
  BY DEF PaymentsInv, RowsOK, NoPayment, Exists
<1>6. UpdateOK(h) /\ PayoutOK(h) /\ EventOK(h)
  BY <1>3, <1>5 DEF UpdateOK, PayoutOK, EventOK
<1> QED
  BY <1>1, <1>4, <1>6, BeginKeeps

\* A failed attempt, a release and a refund: the new status says that money came
\* in only when the row already names it.
LEMMA StatusChangeKeeps ==
  ASSUME PaymentsInv, NEW c \in Callbacks, NEW h \in Handler, Begin(c, h),
         h.op = "update", h.payout = FALSE, h.ref = None, h.status \in {"failed", "refunded", "released"},
         h.event \in Event => h.event.type = "payment.failed",
         \A p \in h.payments :
           /\ pay[p].status # "none"
           /\ h.status # "failed" /\ pay[p].kind \in {"order", "qr"} => pay[p].ref \in Genuine
  PROVE  PaymentsInv'
<1>1. \A p \in h.payments : p \in PaymentIds /\ pay[p].kind # "none"
  BY DEF PaymentsInv, RowsOK, NoPayment, Handler
<1>2. UpdateOK(h)
  BY <1>1 DEF UpdateOK, Collected
<1>3. PayoutOK(h) /\ EventOK(h)
  BY DEF PayoutOK, EventOK
<1> QED
  BY <1>2, <1>3, BeginKeeps

LEMMA WebhookFailedKeeps ==
  ASSUME PaymentsInv, NEW c \in Callbacks, NEW p \in PaymentIds, WebhookFailed(c, p)
  PROVE  PaymentsInv'
<1> DEFINE e == [type |-> "payment.failed", payment |-> p]
           h == [Quiet EXCEPT !.op = "update", !.payments = {p}, !.status = "failed", !.event = e]
<1>1. Begin(c, h) /\ pay[p].status = "pending"
  BY DEF WebhookFailed
<1>2. e \in Event /\ e.type = "payment.failed"
  BY DEF Event
<1> HIDE DEF e
<1>3. /\ h = [x \in {"op", "payments", "status", "ref", "job", "payout", "event"} |-> h[x]]
      /\ h.op = "update" /\ h.payments = {p} /\ h.status = "failed"
      /\ h.job = NoChange /\ h.payout = FALSE /\ h.ref = None /\ h.event = e
  BY DEF Quiet
<1> HIDE DEF h
<1>4. h \in Handler
  BY <1>2, <1>3, HandlerFields
<1> QED
  BY <1>1, <1>2, <1>3, <1>4, StatusChangeKeeps

LEMMA ReleaseKeeps ==
  ASSUME PaymentsInv, NEW c \in Callbacks, NEW p \in PaymentIds, ReleasePayment(c, p)
  PROVE  PaymentsInv'
<1> DEFINE h == [Quiet EXCEPT !.op = "update", !.payments = {p}, !.status = "released",
                              !.job = JobCompleted]
<1>1. /\ Begin(c, h) /\ pay[p].status # "none"
      /\ pay[p].kind \in {"order", "qr"} => pay[p].ref \in Genuine
  BY DEF ReleasePayment, Exists, PaymentsInv, RowsOK
<1>2. JobCompleted \in {NoChange, Completion}
  BY CompletionOnly DEF PaymentsInv, LifecycleInv, JobTypeOK, TypeOK
<1>3. /\ h = [x \in {"op", "payments", "status", "ref", "job", "payout", "event"} |-> h[x]]
      /\ h.op = "update" /\ h.payments = {p} /\ h.status = "released"
      /\ h.job = JobCompleted /\ h.payout = FALSE /\ h.ref = None /\ h.event = None
  BY DEF Quiet
<1> HIDE DEF h
<1>4. h \in Handler
  BY <1>2, <1>3, HandlerFields
<1> QED
  BY <1>1, <1>3, <1>4, PaymentsAssumption, StatusChangeKeeps

LEMMA RefundKeeps ==
  ASSUME PaymentsInv, NEW c \in Callbacks,
         RefundDispute(c) \/ \E p \in PaymentIds : RefundPayment(c, p)
  PROVE  PaymentsInv'
<1>1. PICK set \in SUBSET PaymentIds :
        /\ \A p \in set : pay[p].status = "captured"
        /\ Begin(c, [Quiet EXCEPT !.op = "update", !.payments = set, !.status = "refunded"])
  BY DEF RefundDispute, RefundPayment
<1> DEFINE h == [Quiet EXCEPT !.op = "update", !.payments = set, !.status = "refunded"]
<1>2. /\ h = [x \in {"op", "payments", "status", "ref", "job", "payout", "event"} |-> h[x]]
      /\ h.op = "update" /\ h.payments = set /\ h.status = "refunded"
      /\ h.job = NoChange /\ h.payout = FALSE /\ h.ref = None /\ h.event = None
  BY DEF Quiet
<1>3. Begin(c, h)
  BY <1>1
<1> HIDE DEF h
<1>4. h \in Handler
  BY <1>2, HandlerFields
<1> QED
  BY <1>1, <1>2, <1>3, <1>4, PaymentsAssumption, StatusChangeKeeps
     DEF Collected, Handler, PaymentsInv, RowsOK

\* What a commit writes to a payment: nothing, a new cash payment with an id that
\* was free, or a status, and a payment of the gateway's with it unless the row
\* names one already.
Written(c, p) ==
  \/ p \notin call[c].payments /\ pay'[p] = pay[p]
  \/ /\ p \in call[c].payments /\ call[c].op = "insert" /\ pay[p] = NoPayment
     /\ pay'[p].kind = "cash"
  \/ /\ p \in call[c].payments /\ call[c].op = "update" /\ pay[p].kind # "none"
     /\ pay'[p].kind = pay[p].kind /\ pay'[p].status = call[c].status
     /\ pay'[p].ref = IF call[c].ref = None THEN pay[p].ref ELSE call[c].ref
     /\ call[c].ref # None => call[c].ref \in Genuine
     /\ call[c].status \in Collected /\ pay[p].kind \in {"order", "qr"}
          => pay'[p].ref \in Genuine

LEMMA CommitRows ==
  ASSUME PaymentsInv, NEW c \in Callbacks, CommitCall(c), NEW p \in PaymentIds
  PROVE  pay'[p] \in PaymentRow /\ Written(c, p)
<1>1. call[c] \in Handler /\ pay[p] \in PaymentRow /\ UpdateOK(call[c]) /\ InsertOK(c)
  BY DEF PaymentsInv, PaymentsShape, CallsOK
<1>2. /\ call[c].op \in {"update", "insert"}
      /\ call[c].status \in {"none", "captured", "failed", "refunded", "released"}
      /\ call[c].ref \in PaymentIds \cup OtherOrders \cup {None}
  BY <1>1 DEF CommitCall, Handler
<1>3. pay'[p] = IF p \notin call[c].payments THEN pay[p]
               ELSE IF call[c].op = "insert"
                      THEN [kind |-> "cash", status |-> call[c].status, ref |-> None]
               ELSE [pay[p] EXCEPT !.status = call[c].status,
                                   !.ref = IF call[c].ref = None THEN @ ELSE call[c].ref]
  BY DEF CommitCall
<1>4. CASE p \notin call[c].payments
  BY <1>1, <1>3, <1>4 DEF Written
<1>5. CASE p \in call[c].payments /\ call[c].op = "insert"
  <2>1. pay'[p] = [kind |-> "cash", status |-> call[c].status, ref |-> None]
    BY <1>3, <1>5
  <2>2. pay[p] = NoPayment
    BY <1>1, <1>5 DEF InsertOK
  <2> QED
    BY <1>2, <1>5, <2>1, <2>2 DEF Written, PaymentRow
<1>6. CASE p \in call[c].payments /\ call[c].op = "update"
  <2>1. pay'[p] = [pay[p] EXCEPT !.status = call[c].status,
                                !.ref = IF call[c].ref = None THEN @ ELSE call[c].ref]
    BY <1>3, <1>6
  <2>2. /\ pay'[p].kind = pay[p].kind /\ pay'[p].status = call[c].status
        /\ pay'[p].ref = IF call[c].ref = None THEN pay[p].ref ELSE call[c].ref
        /\ pay'[p] \in PaymentRow
    BY <1>1, <1>2, <2>1 DEF PaymentRow
  <2> QED
    BY <1>1, <1>6, <2>2 DEF Written, UpdateOK
<1> QED
  BY <1>2, <1>4, <1>5, <1>6

LEMMA CommitCallKeeps ==
  ASSUME PaymentsInv, NEW c \in Callbacks, CommitCall(c)
  PROVE  PaymentsInv'
<1>1. call[c] \in Handler /\ PayoutOK(call[c])
  BY DEF PaymentsInv, PaymentsShape, CallsOK
<1>2. /\ row.status # "absent" /\ row' = OrmFlush(row, call[c].job) /\ UNCHANGED <<req, paid>>
      /\ events' \subseteq events
      /\ call' = [call EXCEPT ![c] = Quiet]
  BY DEF CommitCall
<1>3. LifecycleInv'
  BY <1>1, <1>2, CommitRowKeeps DEF PaymentsInv, Handler
<1>4. \A p \in PaymentIds : pay'[p] \in PaymentRow
  BY CommitRows
<1>5. pay' \in [PaymentIds -> PaymentRow]
  BY <1>4 DEF CommitCall
<1>6. /\ payouts' \in [PaymentIds -> 0..MaxPayouts]
      /\ \A p \in PaymentIds : payouts'[p] > 0 => payouts[p] > 0 \/ pay'[p].ref \in Genuine
  <2>1. payouts \in [PaymentIds -> 0..MaxPayouts]
    BY DEF PaymentsInv, PaymentsShape
  <2>2. payouts' = [p \in PaymentIds |->
          IF call[c].payout /\ p \in call[c].payments /\ payouts[p] < MaxPayouts
          THEN payouts[p] + 1 ELSE payouts[p]]
    BY DEF CommitCall
  <2>3. \A p \in PaymentIds : call[c].payout /\ p \in call[c].payments => pay'[p].ref \in Genuine
    BY <1>1, PaymentsAssumption, CommitRows DEF PayoutOK, Written, Genuine, PaymentsInv, PaymentsShape
  <2>4. payouts' \in [PaymentIds -> 0..MaxPayouts]
    BY <2>1, <2>2, PaymentsAssumption
  <2>5. ASSUME NEW p \in PaymentIds, payouts'[p] > 0
        PROVE  payouts[p] > 0 \/ pay'[p].ref \in Genuine
    BY <2>2, <2>3, <2>5
  <2> QED
    BY <2>4, <2>5
<1>7. PaymentsShape'
  BY <1>2, <1>5, <1>6, QuietIsHandler DEF PaymentsInv, PaymentsShape
<1>8. EventsOK'
  BY <1>2 DEF PaymentsInv, EventsOK
<1>9. RowsOK'
  <2>1. Genuine' = Genuine
    BY <1>2 DEF Genuine
  <2>2. ASSUME NEW p \in PaymentIds
        PROVE  /\ pay'[p].kind = "none" => pay'[p] = NoPayment
               /\ pay'[p].kind \in {"order", "qr"} =>
                    /\ pay'[p].ref # None => pay'[p].ref \in Genuine
                    /\ pay'[p].status \in Collected => pay'[p].ref \in Genuine
               /\ pay'[p].status = "held" => pay'[p].kind = "hold"
    <3>1. pay'[p] \in PaymentRow /\ Written(c, p)
      BY CommitRows
    <3>2. /\ pay[p].kind = "none" => pay[p] = NoPayment
          /\ pay[p].kind \in {"order", "qr"} =>
               /\ pay[p].ref # None => pay[p].ref \in Genuine
               /\ pay[p].status \in Collected => pay[p].ref \in Genuine
          /\ pay[p].status = "held" => pay[p].kind = "hold"
      BY DEF PaymentsInv, RowsOK
    <3>3. call[c].status # "held" /\ (call[c].op = "insert" => call[c].status # "held")
      BY <1>1 DEF Handler
    <3>4. p \in call[c].payments /\ call[c].op = "insert" => pay'[p].status = call[c].status
      BY DEF CommitCall
    <3> QED
      BY <3>1, <3>2, <3>3, <3>4 DEF Written
  <2>3. ASSUME NEW p \in PaymentIds, payouts'[p] > 0
        PROVE  pay'[p].ref \in Genuine
    <3>1. Written(c, p) /\ (payouts[p] > 0 => pay[p].ref \in Genuine)
      BY CommitRows DEF PaymentsInv, RowsOK
    <3>2. None \notin Genuine
      BY PaymentsAssumption DEF Genuine, PaymentsInv, PaymentsShape
    <3> QED
      BY <1>6, <2>3, <3>1, <3>2 DEF Written, NoPayment
  <2> QED
    BY <2>1, <2>2, <2>3 DEF RowsOK
<1>10. CallsOK'
  <2>1. call'[c] = Quiet /\ \A d \in Callbacks \ {c} : call'[d] = call[d]
    BY <1>2 DEF PaymentsInv, PaymentsShape
  <2>2. ASSUME NEW d \in Callbacks, NEW p \in call'[d].payments
        PROVE  /\ pay'[p].kind = pay[p].kind /\ (pay[p] = NoPayment => pay'[p] = NoPayment)
               /\ pay[p].kind \in {"order", "qr"} /\ pay[p].ref \in Genuine
                    => pay'[p].ref \in Genuine'
    <3>1. d # c /\ p \in call[d].payments /\ p \in PaymentIds
      BY <2>1 DEF Quiet, PaymentsInv, PaymentsShape, Handler
    <3>2. call[c].op = "insert" => p \notin call[c].payments
      BY <3>1 DEF PaymentsInv, CallsOK, InsertOK
    <3> QED
      <4>1. Written(c, p)
        BY <3>1, CommitRows
      <4>2. Genuine' = Genuine
        BY <1>2 DEF Genuine
      <4> QED
        BY <3>1, <3>2, <4>1, <4>2 DEF Written, NoPayment
  <2> QED
    BY <1>2, <2>1, <2>2, CallsGoOn
<1> QED
  BY <1>3, <1>7, <1>8, <1>9, <1>10 DEF PaymentsInv

LEMMA CallFailsKeeps ==
  ASSUME PaymentsInv, NEW c \in Callbacks, CallFails(c)
  PROVE  PaymentsInv'
<1>1. call' = [call EXCEPT ![c] = Quiet] /\ UNCHANGED <<jobVars, pay, paid, events, payouts>>
  BY DEF CallFails
<1>2. \A d \in Callbacks : call'[d] = call[d] \/ call'[d] = Quiet
  BY <1>1 DEF PaymentsInv, PaymentsShape
<1>3. CallsOK'
  BY <1>1, <1>2, CallsGoOn DEF Genuine
<1>4. PaymentsShape'
  BY <1>1, QuietIsHandler DEF PaymentsInv, PaymentsShape
<1> QED
  BY <1>1, <1>3, <1>4, JobUntouched DEF PaymentsInv, RowsOK, EventsOK, Genuine

LEMMA DeleteJobKeeps ==
  ASSUME PaymentsInv, NEW r \in Requests, DeleteJob(r)
  PROVE  PaymentsInv'
<1>1. CommitDelete(r) /\ UNCHANGED <<paid, events, payouts, call>>
  BY DEF DeleteJob
<1>2. LifecycleInv'
  BY <1>1, EndKeeps DEF PaymentsInv
<1>3. \A p \in PaymentIds :
        \/ pay'[p] = pay[p]
        \/ /\ pay'[p].kind = pay[p].kind /\ pay'[p].status = "gone" /\ pay'[p].ref = pay[p].ref
           /\ pay'[p] \in PaymentRow /\ pay[p].status # "none"
  BY DEF DeleteJob, Exists, PaymentsInv, PaymentsShape, PaymentRow
<1>4. pay' \in [PaymentIds -> PaymentRow]
  BY <1>3 DEF DeleteJob, PaymentsInv, PaymentsShape
<1>5. PaymentsShape' /\ EventsOK'
  BY <1>1, <1>4 DEF PaymentsInv, PaymentsShape, EventsOK
<1>6. RowsOK'
  BY <1>1, <1>3 DEF PaymentsInv, RowsOK, NoPayment, Collected, Genuine
<1>7. \A c \in Callbacks : call[c].payments \subseteq PaymentIds
  BY DEF PaymentsInv, PaymentsShape, Handler
<1>8. CallsOK'
  BY <1>1, <1>3, <1>7, CallsGoOn DEF NoPayment, Genuine
<1> QED
  BY <1>2, <1>5, <1>6, <1>8 DEF PaymentsInv

\* Steps of the job alone.
LEMMA JobStepKeeps ==
  ASSUME PaymentsInv, UNCHANGED payVars,
         \/ \E r \in Requests : PartyStep(r)
         \/ \E p \in Providers : AcceptOffer(p)
         \/ UNCHANGED jobVars
  PROVE  PaymentsInv'
<1>1. LifecycleInv'
  BY PartyKeeps, AcceptKeeps, JobUntouched DEF PaymentsInv
<1>2. CallsOK'
  BY CallsGoOn DEF payVars, Genuine
<1> QED
  BY <1>1, <1>2 DEF payVars, PaymentsInv, PaymentsShape, RowsOK, EventsOK, Genuine

LEMMA CallKeeps ==
  ASSUME PaymentsInv, NEW c \in Callbacks, CallStep(c)
  PROVE  PaymentsInv'
<1>1. ASSUME NEW p \in PaymentIds, CashPayment(c, p)
      PROVE  PaymentsInv'
  BY <1>1, CashKeeps
<1>2. ASSUME NEW p \in PaymentIds, NEW o \in Orders, VerifyPayment(c, p, o)
      PROVE  PaymentsInv'
  BY <1>2, PaymentsAssumption, CaptureKeeps DEF VerifyPayment, Genuine
<1>3. ASSUME NEW p \in PaymentIds, WebhookCaptured(c, p)
      PROVE  PaymentsInv'
  <2> DEFINE e == [type |-> "payment.captured", payment |-> p]
  <2>1. e \in events /\ Exists(p) /\ Capture(c, p, p, e)
    BY <1>3 DEF WebhookCaptured, ToCapture
  <2>2. e \in Event /\ e.payment = p /\ p \in Genuine
    BY <2>1 DEF Event, PaymentsInv, EventsOK, Genuine
  <2> QED
    BY <2>1, <2>2, CaptureKeeps
<1>4. ASSUME NEW p \in PaymentIds,
             WebhookFailed(c, p) \/ ReleasePayment(c, p) \/ RefundPayment(c, p)
      PROVE  PaymentsInv'
  BY <1>4, WebhookFailedKeeps, ReleaseKeeps, RefundKeeps
<1>5. CASE RefundDispute(c)
  BY <1>5, RefundKeeps
<1>6. CASE CommitCall(c) \/ CallFails(c)
  BY <1>6, CommitCallKeeps, CallFailsKeeps
<1> QED
  BY <1>1, <1>2, <1>3, <1>4, <1>5, <1>6 DEF CallStep

LEMMA PaymentsStepKeeps ==
  ASSUME PaymentsInv, [PaymentsNext]_vars
  PROVE  PaymentsInv'
<1>1. ASSUME NEW r \in Requests, DeleteJob(r)
      PROVE  PaymentsInv'
  BY <1>1, DeleteJobKeeps
<1>2. ASSUME NEW c \in Callbacks, CallStep(c)
      PROVE  PaymentsInv'
  BY <1>2, CallKeeps
<1>3. CASE UNCHANGED vars
  BY <1>3, JobStepKeeps DEF vars
<1> QED
  BY <1>1, <1>2, <1>3, InsertKeeps, GatewayKeeps, JobStepKeeps DEF PaymentsNext

LEMMA PaymentsInitHolds ==
  ASSUME PaymentsInit
  PROVE  PaymentsInv
<1>1. LifecycleInv
  BY InitHolds DEF PaymentsInit
<1>2. PaymentsShape
  BY QuietIsHandler, PaymentsAssumption DEF PaymentsInit, PaymentsShape, PaymentRow, NoPayment
<1>3. RowsOK /\ EventsOK
  BY DEF PaymentsInit, RowsOK, EventsOK, NoPayment
<1>4. \A c \in Callbacks : call[c] = Quiet
  BY DEF PaymentsInit
<1>5. CallsOK
  BY <1>4, PaymentsAssumption DEF CallsOK, UpdateOK, InsertOK, PayoutOK, EventOK, Quiet
<1> QED
  BY <1>1, <1>2, <1>3, <1>5 DEF PaymentsInv

------------------------------------------------------------------------------
(* The theorems.                                                           *)

\* The inductive invariant: what is about to be recorded in flight is as well
\* founded as what is on record.
THEOREM PaymentsInvariance == PaymentsSpec => []PaymentsInv
<1>1. PaymentsInit => PaymentsInv
  BY PaymentsInitHolds
<1>2. PaymentsInv /\ [PaymentsNext]_vars => PaymentsInv'
  BY PaymentsStepKeeps
<1> QED
  BY <1>1, <1>2, PTL DEF PaymentsSpec

\* The tables of a job and its payments are well formed.
THEOREM PaymentsTypeCorrect == PaymentsSpec => []PaymentsTypeOK
<1>1. PaymentsInv => PaymentsTypeOK
  BY CompletionFits
     DEF PaymentsInv, LifecycleInv, JobTypeOK, PaymentsShape, PaymentsTypeOK, Handler
<1> QED
  BY <1>1, PaymentsInvariance, PTL

\* Every order and QR code on record as collected, and every payout, rests on a
\* payment of the gateway's that the row names and whose money the gateway has,
\* however verify calls, webhooks, releases and refunds overlap.
THEOREM MoneyIsReal == PaymentsSpec => []MoneyRecordedWasPaid
<1>1. PaymentsInv => MoneyRecordedWasPaid
  BY DEF PaymentsInv, RowsOK, Collected, Genuine, MoneyRecordedWasPaid
<1> QED
  BY <1>1, PaymentsInvariance, PTL

\* The gateway gets a 2xx for a capture from the transaction that records it, or
\* when it finds it recorded: EventOK ties the answer to the record.
THEOREM NoCaptureForgotten == PaymentsSpec => AckedMeansRecorded
<1> DEFINE A == \A p \in PaymentIds :
                  LET e == [type |-> "payment.captured", payment |-> p] IN
                  e \in events /\ e \notin events' => pay'[p].status \notin {"pending", "failed"}
<1>1. PaymentsInv /\ [PaymentsNext]_vars => [A]_vars
  <2> SUFFICES ASSUME PaymentsInv, PaymentsNext, NEW p \in PaymentIds, NEW e \in events,
                      e = [type |-> "payment.captured", payment |-> p], e \notin events'
               PROVE  pay'[p].status \notin {"pending", "failed"}
    OBVIOUS
  <2>1. CASE WebhookIgnored(e)
    BY <2>1 DEF WebhookIgnored, ToCapture, Exists
  <2>2. ASSUME NEW c \in Callbacks, CommitCall(c)
        PROVE  pay'[p].status \notin {"pending", "failed"}
    <3>1. e \in Event /\ call[c].event = e
      BY <2>2 DEF CommitCall, PaymentsInv, PaymentsShape
    <3>2. call[c].payments = {p} /\ call[c].status = "captured"
      BY <3>1 DEF PaymentsInv, CallsOK, EventOK
    <3> QED
      <4>1. Written(c, p)
        BY <2>2, CommitRows
      <4>2. call[c].op = "update"
        BY <3>1 DEF PaymentsInv, CallsOK, EventOK
      <4> QED
        BY <3>2, <4>1, <4>2 DEF Written
  <2>3. \/ WebhookIgnored(e)
        \/ \E c \in Callbacks : CommitCall(c)
    BY DEF PaymentsNext, payVars, DeleteJob, CreateOrder, CreateQr, HoldPayment, Insert,
           GatewayCaptures, GatewayAttemptFails, WebhookIgnored, CallStep, CashPayment,
           VerifyPayment, WebhookCaptured, WebhookFailed, ReleasePayment, RefundPayment,
           RefundDispute, CallFails, Capture, Begin
  <2> QED
    BY <2>1, <2>2, <2>3
<1> QED
  BY <1>1, PaymentsInvariance, PTL DEF PaymentsSpec, AckedMeansRecorded

------------------------------------------------------------------------------
(* Handlers one at a time.                                                 *)

\* A failed attempt is only recorded over a payment that is still pending, or was
\* deleted meanwhile.
FailsPending ==
  \A c \in Callbacks :
    call[c].op = "update" /\ call[c].status \notin Collected =>
      \A p \in call[c].payments : pay[p].status \in {"pending", "gone"}

SerialInv == PaymentsInv /\ FailsPending

LEMMA SerialStepKeeps ==
  ASSUME \A c, d \in Callbacks : c = d, SerialInv, [PaymentsNext]_vars
  PROVE  SerialInv'
<1>1. PaymentsInv'
  BY PaymentsStepKeeps DEF SerialInv
<1> SUFFICES ASSUME NEW c \in Callbacks, call'[c].op = "update", call'[c].status \notin Collected,
                    NEW p \in call'[c].payments
             PROVE  pay'[p].status \in {"pending", "gone"}
  BY <1>1 DEF SerialInv, FailsPending
<1> USE DEF SerialInv
<1>2. call \in [Callbacks -> Handler] /\ p \in PaymentIds /\ Quiet.op = "idle"
  BY <1>1 DEF PaymentsInv, PaymentsShape, Handler, Quiet
<1>3. CASE UNCHANGED call /\ (UNCHANGED pay \/ \E r \in Requests : DeleteJob(r))
  <2>1. pay[p].status \in {"pending", "gone"}
    BY <1>3 DEF FailsPending
  <2>2. pay'[p] = pay[p] \/ pay'[p].status = "gone"
    BY <1>2, <1>3 DEF DeleteJob, PaymentsInv, PaymentsShape, PaymentRow
  <2> QED
    BY <2>1, <2>2
<1>4. ASSUME NEW q \in PaymentIds, CreateOrder(q) \/ CreateQr(q) \/ HoldPayment(q)
      PROVE  pay'[p].status \in {"pending", "gone"}
  <2>1. UNCHANGED call /\ Unused(q)
    BY <1>4 DEF CreateOrder, CreateQr, HoldPayment, Insert
  <2>2. p \in call[c].payments /\ p # q
    BY <2>1 DEF Unused
  <2>3. pay'[p] = pay[p]
    BY <1>2, <1>4, <2>2 DEF CreateOrder, CreateQr, HoldPayment, Insert, PaymentsInv, PaymentsShape
  <2> QED
    BY <2>1, <2>2, <2>3 DEF FailsPending
<1>5. CASE CommitCall(c) \/ CallFails(c)
  BY <1>2, <1>5 DEF CommitCall, CallFails
<1>6. ASSUME NEW q \in PaymentIds, WebhookFailed(c, q)
      PROVE  pay'[p].status \in {"pending", "gone"}
  <2>1. p = q
    BY <1>2, <1>6 DEF WebhookFailed, Begin, Quiet
  <2> QED
    BY <1>6, <2>1 DEF WebhookFailed, Begin
<1>7. ASSUME NEW h, Begin(c, h), h.op = "insert" \/ h.status \in Collected
      PROVE  FALSE
  BY <1>2, <1>7 DEF Begin
<1>8. ASSUME NEW q \in PaymentIds,
             \/ CashPayment(c, q) \/ WebhookCaptured(c, q)
             \/ \E o \in Orders : VerifyPayment(c, q, o)
             \/ ReleasePayment(c, q) \/ RefundPayment(c, q)
      PROVE  FALSE
  BY <1>7, <1>8 DEF CashPayment, VerifyPayment, WebhookCaptured, Capture, ReleasePayment,
                    RefundPayment, Quiet, Collected
<1>9. CASE RefundDispute(c)
  BY <1>7, <1>9 DEF RefundDispute, Quiet, Collected
<1>10. CASE CallStep(c)
  BY <1>5, <1>6, <1>8, <1>9, <1>10 DEF CallStep
<1> QED
  BY <1>3, <1>4, <1>10 DEF PaymentsNext, vars, payVars, DeleteJob, GatewayCaptures,
                           GatewayAttemptFails, WebhookIgnored

\* Where no two handlers of payments overlap, a capture is never undone by a late
\* webhook: whatever is recorded after it was read while the payment said captured.
THEOREM SerialCaptureSticks ==
  ASSUME \A c, d \in Callbacks : c = d
  PROVE  PaymentsSpec => CaptureSticks
<1> DEFINE A == \A p \in PaymentIds :
                  pay[p].status = "captured" =>
                    pay'[p].status \in {"captured", "refunded", "released", "gone"}
<1>1. PaymentsInit => SerialInv
  BY PaymentsInitHolds DEF SerialInv, FailsPending, PaymentsInit, Quiet
<1>2. SerialInv /\ [PaymentsNext]_vars => SerialInv'
  BY SerialStepKeeps
<1>3. SerialInv /\ [PaymentsNext]_vars => [A]_vars
  <2> SUFFICES ASSUME SerialInv, PaymentsNext, NEW p \in PaymentIds, pay[p].status = "captured"
               PROVE  pay'[p].status \in {"captured", "refunded", "released", "gone"}
    OBVIOUS
  <2>1. ASSUME NEW c \in Callbacks, CommitCall(c)
        PROVE  pay'[p].status \in {"captured", "refunded", "released", "gone"}
    <3>1. PaymentsInv /\ Written(c, p)
      BY <2>1, CommitRows DEF SerialInv
    <3>2. call[c].op = "update" /\ p \in call[c].payments => call[c].status \in Collected
      BY DEF SerialInv, FailsPending
    <3> QED
      BY <3>1, <3>2 DEF Written, NoPayment, Collected
  <2>2. ASSUME NEW r \in Requests, DeleteJob(r)
        PROVE  pay'[p].status \in {"captured", "gone"}
    BY <2>2 DEF DeleteJob, Exists, SerialInv, PaymentsInv, PaymentsShape, PaymentRow
  <2>3. ASSUME NEW q \in PaymentIds, CreateOrder(q) \/ CreateQr(q) \/ HoldPayment(q)
        PROVE  pay'[p] = pay[p]
    BY <2>3 DEF CreateOrder, CreateQr, HoldPayment, Insert, Unused, NoPayment,
                SerialInv, PaymentsInv, PaymentsShape
  <2>4. \/ UNCHANGED pay
        \/ \E c \in Callbacks : CommitCall(c)
        \/ \E r \in Requests : DeleteJob(r)
        \/ \E q \in PaymentIds : CreateOrder(q) \/ CreateQr(q) \/ HoldPayment(q)
    BY DEF PaymentsNext, payVars, GatewayCaptures, GatewayAttemptFails, WebhookIgnored,
           CallStep, CashPayment, VerifyPayment, WebhookCaptured, WebhookFailed,
           ReleasePayment, RefundPayment, RefundDispute, CallFails, Capture, Begin
  <2> QED
    BY <2>1, <2>2, <2>3, <2>4
<1> QED
  BY <1>1, <1>2, <1>3, PTL DEF PaymentsSpec, CaptureSticks

------------------------------------------------------------------------------
(* The job goes its own way under its payments.                            *)

\* The payments of a job that is gone are gone with it, so that no handler reads a
\* payment and completes a job that is not there.
GoneWithJob ==
  row.status = "absent" => \A p \in PaymentIds : pay[p].status \in {"none", "gone"}

\* The parts of JobLifecycle that speak of no request are the same on both sides.
LEMMA JobSideParts ==
  /\ JobSide!NoChange = NoChange /\ JobSide!Idle = Idle
  /\ JobSide!Created = Created /\ JobSide!Deleted = Deleted
  /\ JobSide!JobStatus = JobStatus /\ JobSide!Users = Users
  /\ JobSide!Providers = Providers
  /\ \A u : JobSide!Who(u) = Who(u) /\ (JobSide!MayAct(u) <=> MayAct(u))
  /\ \A s : JobSide!Successors(s) = Successors(s)
  /\ \A a, b : /\ JobSide!OrmChanges(a, b) = OrmChanges(a, b)
               /\ JobSide!OrmFlush(a, b) = OrmFlush(a, b)
  /\ \A p : JobSide!ProviderType(p) = ProviderType(p)
  /\ \A a, p : JobSide!Assign(a, p) = Assign(a, p)
  /\ \A a : JobSide!Cancel(a) = Cancel(a)
<1>1. /\ JobSide!NoChange = NoChange /\ JobSide!Idle = Idle
      /\ JobSide!Created = Created /\ JobSide!Deleted = Deleted
  BY DEF JobSide!NoChange, NoChange, JobSide!Idle, Idle, JobSide!Created, Created,
         JobSide!Deleted, Deleted
<1>2. /\ JobSide!JobStatus = JobStatus /\ JobSide!Users = Users
      /\ JobSide!Providers = Providers
  BY DEF JobSide!JobStatus, JobStatus, JobSide!Users, Users, JobSide!Providers, Providers
<1>3. \A u : JobSide!Who(u) = Who(u) /\ (JobSide!MayAct(u) <=> MayAct(u))
  BY DEF JobSide!Who, Who, JobSide!MayAct, MayAct
<1>4. \A s : JobSide!Successors(s) = Successors(s)
  BY DEF JobSide!Successors, Successors, JobSide!VALID_TRANSITIONS, VALID_TRANSITIONS
<1>5. \A a, b : /\ JobSide!OrmChanges(a, b) = OrmChanges(a, b)
                /\ JobSide!OrmFlush(a, b) = OrmFlush(a, b)
  BY DEF JobSide!OrmChanges, OrmChanges, JobSide!OrmFlush, OrmFlush
<1>6. \A p : JobSide!ProviderType(p) = ProviderType(p)
  BY DEF JobSide!ProviderType, ProviderType
<1>7. \A a, p : JobSide!Assign(a, p) = Assign(a, p)
  BY DEF JobSide!Assign, Assign, JobSide!ProviderType, ProviderType
<1>8. \A a : JobSide!Cancel(a) = Cancel(a)
  BY DEF JobSide!Cancel, Cancel
<1> QED
  BY <1>1, <1>2, <1>3, <1>4, <1>5, <1>6, <1>7, <1>8

\* A party's request is the same one on both sides, and payments do not touch it.
LEMMA RequestMaps ==
  ASSUME req = [r \in Requests |-> req[r]], UNCHANGED call, NEW r \in Requests, NEW q,
         req' = [req EXCEPT ![r] = q]
  PROVE  AllRequests[r] = req[r] /\ AllRequests' = [AllRequests EXCEPT ![r] = q]
<1>1. AllRequests[r] = req[r]
  BY DEF AllRequests
<1>2. req' = [x \in Requests |-> IF x = r THEN q ELSE req[x]]
  OBVIOUS
<1>3. AllRequests' = [x \in Requests \cup Callbacks |->
                       IF x \in Requests THEN req'[x] ELSE RequestOf(call[x])]
  BY DEF AllRequests, RequestOf
<1>4. [AllRequests EXCEPT ![r] = q] =
        [x \in Requests \cup Callbacks |-> IF x = r THEN q ELSE AllRequests[x]]
  BY DEF AllRequests
<1>5. \A x \in Requests \cup Callbacks :
        (IF x \in Requests THEN req'[x] ELSE RequestOf(call[x]))
          = IF x = r THEN q ELSE AllRequests[x]
  BY <1>2 DEF AllRequests
<1> QED
  BY <1>1, <1>3, <1>4, <1>5

LEMMA LoadMaps ==
  ASSUME req = [r \in Requests |-> req[r]], UNCHANGED call, NEW r \in Requests, NEW u,
         NEW edited, Load(r, u, edited)
  PROVE  JobSide!Load(r, u, edited)
<1>1. AllRequests[r] = Idle
  BY DEF Load, AllRequests
<1>2. AllRequests' = [AllRequests EXCEPT ![r] =
                       [op |-> "update", by |-> Who(u), changes |-> OrmChanges(row, edited)]]
  BY RequestMaps DEF Load
<1> QED
  BY <1>1, <1>2, JobSideParts DEF Load, JobSide!Load

LEMMA PartyMaps ==
  ASSUME req = [r \in Requests |-> req[r]], UNCHANGED call, NEW r \in Requests, PartyStep(r)
  PROVE  JobSide!PartyStep(r)
<1> USE JobSideParts
<1>1. ASSUME NEW u \in Users, NEW s \in JobStatus, NEW m \in Mechanics \cup {None},
             PatchStatus(r, u, s, m)
      PROVE  JobSide!PatchStatus(r, u, s, m)
  BY <1>1, LoadMaps DEF PatchStatus, JobSide!PatchStatus
<1>2. ASSUME NEW u \in Users, FinalizePrice(r, u)
      PROVE  JobSide!FinalizePrice(r, u)
  BY <1>2, LoadMaps DEF FinalizePrice, JobSide!FinalizePrice
<1>3. ASSUME NEW u \in Users, CompleteRequest(r, u)
      PROVE  JobSide!CompleteRequest(r, u)
  BY <1>3, LoadMaps DEF CompleteRequest, JobSide!CompleteRequest
<1>4. ASSUME NEW u \in Users, CancelRequest(r, u)
      PROVE  JobSide!CancelRequest(r, u)
  BY <1>4, LoadMaps DEF CancelRequest, JobSide!CancelRequest
<1>5. ASSUME NEW u \in Users, DeleteRequest(r, u)
      PROVE  JobSide!DeleteRequest(r, u)
  <2>1. /\ AllRequests[r] = req[r]
        /\ AllRequests' = [AllRequests EXCEPT ![r] =
                            [op |-> "delete", by |-> Who(u), changes |-> NoChange]]
    BY <1>5, RequestMaps DEF DeleteRequest
  <2> QED
    BY <1>5, <2>1 DEF DeleteRequest, JobSide!DeleteRequest
<1>6. ASSUME NEW p \in Providers, AssignJob(r, p)
      PROVE  JobSide!AssignJob(r, p)
  BY <1>6, LoadMaps DEF AssignJob, JobSide!AssignJob
<1>7. ASSUME NEW p \in Providers, ForceAssignJob(r, p)
      PROVE  JobSide!ForceAssignJob(r, p)
  BY <1>7, LoadMaps DEF ForceAssignJob, JobSide!ForceAssignJob
<1>8. ASSUME CommitUpdate(r)
      PROVE  JobSide!CommitUpdate(r)
  <2>1. AllRequests[r] = req[r] /\ AllRequests' = [AllRequests EXCEPT ![r] = Idle]
    BY <1>8, RequestMaps DEF CommitUpdate
  <2> QED
    BY <1>8, <2>1 DEF CommitUpdate, JobSide!CommitUpdate
<1>9. ASSUME RequestFails(r)
      PROVE  JobSide!RequestFails(r)
  <2>1. AllRequests[r] = req[r] /\ AllRequests' = [AllRequests EXCEPT ![r] = Idle]
    BY <1>9, RequestMaps DEF RequestFails
  <2> QED
    BY <1>9, <2>1 DEF RequestFails, JobSide!RequestFails
<1> QED
  BY <1>1, <1>2, <1>3, <1>4, <1>5, <1>6, <1>7, <1>8, <1>9 DEF PartyStep, JobSide!PartyStep

LEMMA DeletionMaps ==
  ASSUME req = [r \in Requests |-> req[r]], NEW r \in Requests, DeleteJob(r)
  PROVE  JobSide!CommitDelete(r)
<1>1. CommitDelete(r) /\ UNCHANGED call
  BY DEF DeleteJob
<1>2. AllRequests[r] = req[r] /\ AllRequests' = [AllRequests EXCEPT ![r] = Idle]
  BY <1>1, RequestMaps DEF CommitDelete
<1> QED
  BY <1>1, <1>2, JobSideParts DEF CommitDelete, JobSide!CommitDelete

\* A payment handler that starts is a request to complete the job, or none.
LEMMA BeginMaps ==
  ASSUME PaymentsInv, NEW c \in Callbacks, NEW h, Begin(c, h),
         h.job = NoChange \/ (h.job = JobCompleted /\ row.status # "absent")
  PROVE  JobSide!PaymentCompletesJob(c) \/ UNCHANGED <<row, AllRequests>>
<1>1. /\ call[c] = Quiet /\ call' = [call EXCEPT ![c] = h]
      /\ row' = row /\ req' = req
      /\ call \in [Callbacks -> Handler]
  BY DEF Begin, jobVars, PaymentsInv, PaymentsShape
<1>2. c \notin Requests
  BY PaymentsAssumption
<1>3. /\ AllRequests = [x \in Requests \cup Callbacks |-> AllRequests[x]]
      /\ AllRequests' = [x \in Requests \cup Callbacks |-> AllRequests'[x]]
  BY DEF AllRequests
<1>4. /\ AllRequests[c] = Idle
      /\ AllRequests'[c] = RequestOf(h)
  BY <1>1, <1>2 DEF AllRequests, RequestOf, Quiet
<1>5. \A x \in (Requests \cup Callbacks) \ {c} : AllRequests'[x] = AllRequests[x]
  BY <1>1 DEF AllRequests, RequestOf
<1>6. CASE h.job = NoChange
  <2>1. AllRequests'[c] = AllRequests[c]
    BY <1>4, <1>6 DEF RequestOf
  <2> QED
    BY <1>1, <1>3, <1>5, <2>1
<1>7. CASE h.job = JobCompleted /\ h.job # NoChange /\ row.status # "absent"
  <2> DEFINE edited == [row EXCEPT !.status = "completed"]
             q == [op |-> "update", by |-> "other", changes |-> OrmChanges(row, edited)]
  <2>1. RequestOf(h) = q
    BY <1>7 DEF RequestOf, JobCompleted
  <2>2. edited # row
    <3> SUFFICES ASSUME edited = row
                 PROVE  JobCompleted = NoChange
      BY <1>7
    <3>1. {x \in DOMAIN row : edited[x] # row[x]} = {}
      OBVIOUS
    <3> QED
      BY <3>1 DEF JobCompleted, OrmChanges, NoChange
  <2>3. JobSide!Who("gateway") = "other"
    BY DEF JobSide!Who
  <2> HIDE DEF edited
  <2>4. AllRequests' = [AllRequests EXCEPT ![c] = q]
    BY <1>3, <1>4, <1>5, <2>1
  <2>5. JobSide!Load(c, "gateway", edited)
    BY <1>1, <1>4, <2>2, <2>3, <2>4, JobSideParts DEF JobSide!Load
  <2> QED
    BY <1>7, <2>5 DEF JobSide!PaymentCompletesJob, edited
<1> QED
  BY <1>6, <1>7

\* A payment handler that ends flushes its change onto the job or fails, as any
\* request does.
LEMMA EndMaps ==
  ASSUME PaymentsInv, NEW c \in Callbacks, CommitCall(c) \/ CallFails(c)
  PROVE  \/ JobSide!CommitUpdate(c) \/ JobSide!RequestFails(c)
         \/ UNCHANGED <<row, AllRequests>>
<1>1. call' = [call EXCEPT ![c] = Quiet] /\ req' = req /\ call \in [Callbacks -> Handler]
  BY DEF CommitCall, CallFails, jobVars, PaymentsInv, PaymentsShape
<1>2. c \notin Requests
  BY PaymentsAssumption
<1>3. /\ AllRequests = [x \in Requests \cup Callbacks |-> AllRequests[x]]
      /\ AllRequests' = [x \in Requests \cup Callbacks |-> AllRequests'[x]]
  BY DEF AllRequests
<1>4. /\ AllRequests[c] = RequestOf(call[c])
      /\ AllRequests'[c] = Idle
  BY <1>1, <1>2 DEF AllRequests, RequestOf, Quiet
<1>5. \A x \in (Requests \cup Callbacks) \ {c} : AllRequests'[x] = AllRequests[x]
  BY <1>1 DEF AllRequests, RequestOf
<1>6. AllRequests' = [AllRequests EXCEPT ![c] = Idle]
  BY <1>3, <1>4, <1>5
<1>7. CASE call[c].job = NoChange
  <2>1. AllRequests' = AllRequests
    BY <1>3, <1>4, <1>5, <1>7 DEF RequestOf
  <2>2. OrmFlush(row, NoChange) = row
    <3>1. row = [x \in Columns |-> row[x]]
      BY RowColumns DEF PaymentsInv, LifecycleInv, JobTypeOK, TypeOK
    <3> QED
      BY <3>1, NoChangeIsEmpty DEF OrmFlush
  <2> QED
    BY <1>7, <2>1, <2>2 DEF CommitCall, CallFails, jobVars
<1>8. CASE call[c].job # NoChange
  <2>1. AllRequests[c] = [op |-> "update", by |-> "other", changes |-> call[c].job]
    BY <1>4, <1>8 DEF RequestOf
  <2>2. CASE CommitCall(c)
    <3>1. row.status # "absent" /\ row' = OrmFlush(row, call[c].job)
      BY <2>2 DEF CommitCall
    <3> QED
      BY <1>6, <2>1, <3>1, JobSideParts DEF JobSide!CommitUpdate
  <2>3. CASE CallFails(c)
    BY <1>6, <2>1, <2>3, JobSideParts DEF CallFails, JobSide!RequestFails, Idle, jobVars
  <2> QED
    BY <2>2, <2>3
<1> QED
  BY <1>7, <1>8

\* A job goes with its payments in one step, and a new payment finds its job.
LEMMA GoneWithJobKeeps ==
  ASSUME PaymentsInv, GoneWithJob, [PaymentsNext]_vars
  PROVE  GoneWithJob'
<1>1. ASSUME NEW r \in Requests, DeleteJob(r)
      PROVE  GoneWithJob'
  BY <1>1 DEF DeleteJob, Exists, GoneWithJob, PaymentsInv, PaymentsShape, PaymentRow
<1>2. ASSUME NEW c \in Callbacks, CommitCall(c)
      PROVE  GoneWithJob'
  <2>1. call[c] \in Handler /\ row \in Row /\ row.status # "absent" /\ row' = OrmFlush(row, call[c].job)
    BY <1>2 DEF CommitCall, PaymentsInv, PaymentsShape, LifecycleInv, JobTypeOK, TypeOK
  <2>2. row'.status # "absent"
    BY <2>1, CompletionFits, FlushGoesOn DEF Handler
  <2> QED
    BY <2>2 DEF GoneWithJob
<1>3. ASSUME NEW p \in PaymentIds, CreateOrder(p) \/ CreateQr(p) \/ HoldPayment(p)
      PROVE  GoneWithJob'
  BY <1>3 DEF CreateOrder, CreateQr, HoldPayment, Insert, GoneWithJob, jobVars
<1>4. ASSUME UNCHANGED pay, row' = row
      PROVE  GoneWithJob'
  BY <1>4 DEF GoneWithJob
<1>5. ASSUME UNCHANGED pay, row'.status # "absent"
      PROVE  GoneWithJob'
  BY <1>5 DEF GoneWithJob
<1>6. ASSUME NEW r \in Requests, PartyStep(r) /\ UNCHANGED payVars
      PROVE  GoneWithJob'
  <2>1. CommitUpdate(r) \/ row' = row
    BY <1>6 DEF PartyStep, PatchStatus, FinalizePrice, CompleteRequest, CancelRequest,
                DeleteRequest, AssignJob, ForceAssignJob, RequestFails, Load
  <2>2. CommitUpdate(r) => row'.status # "absent"
    BY CommitUpdateKeeps DEF PaymentsInv
  <2> QED
    BY <1>4, <1>5, <1>6, <2>1, <2>2 DEF payVars
<1>7. ASSUME NEW p \in Providers, AcceptOffer(p) /\ UNCHANGED payVars
      PROVE  GoneWithJob'
  BY <1>7 DEF AcceptOffer, payVars, GoneWithJob, Assign, PaymentsInv, LifecycleInv, JobTypeOK, TypeOK, Row
<1>8. ASSUME NEW c \in Callbacks, CallStep(c), ~CommitCall(c)
      PROVE  GoneWithJob'
  BY <1>4, <1>8 DEF CallStep, CashPayment, VerifyPayment, WebhookCaptured, WebhookFailed,
       ReleasePayment, RefundPayment, RefundDispute, Capture, Begin, CallFails, jobVars
<1>9. ASSUME \/ \E p \in PaymentIds : GatewayCaptures(p) \/ GatewayAttemptFails(p)
             \/ \E e \in events : WebhookIgnored(e)
             \/ UNCHANGED vars
      PROVE  GoneWithJob'
  BY <1>4, <1>9 DEF GatewayCaptures, GatewayAttemptFails, WebhookIgnored, vars, jobVars, payVars
<1> QED
  BY <1>1, <1>2, <1>3, <1>6, <1>7, <1>8, <1>9 DEF PaymentsNext

\* Every step of payments is a step of the job, or none of its business.
LEMMA StepMaps ==
  ASSUME PaymentsInv, GoneWithJob, [PaymentsNext]_vars
  PROVE  [JobSide!Next]_JobSide!jobVars
<1> DEFINE Seen == UNCHANGED <<row, AllRequests>>
<1>1. req = [r \in Requests |-> req[r]]
  BY DEF PaymentsInv, LifecycleInv, JobTypeOK
<1>2. ASSUME NEW r \in Requests, PartyStep(r) /\ UNCHANGED payVars
      PROVE  JobSide!PartyStep(r)
  BY <1>1, <1>2, PartyMaps DEF payVars
<1>3. ASSUME NEW r \in Requests, DeleteJob(r)
      PROVE  JobSide!CommitDelete(r)
  BY <1>1, <1>3, DeletionMaps
<1>4. ASSUME NEW p \in Providers, AcceptOffer(p) /\ UNCHANGED payVars
      PROVE  JobSide!AcceptOffer(p)
  BY <1>4, JobSideParts DEF AcceptOffer, JobSide!AcceptOffer, payVars, AllRequests, RequestOf
<1>5. ASSUME NEW c \in Callbacks, CallStep(c)
      PROVE  JobSide!PaymentCompletesJob(c) \/ JobSide!CommitUpdate(c) \/ JobSide!RequestFails(c) \/ Seen
  <2>1. \A p \in PaymentIds : Exists(p) => row.status # "absent"
    BY DEF GoneWithJob, Exists
  <2>2. ASSUME NEW p \in PaymentIds, CashPayment(c, p) \/ ReleasePayment(c, p)
        PROVE  JobSide!PaymentCompletesJob(c) \/ Seen
    <3>1. PICK h : Begin(c, h) /\ h.job = JobCompleted /\ row.status # "absent"
      BY <2>2 DEF CashPayment, ReleasePayment, Quiet
    <3> QED
      BY <3>1, BeginMaps
  <2>3. ASSUME NEW p \in PaymentIds,
               WebhookCaptured(c, p) \/ \E o \in Orders : VerifyPayment(c, p, o)
        PROVE  JobSide!PaymentCompletesJob(c) \/ Seen
    <3>1. PICK h : Begin(c, h) /\ h.job = JobCompleted /\ Exists(p)
      BY <2>3 DEF VerifyPayment, WebhookCaptured, ToCapture, Capture
    <3> QED
      BY <2>1, <3>1, BeginMaps
  <2>4. ASSUME RefundDispute(c) \/ \E p \in PaymentIds : WebhookFailed(c, p) \/ RefundPayment(c, p)
        PROVE  JobSide!PaymentCompletesJob(c) \/ Seen
    <3>1. ASSUME NEW set, NEW status, NEW event,
                 Begin(c, [Quiet EXCEPT !.op = "update", !.payments = set, !.status = status,
                                        !.event = event])
          PROVE  JobSide!PaymentCompletesJob(c) \/ Seen
      BY <3>1, BeginMaps DEF Quiet
    <3>2. ASSUME NEW set, NEW status,
                 Begin(c, [Quiet EXCEPT !.op = "update", !.payments = set, !.status = status])
          PROVE  JobSide!PaymentCompletesJob(c) \/ Seen
      BY <3>2, BeginMaps DEF Quiet
    <3> QED
      BY <2>4, <3>1, <3>2 DEF RefundDispute, WebhookFailed, RefundPayment
  <2> QED
    BY <1>5, <2>2, <2>3, <2>4, EndMaps DEF CallStep
<1>6. ASSUME \/ \E p \in PaymentIds : \/ CreateOrder(p) \/ CreateQr(p) \/ HoldPayment(p)
                                     \/ GatewayCaptures(p) \/ GatewayAttemptFails(p)
             \/ \E e \in events : WebhookIgnored(e)
             \/ UNCHANGED vars
      PROVE  Seen
  BY <1>6 DEF CreateOrder, CreateQr, HoldPayment, Insert, GatewayCaptures, GatewayAttemptFails,
              WebhookIgnored, vars, jobVars, payVars, AllRequests, RequestOf
<1>7. ASSUME NEW r \in Requests \cup Callbacks,
             \/ JobSide!PartyStep(r) \/ JobSide!PaymentCompletesJob(r) \/ JobSide!CommitDelete(r)
             \/ JobSide!CommitUpdate(r) \/ JobSide!RequestFails(r)
      PROVE  JobSide!Next
  BY <1>7 DEF JobSide!Next, JobSide!PartyStep
<1>8. ASSUME NEW p \in Providers, JobSide!AcceptOffer(p)
      PROVE  JobSide!Next
  BY <1>8, JobSideParts DEF JobSide!Next
<1>9. ASSUME Seen
      PROVE  UNCHANGED JobSide!jobVars
  BY <1>9 DEF JobSide!jobVars
<1> HIDE DEF Seen
<1> QED
  BY <1>2, <1>3, <1>4, <1>5, <1>6, <1>7, <1>8, <1>9 DEF PaymentsNext

\* Payments, with everything that happens to them, is one more client of the job:
\* the job under its payments goes no way JobLifecycle does not know.
THEOREM PaymentsRefineLifecycle == PaymentsSpec => ImplementsLifecycle
<1>1. PaymentsInit => GoneWithJob /\ JobSide!Init
  <2> SUFFICES ASSUME PaymentsInit
               PROVE  GoneWithJob /\ JobSide!Init
    OBVIOUS
  <2>1. GoneWithJob
    BY DEF PaymentsInit, GoneWithJob, NoPayment
  <2>2. AllRequests = [x \in Requests \cup Callbacks |-> Idle]
    BY DEF PaymentsInit, Init, AllRequests, RequestOf, Quiet
  <2> QED
    BY <2>1, <2>2, JobSideParts DEF PaymentsInit, Init, JobSide!Init
<1>2. PaymentsInv /\ GoneWithJob /\ [PaymentsNext]_vars => GoneWithJob'
  BY GoneWithJobKeeps
<1>3. PaymentsInv /\ GoneWithJob /\ [PaymentsNext]_vars => [JobSide!Next]_JobSide!jobVars
  BY StepMaps
<1> QED
  BY <1>1, <1>2, <1>3, PaymentsInvariance, PTL DEF PaymentsSpec, ImplementsLifecycle, JobSide!Spec

\* Five kinds of step touch the row: those of JobLifecycle, and a completion.
LEMMA RowWriters ==
  ASSUME PaymentsInv, [PaymentsNext]_vars
  PROVE  \/ row' = row
         \/ \E r \in Requests : CommitUpdate(r) \/ CommitDelete(r)
         \/ \E p \in Providers : AcceptOffer(p)
         \/ \E ch \in {NoChange, Completion} : row.status # "absent" /\ row' = OrmFlush(row, ch)
<1>1. ASSUME NEW c \in Callbacks, CommitCall(c)
      PROVE  \E ch \in {NoChange, Completion} : row.status # "absent" /\ row' = OrmFlush(row, ch)
  BY <1>1 DEF CommitCall, PaymentsInv, PaymentsShape, Handler
<1>2. ASSUME NEW c \in Callbacks, CallStep(c), ~CommitCall(c)
      PROVE  row' = row
  BY <1>2 DEF CallStep, CashPayment, VerifyPayment, WebhookCaptured, WebhookFailed,
       ReleasePayment, RefundPayment, RefundDispute, Capture, Begin, CallFails, jobVars
<1>3. ASSUME NEW r \in Requests, PartyStep(r)
      PROVE  CommitUpdate(r) \/ row' = row
  BY <1>3 DEF PartyStep, PatchStatus, FinalizePrice, CompleteRequest, CancelRequest,
              DeleteRequest, AssignJob, ForceAssignJob, RequestFails, Load
<1>4. ASSUME \/ \E p \in PaymentIds : \/ CreateOrder(p) \/ CreateQr(p) \/ HoldPayment(p)
                                     \/ GatewayCaptures(p) \/ GatewayAttemptFails(p)
             \/ \E e \in events : WebhookIgnored(e)
             \/ UNCHANGED vars
      PROVE  row' = row
  BY <1>4 DEF CreateOrder, CreateQr, HoldPayment, Insert, GatewayCaptures, GatewayAttemptFails,
              WebhookIgnored, vars, jobVars
<1> QED
  BY <1>1, <1>2, <1>3, <1>4 DEF PaymentsNext, DeleteJob

\* Completing a job changes neither its provider nor its bill.
LEMMA CompletionLeaves ==
  ASSUME NEW rw \in Row, rw.status # "absent", NEW ch \in {NoChange, Completion}
  PROVE  /\ rw.status # "searching" => OrmFlush(rw, ch).status # "searching"
         /\ Assignee(rw) # None => Assignee(OrmFlush(rw, ch)) # None
         /\ OrmFlush(rw, ch).service_amount = rw.service_amount
<1>1. rw.status # "searching" => OrmFlush(rw, ch).status # "searching"
  BY CompletionFits, FlushGoesOn
<1>2. HandsOver(ch) /\ "service_amount" \notin DOMAIN ch
  BY NoChangeIsEmpty DEF HandsOver, Completion
<1>3. Assignee(rw) # None => Assignee(OrmFlush(rw, ch)) # None
  BY <1>2, HandOverKeepsAssignee
<1>4. OrmFlush(rw, ch)["service_amount"] = rw["service_amount"]
  BY <1>2, FlushColumns DEF Columns
<1> QED
  BY <1>1, <1>3, <1>4

\* What the lifecycle promises of a job it promises with its payments in the system:
\* no capture, release or cash puts it back on offer, takes its provider away or
\* leaves it a bill without a payee.
THEOREM LifecycleUnderPayments == PaymentsSpec => NeverReopened /\ AssigneeNotLost /\ BillHasPayee
<1> DEFINE Admin == \E r \in Requests : req[r].by = "admin" /\ req'[r] = Idle
           A == row.status # "searching" => row'.status # "searching"
           B == Assignee(row) # None /\ Assignee(row') = None /\ row'.status # "absent" => Admin
           C == row'.service_amount /\ row'.provider_upi_id = None => row.service_amount \/ Admin
<1>1. PaymentsInv /\ [PaymentsNext]_vars => [A]_jobVars /\ [B]_jobVars /\ [C]_jobVars
  <2> SUFFICES ASSUME PaymentsInv, [PaymentsNext]_vars, row' # row
               PROVE  A /\ B /\ C
    <3>1. CASE row' # row
      BY <3>1
    <3>2. CASE row' = row
      BY <3>2
    <3> QED
      BY <3>1, <3>2
  <2>1. row \in Row /\ LifecycleInv
    BY DEF PaymentsInv, LifecycleInv, JobTypeOK, TypeOK
  <2>2. ASSUME NEW r \in Requests, CommitUpdate(r), req[r].by # "admin"
        PROVE  A /\ B /\ C
    <3>1. A
      BY <2>1, <2>2, CommitUpdateKeeps
    <3>2. B
      BY <2>1, <2>2, HandOverKeepsAssignee DEF CommitUpdate, LifecycleInv, ChangesOK
    <3>3. C
      BY <2>1, <2>2, BillBringsPayee
    <3> QED
      BY <3>1, <3>2, <3>3
  <2>3. ASSUME NEW r \in Requests, CommitUpdate(r), req[r].by = "admin"
        PROVE  A /\ B /\ C
    <3>1. A
      BY <2>1, <2>3, CommitUpdateKeeps
    <3>2. Admin
      BY <2>1, <2>3 DEF CommitUpdate, LifecycleInv, JobTypeOK
    <3> QED
      BY <3>1, <3>2
  <2>4. ASSUME NEW r \in Requests, CommitDelete(r)
        PROVE  A /\ B /\ C
    BY <2>4 DEF CommitDelete, Deleted, Created
  <2>5. ASSUME NEW p \in Providers, AcceptOffer(p)
        PROVE  A /\ B /\ C
    <3>1. row'.service_amount = row.service_amount
      BY <2>1, <2>5 DEF AcceptOffer, Assign, Row
    <3> QED
      BY <2>1, <2>5, <3>1, AssignNames DEF AcceptOffer
  <2>6. ASSUME NEW ch \in {NoChange, Completion}, row.status # "absent", row' = OrmFlush(row, ch)
        PROVE  A /\ B /\ C
    BY <2>1, <2>6, CompletionLeaves
  <2> HIDE DEF A, B, C
  <2> QED
    BY <2>2, <2>3, <2>4, <2>5, <2>6, RowWriters
<1> QED
  BY <1>1, PaymentsInvariance, PTL DEF PaymentsSpec, NeverReopened, AssigneeNotLost, BillHasPayee

=============================================================================
