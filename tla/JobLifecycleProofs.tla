------------------------- MODULE JobLifecycleProofs -------------------------
(***************************************************************************)
(* TypeOK, NeverReopened, AssigneeNotLost and BillHasPayee, proved for any *)
(* providers and any number of requests in flight.                         *)
(***************************************************************************)
EXTENDS JobLifecycle, TLAPS

Columns == {"status", "assigned_type", "assigned_mechanic_id", "assigned_garage_id",
            "service_amount", "provider_upi_id"}

\* What every UPDATE in flight leaves out: it never puts a job back on offer, never
\* makes a row of one that is gone, and never takes a payee away.
Forward(ch) ==
  /\ "status" \in DOMAIN ch => ch["status"] \in JobStatus \ {"searching"}
  /\ "provider_upi_id" \in DOMAIN ch => ch["provider_upi_id"] # None

\* One that is not an admin's writes to the assignee at most a mechanic, and all of
\* it: never a NULL, and never the type alone.
HandsOver(ch) ==
  /\ "assigned_garage_id" \notin DOMAIN ch
  /\ "assigned_mechanic_id" \in DOMAIN ch => ch["assigned_mechanic_id"] \in Mechanics
  /\ "assigned_type" \in DOMAIN ch =>
       "assigned_mechanic_id" \in DOMAIN ch /\ ch["assigned_type"] = "mechanic"

\* One that is not an admin's and writes a bill brings the payee with it, unless
\* the row has one already.
BringsPayee(ch) ==
  "service_amount" \in DOMAIN ch =>
    \/ "provider_upi_id" \in DOMAIN ch
    \/ row.provider_upi_id # None
    \/ row.status = "absent"

JobTypeOK == TypeOK /\ req = [r \in Requests |-> req[r]]

ChangesOK ==
  \A r \in Requests :
    /\ Forward(req[r].changes)
    /\ req[r].by # "admin" => HandsOver(req[r].changes) /\ BringsPayee(req[r].changes)

LifecycleInv == JobTypeOK /\ ChangesOK

------------------------------------------------------------------------------
(* The unit of work on rows of jobs.                                       *)

\* A row is a function on its columns, of their types.
LEMMA RowColumns ==
  ASSUME NEW rw
  PROVE  rw \in Row <=>
           /\ rw = [x \in Columns |-> rw[x]]
           /\ rw.status \in JobStatus \cup {"absent"}
           /\ rw.assigned_type \in {"mechanic", "garage", None}
           /\ rw.assigned_mechanic_id \in Mechanics \cup {None}
           /\ rw.assigned_garage_id \in Garages \cup {None}
           /\ rw.service_amount \in BOOLEAN
           /\ rw.provider_upi_id \in Providers \cup {None}
BY DEF Row, Columns

LEMMA CreatedIsRow == Created \in Row /\ Deleted \in Row
BY DEF Created, Deleted, Row, JobStatus

\* Changes that fit one row fit every row.
LEMMA FlushFits ==
  ASSUME NEW rw \in Row, NEW ch, OrmFlush(Created, ch) \in Row
  PROVE  OrmFlush(rw, ch) \in Row
<1> DEFINE f == OrmFlush(rw, ch)
           g == OrmFlush(Created, ch)
<1>1. DOMAIN rw = Columns /\ DOMAIN Created = Columns
  BY RowColumns, CreatedIsRow
<1>2. f = [x \in Columns |-> IF x \in DOMAIN ch THEN ch[x] ELSE rw[x]]
      /\ g = [x \in Columns |-> IF x \in DOMAIN ch THEN ch[x] ELSE Created[x]]
  BY <1>1 DEF OrmFlush
<1>3. \A x \in Columns : f[x] = g[x] \/ f[x] = rw[x]
  BY <1>2
<1>4. f = [x \in Columns |-> f[x]]
  BY <1>2
<1>5. g \in Row
  OBVIOUS
<1> HIDE DEF f, g
<1>6. f \in Row
  BY <1>3, <1>4, <1>5, RowColumns DEF Columns
<1> QED
  BY <1>6 DEF f

\* What a handler wants of the row it has loaded fits, and is no more than what
\* differs.
LEMMA ChangesFit ==
  ASSUME NEW rw \in Row, NEW edited \in Row
  PROVE  LET ch == OrmChanges(rw, edited)
         IN  /\ OrmFlush(Created, ch) \in Row
             /\ DOMAIN ch = {x \in Columns : edited[x] # rw[x]}
             /\ \A x \in DOMAIN ch : ch[x] = edited[x]
<1> DEFINE ch == OrmChanges(rw, edited)
           g == OrmFlush(Created, ch)
<1>1. DOMAIN rw = Columns /\ DOMAIN Created = Columns
  BY RowColumns, CreatedIsRow
<1>2. DOMAIN ch = {x \in Columns : edited[x] # rw[x]} /\ \A x \in DOMAIN ch : ch[x] = edited[x]
  BY <1>1 DEF OrmChanges
<1>3. g = [x \in Columns |-> IF x \in DOMAIN ch THEN ch[x] ELSE Created[x]]
  BY <1>1 DEF OrmFlush
<1> HIDE DEF ch
<1>4. \A x \in Columns : g[x] = edited[x] \/ g[x] = Created[x]
  BY <1>2, <1>3
<1>5. g = [x \in Columns |-> g[x]]
  BY <1>3
<1> HIDE DEF g
<1>6. g \in Row
  BY <1>4, <1>5, RowColumns, CreatedIsRow DEF Columns
<1> QED
  BY <1>2, <1>6 DEF ch, g

\* A request in flight that writes nothing.
LEMMA NoChangeIsEmpty == OrmFlush(Created, NoChange) \in Row /\ DOMAIN NoChange = {}
<1>1. DOMAIN NoChange = {}
  BY DEF NoChange
<1>2. OrmFlush(Created, NoChange) = [x \in DOMAIN Created |-> Created[x]]
  BY <1>1 DEF OrmFlush
<1>3. Created = [x \in DOMAIN Created |-> Created[x]]
  BY DEF Created
<1> QED
  BY <1>1, <1>2, <1>3, CreatedIsRow

------------------------------------------------------------------------------
(* The first steps of the handlers.                                        *)

\* A handler may be put in flight with changes that fit.
LEMMA LoadKeeps ==
  ASSUME LifecycleInv, NEW r \in Requests, NEW u, NEW edited \in Row, Load(r, u, edited),
         Forward(OrmChanges(row, edited)),
         Who(u) # "admin" => /\ HandsOver(OrmChanges(row, edited))
                             /\ BringsPayee(OrmChanges(row, edited))
  PROVE  LifecycleInv'
<1> DEFINE ch == OrmChanges(row, edited)
<1>1. OrmFlush(Created, ch) \in Row
  BY ChangesFit DEF LifecycleInv, JobTypeOK, TypeOK
<1>2. Forward(ch) /\ (Who(u) # "admin" => HandsOver(ch) /\ BringsPayee(ch))
  OBVIOUS
<1>3. /\ req' = [req EXCEPT ![r] = [op |-> "update", by |-> Who(u), changes |-> ch]]
      /\ row' = row
  BY DEF Load
<1> HIDE DEF ch
<1>4. Who(u) \in {"admin", "other"}
  BY DEF Who
<1>5. JobTypeOK'
  BY <1>1, <1>3, <1>4 DEF LifecycleInv, JobTypeOK, TypeOK
<1>6. \A q \in Requests : q # r => req'[q] = req[q]
  BY <1>3 DEF LifecycleInv, JobTypeOK
<1>7. req'[r] = [op |-> "update", by |-> Who(u), changes |-> ch]
  BY <1>3 DEF LifecycleInv, JobTypeOK
<1>8. ChangesOK'
  BY <1>2, <1>3, <1>6, <1>7 DEF LifecycleInv, ChangesOK, BringsPayee
<1> QED
  BY <1>5, <1>8 DEF LifecycleInv

\* The successors of a status do not include "searching".
LEMMA NotBack ==
  ASSUME NEW old \in JobStatus, NEW status \in Successors(old)
  PROVE  status \in JobStatus \ {"searching"}
BY DEF Successors, VALID_TRANSITIONS, JobStatus

LEMMA PatchKeeps ==
  ASSUME LifecycleInv, NEW r \in Requests, NEW u, NEW status, NEW m \in Mechanics \cup {None},
         PatchStatus(r, u, status, m)
  PROVE  LifecycleInv'
<1> DEFINE handed == m \notin {None, row.assigned_mechanic_id}
           edited == IF ~handed THEN [row EXCEPT !.status = status]
                     ELSE [row EXCEPT !.status = status, !.assigned_mechanic_id = m,
                                      !.assigned_type = "mechanic"]
           ch == OrmChanges(row, edited)
<1>1. row \in Row
  BY DEF LifecycleInv, JobTypeOK, TypeOK
<1>2. row.status \in JobStatus /\ status \in Successors(row.status) /\ Load(r, u, edited)
  BY <1>1, RowColumns DEF PatchStatus, MayAct
<1>3. status \in JobStatus \ {"searching"}
  BY <1>2, NotBack
<1>4. edited \in Row
  BY <1>1, <1>3 DEF Row
<1>5. DOMAIN ch = {x \in Columns : edited[x] # row[x]} /\ \A x \in DOMAIN ch : ch[x] = edited[x]
  BY <1>1, <1>4, ChangesFit
<1>6. /\ edited["status"] = status
      /\ edited["assigned_garage_id"] = row["assigned_garage_id"]
      /\ edited["service_amount"] = row["service_amount"]
      /\ edited["provider_upi_id"] = row["provider_upi_id"]
      /\ \/ /\ edited["assigned_mechanic_id"] = row["assigned_mechanic_id"]
            /\ edited["assigned_type"] = row["assigned_type"]
         \/ /\ edited["assigned_mechanic_id"] = m
            /\ m # row["assigned_mechanic_id"] /\ m \in Mechanics
            /\ edited["assigned_type"] = "mechanic"
  BY <1>1, RowColumns DEF Columns
<1> HIDE DEF edited, ch
<1>7. Forward(ch) /\ HandsOver(ch) /\ BringsPayee(ch)
  BY <1>3, <1>5, <1>6 DEF Forward, HandsOver, BringsPayee, Columns
<1> QED
  BY <1>2, <1>4, <1>7, LoadKeeps DEF ch

LEMMA FinalizeKeeps ==
  ASSUME LifecycleInv, NEW r \in Requests, NEW u \in Users, FinalizePrice(r, u)
  PROVE  LifecycleInv'
<1> DEFINE payee == IF row.assigned_mechanic_id # None THEN row.assigned_mechanic_id
                    ELSE IF row.assigned_garage_id # None THEN row.assigned_garage_id
                    ELSE row.provider_upi_id
           edited == [row EXCEPT !.service_amount = TRUE, !.provider_upi_id = payee,
                                 !.status = "payment_pending"]
           ch == OrmChanges(row, edited)
<1>1. row \in Row
  BY DEF LifecycleInv, JobTypeOK, TypeOK
<1>2. Load(r, u, edited) /\ MayAct(u) /\ u # "customer"
  BY <1>1 DEF FinalizePrice, Row
<1>3. payee \in Providers \cup {None} /\ (payee = None => payee = row.provider_upi_id)
  BY <1>1, RowColumns DEF Providers
<1>4. Who(u) # "admin" => payee # None
  BY <1>1, <1>2, ProvidersAssumption, RowColumns DEF MayAct, Who, Users, Providers
<1> HIDE DEF payee
<1>5. edited \in Row
  BY <1>1, <1>3 DEF Row, JobStatus
<1>6. DOMAIN ch = {x \in Columns : edited[x] # row[x]} /\ \A x \in DOMAIN ch : ch[x] = edited[x]
  BY <1>1, <1>5, ChangesFit
<1>7. /\ edited["status"] = "payment_pending"
      /\ edited["assigned_garage_id"] = row["assigned_garage_id"]
      /\ edited["assigned_mechanic_id"] = row["assigned_mechanic_id"]
      /\ edited["assigned_type"] = row["assigned_type"]
      /\ edited["provider_upi_id"] = payee
  BY <1>1, RowColumns DEF Columns
<1> HIDE DEF edited, ch
<1>8. Forward(ch) /\ HandsOver(ch)
  BY <1>3, <1>6, <1>7 DEF Forward, HandsOver, Columns, JobStatus
<1>9. Who(u) # "admin" => BringsPayee(ch)
  BY <1>4, <1>6, <1>7 DEF BringsPayee, Columns
<1> QED
  BY <1>2, <1>5, <1>8, <1>9, LoadKeeps DEF ch

\* Handlers that change the status alone: complete, cancel, and a captured payment.
LEMMA StatusKeeps ==
  ASSUME LifecycleInv, NEW r \in Requests, NEW u, NEW status \in {"completed", "cancelled"},
         Load(r, u, [row EXCEPT !.status = status])
  PROVE  LifecycleInv'
<1> DEFINE edited == [row EXCEPT !.status = status]
           ch == OrmChanges(row, edited)
<1>1. row \in Row
  BY DEF LifecycleInv, JobTypeOK, TypeOK
<1>2. edited \in Row
  BY <1>1 DEF Row, JobStatus
<1>3. DOMAIN ch = {x \in Columns : edited[x] # row[x]} /\ \A x \in DOMAIN ch : ch[x] = edited[x]
  BY <1>1, <1>2, ChangesFit
<1>4. \A x \in Columns : edited[x] = IF x = "status" THEN status ELSE row[x]
  BY <1>1, RowColumns DEF Columns
<1>5. Load(r, u, edited)
  OBVIOUS
<1> HIDE DEF edited, ch
<1>6. Forward(ch) /\ HandsOver(ch) /\ BringsPayee(ch)
  BY <1>3, <1>4 DEF Forward, HandsOver, BringsPayee, Columns, JobStatus
<1> QED
  BY <1>2, <1>5, <1>6, LoadKeeps DEF ch

\* The two admin assignments: whatever they do to the other column, it is an
\* admin's.
LEMMA AssignedIsRow ==
  ASSUME NEW rw \in Row, NEW p \in Providers
  PROVE  Assign(rw, p) \in Row
BY DEF Assign, Row, Providers, ProviderType, JobStatus

LEMMA AdminKeeps ==
  ASSUME LifecycleInv, NEW r \in Requests, NEW p \in Providers,
         AssignJob(r, p) \/ ForceAssignJob(r, p)
  PROVE  LifecycleInv'
<1>1. row \in Row
  BY DEF LifecycleInv, JobTypeOK, TypeOK
<1>2. PICK edited \in Row :
        /\ Load(r, "admin", edited)
        /\ edited.status = "assigned" /\ edited.provider_upi_id = row.provider_upi_id
  <2>1. CASE AssignJob(r, p)
    <3> DEFINE edited == [row EXCEPT !.status = "assigned", !.assigned_type = ProviderType(p),
                 !.assigned_mechanic_id = IF p \in Mechanics THEN p ELSE None,
                 !.assigned_garage_id   = IF p \in Mechanics THEN None ELSE p]
    <3>1. edited \in Row
      BY <1>1 DEF Row, Providers, ProviderType, JobStatus
    <3>2. Load(r, "admin", edited)
      BY <2>1 DEF AssignJob
    <3>3. edited.status = "assigned" /\ edited.provider_upi_id = row.provider_upi_id
      BY <1>1 DEF Row
    <3> QED
      BY <3>1, <3>2, <3>3
  <2>2. CASE ForceAssignJob(r, p)
    <3>1. Load(r, "admin", Assign(row, p))
      BY <2>2 DEF ForceAssignJob
    <3>2. Assign(row, p).status = "assigned" /\ Assign(row, p).provider_upi_id = row.provider_upi_id
      BY <1>1 DEF Assign, Row
    <3> QED
      BY <3>1, <3>2, <1>1, AssignedIsRow
  <2> QED
    BY <2>1, <2>2
<1> DEFINE ch == OrmChanges(row, edited)
<1>3. DOMAIN ch = {x \in Columns : edited[x] # row[x]} /\ \A x \in DOMAIN ch : ch[x] = edited[x]
  BY <1>1, <1>2, ChangesFit
<1> HIDE DEF ch
<1>4. Forward(ch)
  BY <1>2, <1>3 DEF Forward, JobStatus
<1> QED
  BY <1>2, <1>4, LoadKeeps DEF ch, Who

------------------------------------------------------------------------------
(* The steps that change the row.                                          *)

\* What a flush leaves in each column.
LEMMA FlushColumns ==
  ASSUME NEW rw \in Row, NEW ch
  PROVE  \A x \in Columns : OrmFlush(rw, ch)[x] = IF x \in DOMAIN ch THEN ch[x] ELSE rw[x]
<1>1. DOMAIN rw = Columns
  BY RowColumns
<1> QED
  BY <1>1 DEF OrmFlush

\* A deleted row stays deleted, and a payee stays until then.
RowGoesOn ==
  /\ row.status = "absent" => row'.status = "absent"
  /\ row.provider_upi_id # None => row'.provider_upi_id # None \/ row'.status = "absent"

\* Requests in flight stay as they were when the row goes on and some of them end.
LEMMA RestKeeps ==
  ASSUME ChangesOK, RowGoesOn, \A r \in Requests : req'[r] = req[r] \/ req'[r] = Idle
  PROVE  ChangesOK'
<1> SUFFICES ASSUME NEW r \in Requests
             PROVE  (/\ Forward(req[r].changes)
                     /\ req[r].by # "admin" =>
                          HandsOver(req[r].changes) /\ BringsPayee(req[r].changes))'
  BY DEF ChangesOK
<1>1. CASE req'[r] = req[r]
  BY <1>1 DEF ChangesOK, RowGoesOn, BringsPayee
<1>2. CASE req'[r] = Idle
  <2>1. DOMAIN req'[r].changes = {}
    BY <1>2, NoChangeIsEmpty DEF Idle
  <2> QED
    BY <2>1 DEF Forward, HandsOver, BringsPayee
<1> QED
  BY <1>1, <1>2

\* A flush of changes that may be in flight.
LEMMA FlushGoesOn ==
  ASSUME NEW rw \in Row, NEW ch, rw.status # "absent", Forward(ch), OrmFlush(Created, ch) \in Row
  PROVE  LET new == OrmFlush(rw, ch)
         IN  /\ new \in Row
             /\ rw.provider_upi_id # None => new.provider_upi_id # None
             /\ rw.status # "searching" => new.status # "searching"
             /\ new.status # "absent"
<1> DEFINE new == OrmFlush(rw, ch)
<1>1. new \in Row
  BY FlushFits
<1>2. \A x \in Columns : new[x] = IF x \in DOMAIN ch THEN ch[x] ELSE rw[x]
  BY FlushColumns
<1> HIDE DEF new
<1>3. /\ new.status = new["status"] /\ rw.status = rw["status"]
      /\ new.provider_upi_id = new["provider_upi_id"] /\ rw.provider_upi_id = rw["provider_upi_id"]
  OBVIOUS
<1>4. rw.provider_upi_id # None => new.provider_upi_id # None
  BY <1>2 DEF Forward, Columns
<1>5. rw.status # "searching" => new.status # "searching"
  BY <1>2 DEF Forward, Columns
<1>6. new.status # "absent"
  BY <1>2, <1>3 DEF Forward, Columns, JobStatus
<1> QED
  BY <1>1, <1>4, <1>5, <1>6 DEF new

LEMMA CommitUpdateKeeps ==
  ASSUME LifecycleInv, NEW r \in Requests, CommitUpdate(r)
  PROVE  /\ LifecycleInv'
         /\ row.status # "searching" => row'.status # "searching"
         /\ row'.status # "absent"
<1> DEFINE ch == req[r].changes
<1>1. row \in Row /\ OrmFlush(Created, ch) \in Row /\ Forward(ch)
  BY DEF LifecycleInv, JobTypeOK, TypeOK, ChangesOK
<1>2. row' = OrmFlush(row, ch) /\ row.status # "absent" /\ req' = [req EXCEPT ![r] = Idle]
  BY DEF CommitUpdate
<1> HIDE DEF ch
<1>3. /\ row' \in Row
      /\ row.provider_upi_id # None => row'.provider_upi_id # None
      /\ row.status # "searching" => row'.status # "searching"
      /\ row'.status # "absent"
  BY <1>1, <1>2, FlushGoesOn
<1>4. JobTypeOK'
  BY <1>2, <1>3, NoChangeIsEmpty DEF LifecycleInv, JobTypeOK, TypeOK, Idle
<1>5. ChangesOK'
  <2>1. RowGoesOn
    BY <1>2, <1>3 DEF RowGoesOn
  <2>2. \A q \in Requests : req'[q] = req[q] \/ req'[q] = Idle
    BY <1>2 DEF LifecycleInv, JobTypeOK
  <2> QED
    BY <2>1, <2>2, RestKeeps DEF LifecycleInv
<1> QED
  BY <1>3, <1>4, <1>5 DEF LifecycleInv

\* The end of a request that writes nothing, or deletes the row.
LEMMA EndKeeps ==
  ASSUME LifecycleInv, NEW r \in Requests, CommitDelete(r) \/ RequestFails(r)
  PROVE  LifecycleInv'
<1>1. req' = [req EXCEPT ![r] = Idle] /\ row' \in {row, Deleted}
  BY DEF CommitDelete, RequestFails
<1>2. JobTypeOK'
  BY <1>1, NoChangeIsEmpty, CreatedIsRow DEF LifecycleInv, JobTypeOK, TypeOK, Idle
<1>3. ChangesOK'
  <2>1. RowGoesOn
    BY <1>1 DEF RowGoesOn, Deleted, Created
  <2>2. \A q \in Requests : req'[q] = req[q] \/ req'[q] = Idle
    BY <1>1 DEF LifecycleInv, JobTypeOK
  <2> QED
    BY <2>1, <2>2, RestKeeps DEF LifecycleInv
<1> QED
  BY <1>2, <1>3 DEF LifecycleInv

LEMMA DeleteAskedKeeps ==
  ASSUME LifecycleInv, NEW r \in Requests, NEW u, DeleteRequest(r, u)
  PROVE  LifecycleInv'
<1>1. req' = [req EXCEPT ![r] = [op |-> "delete", by |-> Who(u), changes |-> NoChange]] /\ row' = row
  BY DEF DeleteRequest
<1>2. Who(u) \in {"admin", "other"}
  BY DEF Who
<1>3. JobTypeOK'
  BY <1>1, <1>2, NoChangeIsEmpty DEF LifecycleInv, JobTypeOK, TypeOK
<1>4. \A q \in Requests : req'[q] = req[q] \/ DOMAIN req'[q].changes = {}
  BY <1>1, NoChangeIsEmpty DEF LifecycleInv, JobTypeOK
<1>5. ChangesOK'
  BY <1>1, <1>4 DEF LifecycleInv, ChangesOK, Forward, HandsOver, BringsPayee
<1> QED
  BY <1>3, <1>5 DEF LifecycleInv

LEMMA AcceptKeeps ==
  ASSUME LifecycleInv, NEW p \in Providers, AcceptOffer(p)
  PROVE  LifecycleInv'
<1>1. row \in Row /\ row' = Assign(row, p) /\ req' = req /\ row.status = "searching"
  BY DEF AcceptOffer, LifecycleInv, JobTypeOK, TypeOK
<1>2. row' \in Row
  BY <1>1, AssignedIsRow
<1>3. RowGoesOn
  BY <1>1 DEF RowGoesOn, Assign, Row
<1>4. ChangesOK'
  BY <1>1, <1>3, RestKeeps DEF LifecycleInv
<1> QED
  BY <1>1, <1>2, <1>4 DEF LifecycleInv, JobTypeOK, TypeOK

------------------------------------------------------------------------------
(* What a commit may do to the row.                                        *)

\* Four kinds of step touch the row.
LEMMA OthersLeaveRow ==
  ASSUME Next
  PROVE  \/ row' = row
         \/ \E r \in Requests : CommitUpdate(r) \/ CommitDelete(r)
         \/ \E p \in Providers : AcceptOffer(p)
BY DEF Next, PartyStep, PatchStatus, FinalizePrice, CompleteRequest, CancelRequest,
       DeleteRequest, AssignJob, ForceAssignJob, PaymentCompletesJob, RequestFails, Load

\* A provider's id is never NULL, so an assigned row names someone.
LEMMA AssignNames ==
  ASSUME NEW rw \in Row, NEW p \in Providers
  PROVE  Assignee(Assign(rw, p)) # None
<1>1. CASE p \in Mechanics
  BY <1>1, ProvidersAssumption DEF Assignee, Assign, ProviderType, Row, Providers
<1>2. CASE p \notin Mechanics
  BY <1>2, ProvidersAssumption DEF Assignee, Assign, ProviderType, Row, Providers
<1> QED
  BY <1>1, <1>2

\* Handing over a job that has a provider leaves it with one.
LEMMA HandOverKeepsAssignee ==
  ASSUME NEW rw \in Row, NEW ch, HandsOver(ch), Assignee(rw) # None
  PROVE  Assignee(OrmFlush(rw, ch)) # None
<1> DEFINE new == OrmFlush(rw, ch)
<1>1. \A x \in Columns : new[x] = IF x \in DOMAIN ch THEN ch[x] ELSE rw[x]
  BY FlushColumns
<1> HIDE DEF new
<1>2. rw["assigned_type"] \in {"mechanic", "garage", None}
  BY RowColumns
<1>3. /\ new["assigned_garage_id"] = rw["assigned_garage_id"]
      /\ \/ new["assigned_mechanic_id"] = rw["assigned_mechanic_id"]
         \/ new["assigned_mechanic_id"] \in Mechanics
      /\ \/ new["assigned_type"] = rw["assigned_type"]
         \/ /\ new["assigned_type"] = "mechanic"
            /\ new["assigned_mechanic_id"] \in Mechanics
  BY <1>1 DEF HandsOver, Columns
<1>4. None \notin Mechanics
  BY ProvidersAssumption DEF Providers
<1>5. Assignee(new) # None
  BY <1>2, <1>3, <1>4 DEF Assignee
<1> QED
  BY <1>5 DEF new

\* A bill that no admin writes comes with a payee.
LEMMA BillBringsPayee ==
  ASSUME LifecycleInv, NEW r \in Requests, CommitUpdate(r), req[r].by # "admin",
         row'.service_amount, ~row.service_amount
  PROVE  row'.provider_upi_id # None
<1> DEFINE ch == req[r].changes
<1>1. /\ row \in Row /\ Forward(ch) /\ BringsPayee(ch)
      /\ row' = OrmFlush(row, ch) /\ row.status # "absent"
  BY DEF LifecycleInv, JobTypeOK, TypeOK, ChangesOK, CommitUpdate
<1> HIDE DEF ch
<1>2. \A x \in Columns : row'[x] = IF x \in DOMAIN ch THEN ch[x] ELSE row[x]
  BY <1>1, FlushColumns
<1>3. "service_amount" \in DOMAIN ch
  BY <1>2 DEF Columns
<1> QED
  BY <1>1, <1>2, <1>3 DEF Forward, BringsPayee, Columns

------------------------------------------------------------------------------
(* The theorems.                                                           *)

\* No request is in flight when the job has just been created.
LEMMA InitHolds == Init => LifecycleInv
<1> SUFFICES ASSUME Init
             PROVE  LifecycleInv
  OBVIOUS
<1>1. JobTypeOK
  BY CreatedIsRow, NoChangeIsEmpty DEF Init, JobTypeOK, TypeOK, Idle
<1>2. \A r \in Requests : DOMAIN req[r].changes = {}
  BY NoChangeIsEmpty DEF Init, Idle
<1> QED
  BY <1>1, <1>2 DEF LifecycleInv, ChangesOK, Forward, HandsOver, BringsPayee

\* Every step of a party, up to its commit.
LEMMA PartyKeeps ==
  ASSUME LifecycleInv, NEW r \in Requests, PartyStep(r)
  PROVE  LifecycleInv'
<1>1. ASSUME NEW u \in Users, NEW s \in JobStatus, NEW m \in Mechanics \cup {None},
             PatchStatus(r, u, s, m)
      PROVE  LifecycleInv'
  BY <1>1, PatchKeeps
<1>2. ASSUME NEW u \in Users, FinalizePrice(r, u)
      PROVE  LifecycleInv'
  BY <1>2, FinalizeKeeps
<1>3. ASSUME NEW u \in Users, CompleteRequest(r, u) \/ CancelRequest(r, u)
      PROVE  LifecycleInv'
  BY <1>3, StatusKeeps DEF CompleteRequest, CancelRequest, Cancel
<1>4. ASSUME NEW u \in Users, DeleteRequest(r, u)
      PROVE  LifecycleInv'
  BY <1>4, DeleteAskedKeeps
<1>5. ASSUME NEW p \in Providers, AssignJob(r, p) \/ ForceAssignJob(r, p)
      PROVE  LifecycleInv'
  BY <1>5, AdminKeeps
<1>6. CASE CommitUpdate(r)
  BY <1>6, CommitUpdateKeeps
<1>7. CASE RequestFails(r)
  BY <1>7, EndKeeps
<1> QED
  BY <1>1, <1>2, <1>3, <1>4, <1>5, <1>6, <1>7 DEF PartyStep

\* The inductive invariant: the row and the requests are well formed, and no
\* request in flight is about to write what would break the properties below.
THEOREM LifecycleInvariance == Spec => []LifecycleInv
<1>1. LifecycleInv /\ [Next]_jobVars => LifecycleInv'
  <2> SUFFICES ASSUME LifecycleInv, [Next]_jobVars
               PROVE  LifecycleInv'
    OBVIOUS
  <2>1. ASSUME NEW r \in Requests, PartyStep(r)
        PROVE  LifecycleInv'
    BY <2>1, PartyKeeps
  <2>2. ASSUME NEW r \in Requests, PaymentCompletesJob(r)
        PROVE  LifecycleInv'
    BY <2>2, StatusKeeps DEF PaymentCompletesJob
  <2>3. ASSUME NEW r \in Requests, CommitDelete(r)
        PROVE  LifecycleInv'
    BY <2>3, EndKeeps
  <2>4. ASSUME NEW p \in Providers, AcceptOffer(p)
        PROVE  LifecycleInv'
    BY <2>4, AcceptKeeps
  <2>5. CASE UNCHANGED jobVars
    BY <2>5 DEF jobVars, LifecycleInv, JobTypeOK, TypeOK, ChangesOK, BringsPayee
  <2> QED
    BY <2>1, <2>2, <2>3, <2>4, <2>5 DEF Next
<1> QED
  BY <1>1, InitHolds, PTL DEF Spec

\* The row of jobs is well formed, whatever requests have merged into it.
THEOREM JobTypeCorrect == Spec => []TypeOK
<1>1. LifecycleInv => TypeOK
  BY DEF LifecycleInv, JobTypeOK
<1> QED
  BY <1>1, LifecycleInvariance, PTL

\* Dispatch relies on it: a job that has left "searching" is never put back on
\* offer, because no request in flight has "searching" to write (Forward), the one
\* other value the column could get back.
THEOREM JobNeverReopened == Spec => NeverReopened
<1>1. LifecycleInv /\ [Next]_jobVars =>
        [row.status # "searching" => row'.status # "searching"]_jobVars
  <2> SUFFICES ASSUME LifecycleInv, Next, row.status # "searching"
               PROVE  row'.status # "searching" \/ row' = row
    BY DEF jobVars
  <2>1. ASSUME NEW r \in Requests, CommitUpdate(r)
        PROVE  row'.status # "searching"
    BY <2>1, CommitUpdateKeeps
  <2>2. ASSUME NEW r \in Requests, CommitDelete(r)
        PROVE  row'.status # "searching"
    BY <2>2 DEF CommitDelete, Deleted, Created
  <2> QED
    BY <2>1, <2>2, OthersLeaveRow DEF AcceptOffer
<1> QED
  BY <1>1, LifecycleInvariance, PTL DEF Spec, NeverReopened

\* A cancel or a patch that read the row before a provider accepted does not take
\* the provider away when it commits: HandsOver is what it may still write.
THEOREM JobAssigneeNotLost == Spec => AssigneeNotLost
<1> DEFINE A == Assignee(row) # None /\ Assignee(row') = None /\ row'.status # "absent" =>
                  \E r \in Requests : req[r].by = "admin" /\ req'[r] = Idle
<1>1. LifecycleInv /\ [Next]_jobVars => [A]_jobVars
  <2> SUFFICES ASSUME LifecycleInv, Next, Assignee(row) # None, row'.status # "absent"
               PROVE  \/ row' = row
                      \/ Assignee(row') # None
                      \/ \E r \in Requests : req[r].by = "admin" /\ req'[r] = Idle
    BY DEF jobVars
  <2>1. ASSUME NEW r \in Requests, CommitUpdate(r), req[r].by # "admin"
        PROVE  Assignee(row') # None
    BY <2>1, HandOverKeepsAssignee DEF CommitUpdate, LifecycleInv, JobTypeOK, TypeOK, ChangesOK
  <2>2. ASSUME NEW r \in Requests, CommitUpdate(r), req[r].by = "admin"
        PROVE  req'[r] = Idle
    BY <2>2 DEF CommitUpdate, LifecycleInv, JobTypeOK
  <2>3. ASSUME NEW r \in Requests, CommitDelete(r)
        PROVE  row'.status = "absent"
    BY <2>3 DEF CommitDelete, Deleted, Created
  <2>4. ASSUME NEW p \in Providers, AcceptOffer(p)
        PROVE  Assignee(row') # None
    BY <2>4, AssignNames DEF AcceptOffer, LifecycleInv, JobTypeOK, TypeOK
  <2> QED
    BY <2>1, <2>2, <2>3, <2>4, OthersLeaveRow
<1> QED
  BY <1>1, LifecycleInvariance, PTL DEF Spec, AssigneeNotLost

\* A bill appears with a payee, although the handler that writes it read the row
\* earlier: it brings the payee, or the row had one and never loses it (BringsPayee
\* is kept by every step because Forward is).
THEOREM JobBillHasPayee == Spec => BillHasPayee
<1> DEFINE A == row'.service_amount /\ row'.provider_upi_id = None =>
                  \/ row.service_amount
                  \/ \E r \in Requests : req[r].by = "admin" /\ req'[r] = Idle
<1>1. LifecycleInv /\ [Next]_jobVars => [A]_jobVars
  <2> SUFFICES ASSUME LifecycleInv, Next, row'.service_amount, ~row.service_amount
               PROVE  \/ row'.provider_upi_id # None
                      \/ \E r \in Requests : req[r].by = "admin" /\ req'[r] = Idle
    BY DEF jobVars
  <2>1. ASSUME NEW r \in Requests, CommitUpdate(r), req[r].by # "admin"
        PROVE  row'.provider_upi_id # None
    BY <2>1, BillBringsPayee
  <2>2. ASSUME NEW r \in Requests, CommitUpdate(r), req[r].by = "admin"
        PROVE  req'[r] = Idle
    BY <2>2 DEF CommitUpdate, LifecycleInv, JobTypeOK
  <2>3. ASSUME NEW r \in Requests, CommitDelete(r)
        PROVE  FALSE
    BY <2>3 DEF CommitDelete, Deleted, Created
  <2>4. ASSUME NEW p \in Providers, AcceptOffer(p)
        PROVE  FALSE
    BY <2>4 DEF AcceptOffer, Assign, LifecycleInv, JobTypeOK, TypeOK, Row
  <2> QED
    BY <2>1, <2>2, <2>3, <2>4, OthersLeaveRow
<1> QED
  BY <1>1, LifecycleInvariance, PTL DEF Spec, BillHasPayee

=============================================================================
