---------------------------- MODULE JobLifecycle ----------------------------
(***************************************************************************)
(* One job row after it has been created, and every handler that writes    *)
(* it: the status endpoints of service.py and jobs.py, the two admin       *)
(* assignments, deletion, a provider accepting its offer, and a captured   *)
(* payment completing the job.                                             *)
(*                                                                         *)
(* A handler is two steps.  It loads the row with a plain SELECT, checks   *)
(* what it read and computes the row it wants (its first step); when the   *)
(* session is flushed, SQLAlchemy writes the columns that differ from the  *)
(* loaded ones and the transaction commits (its second step).  Requests    *)
(* interleave between the two.                                             *)
(***************************************************************************)
EXTENDS JobRows

CONSTANT Requests   \* requests that can be in flight

VARIABLES
  row,   \* the committed row of jobs
  req    \* requests between their load and their commit

jobVars == <<row, req>>

\* The columns the handlers of this module write: those of JobRow, whether the
\* bill is on the row (service_amount), and the provider whose UPI id was copied
\* to provider_upi_id.
Row ==
  [status               : JobStatus \cup {"absent"},
   assigned_type        : {"mechanic", "garage", None},
   assigned_mechanic_id : Mechanics \cup {None},
   assigned_garage_id   : Garages \cup {None},
   service_amount       : BOOLEAN,
   provider_upi_id      : Providers \cup {None}]

Created == [status |-> "searching", assigned_type |-> None,
            assigned_mechanic_id |-> None, assigned_garage_id |-> None,
            service_amount |-> FALSE, provider_upi_id |-> None]

Deleted == [Created EXCEPT !.status = "absent"]

Users == {"customer", "admin"} \cup Providers
Who(u) == IF u = "admin" THEN "admin" ELSE "other"

\* The changes of a request that writes no column; by tells an admin's request
\* from the others.
NoChange == [x \in {} |-> None]
Idle == [op |-> "idle", by |-> None, changes |-> NoChange]

TypeOK ==
  /\ row \in Row
  /\ \A r \in Requests :
       /\ req[r].op \in {"idle", "update", "delete"}
       /\ req[r].by \in {"admin", "other", None}
       /\ OrmFlush(Created, req[r].changes) \in Row

Init ==
  /\ row = Created
  /\ req = [r \in Requests |-> Idle]

\* Defect variant: any provider may act on any job.
MayAct_AnyProvider(u) == row.status # "absent"

\* get_job_for_user: the customer of the job, an admin, or a provider whose id
\* is in its own column, whatever assigned_type says.
MayAct(u) ==
  /\ row.status # "absent"
  /\ \/ u \in {"customer", "admin"}
     \/ u \in Mechanics /\ row.assigned_mechanic_id = u
     \/ u \in Garages   /\ row.assigned_garage_id = u

\* The first step of a handler, for user u, that ends up wanting the row
\* "edited". One that wants no change writes nothing and is not in flight.
Load(r, u, edited) ==
  /\ req[r] = Idle
  /\ edited # row
  /\ req' = [req EXCEPT ![r] = [op |-> "update", by |-> Who(u), changes |-> OrmChanges(row, edited)]]
  /\ UNCHANGED row

------------------------------------------------------------------------------
(* The status endpoints.                                                   *)

\* Defect variant: a job can be put back on offer.
Successors_Reopen(status) ==
  IF status = "assigned" THEN VALID_TRANSITIONS[status] \cup {"searching"}
                         ELSE VALID_TRANSITIONS[status]

\* _validate_transition.
Successors(status) == VALID_TRANSITIONS[status]

\* PATCH /service/request/{id}/status: any party, any successor, and any
\* mechanic's id may come with it.
PatchStatus(r, u, status, mechanic_id) ==
  /\ MayAct(u)
  /\ status \in Successors(row.status)
  /\ Load(r, u, IF mechanic_id \in {None, row.assigned_mechanic_id}
                THEN [row EXCEPT !.status = status]
                ELSE [row EXCEPT !.status = status,
                                 !.assigned_mechanic_id = mechanic_id,
                                 !.assigned_type = "mechanic"])

\* finalize_job_price: the bill, the UPI id of the mechanic on the row or else
\* of the garage, and payment_pending.
FinalizePrice(r, u) ==
  /\ MayAct(u)
  /\ u # "customer"
  /\ row.status \in {"assigned", "in_progress", "en_route"}
  /\ Load(r, u, [row EXCEPT
       !.service_amount = TRUE,
       !.provider_upi_id = IF row.assigned_mechanic_id # None THEN row.assigned_mechanic_id
                           ELSE IF row.assigned_garage_id # None THEN row.assigned_garage_id
                           ELSE @,
       !.status = "payment_pending"])

\* complete_job_with_payment; also the end of POST .../release.
CompleteRequest(r, u) ==
  /\ MayAct(u)
  /\ row.status # "cancelled"
  /\ Load(r, u, [row EXCEPT !.status = "completed"])

\* cancel_job returns early on a closed job.
CancelRequest(r, u) ==
  /\ MayAct(u)
  /\ row.status \notin {"completed", "cancelled"}
  /\ Load(r, u, Cancel(row))

\* DELETE /jobs/{id}: any party, in any status.
DeleteRequest(r, u) ==
  /\ MayAct(u)
  /\ req[r] = Idle
  /\ req' = [req EXCEPT ![r] = [op |-> "delete", by |-> Who(u), changes |-> NoChange]]
  /\ UNCHANGED row

------------------------------------------------------------------------------
(* Other writers of the row.                                               *)

\* accept_offer: the row is read and written under its lock, in one step.
AcceptOffer(p) ==
  /\ row.status = "searching"
  /\ row' = Assign(row, p)
  /\ UNCHANGED req

\* POST /jobs/assign and /jobs/{id}/assign: no look at the status, the other
\* provider's column is cleared.
AssignJob(r, p) ==
  /\ row.status # "absent"
  /\ Load(r, "admin", [row EXCEPT
       !.status = "assigned",
       !.assigned_type = ProviderType(p),
       !.assigned_mechanic_id = IF p \in Mechanics THEN p ELSE None,
       !.assigned_garage_id   = IF p \in Mechanics THEN None ELSE p])

\* POST /admin/jobs/{id}/force-assign: no look at the status, the other
\* provider's column stays.
ForceAssignJob(r, p) ==
  /\ row.status # "absent"
  /\ Load(r, "admin", Assign(row, p))

\* A payment is captured (verify, webhook): the job is completed from any
\* status. Cash asks for an open job, and is among these.
PaymentCompletesJob(r) ==
  /\ row.status # "absent"
  /\ Load(r, "gateway", [row EXCEPT !.status = "completed"])

------------------------------------------------------------------------------
(* The end of a request.                                                   *)

\* The UPDATE finds the row and the transaction commits.
CommitUpdate(r) ==
  /\ req[r].op = "update"
  /\ row.status # "absent"
  /\ row' = OrmFlush(row, req[r].changes)
  /\ req' = [req EXCEPT ![r] = Idle]

\* delete_job: the children and the row. A row already gone is no error.
CommitDelete(r) ==
  /\ req[r].op = "delete"
  /\ row' = Deleted
  /\ req' = [req EXCEPT ![r] = Idle]

\* The UPDATE matches no row (StaleDataError), or the session is lost before
\* its commit: nothing is written.
RequestFails(r) ==
  /\ req[r] # Idle
  /\ req' = [req EXCEPT ![r] = Idle]
  /\ UNCHANGED row

\* What the parties to a job and the admins ask for, up to the commit.
PartyStep(r) ==
  \/ \E u \in Users, s \in JobStatus, m \in Mechanics \cup {None} : PatchStatus(r, u, s, m)
  \/ \E u \in Users : FinalizePrice(r, u) \/ CompleteRequest(r, u)
                      \/ CancelRequest(r, u) \/ DeleteRequest(r, u)
  \/ \E p \in Providers : AssignJob(r, p) \/ ForceAssignJob(r, p)
  \/ CommitUpdate(r)
  \/ RequestFails(r)

Next ==
  \/ \E r \in Requests : PartyStep(r) \/ PaymentCompletesJob(r) \/ CommitDelete(r)
  \/ \E p \in Providers : AcceptOffer(p)

Spec == Init /\ [][Next]_jobVars

------------------------------------------------------------------------------
(* Properties.                                                             *)

\* A job that has left "searching" never returns to it, whatever stale row a
\* handler commits: every offer and retry task of dispatch that is still about
\* relies on it to do nothing.
NeverReopened ==
  [][row.status # "searching" => row'.status # "searching"]_jobVars

\* The provider the row names.
Assignee(rw) ==
  CASE rw.assigned_type = "mechanic" -> rw.assigned_mechanic_id
    [] rw.assigned_type = "garage"   -> rw.assigned_garage_id
    [] OTHER                         -> None

\* A job that has a provider never ends up without one because of a handler
\* that loaded the row before it had one and commits afterwards (a cancel or a
\* patch against an accept): only an admin's assignment can take it away, and
\* that only by writing the NULL it means to write.
AssigneeNotLost ==
  [][Assignee(row) # None /\ Assignee(row') = None /\ row'.status # "absent" =>
       \E r \in Requests : req[r].by = "admin" /\ req'[r] = Idle]_jobVars

\* A bill no admin wrote is made out to some provider (whether that provider has
\* filled in a UPI id is not modelled): process_payouts goes by that column alone,
\* and a customer may patch a job nobody accepted, or a mechanic hand over one
\* they accepted, while the bill is being written.
BillHasPayee ==
  [][row'.service_amount /\ row'.provider_upi_id = None =>
       \/ row.service_amount
       \/ \E r \in Requests : req[r].by = "admin" /\ req'[r] = Idle]_jobVars

\* "completed: set(), # terminal", "cancelled: set(), # terminal": a closed job
\* keeps its status until it is deleted.
TerminalStays ==
  [][row.status \in {"completed", "cancelled"} => row'.status \in {row.status, "absent"}]_jobVars

=============================================================================
