------------------------------- MODULE JobRows -------------------------------
(***************************************************************************)
(* The row of the "jobs" table (backend/app/models/job.py) as every        *)
(* component sees it, the transition table of job_service.py, and the      *)
(* edits that more than one component makes to it.                         *)
(***************************************************************************)
EXTENDS Naturals, Orm

CONSTANTS
  Jobs,        \* job ids
  Mechanics,   \* mechanic ids
  Garages      \* garage ids

Providers == Mechanics \cup Garages

\* provider_type and provider_id name one provider: no id is in both tables.
ASSUME ProvidersAssumption ==
  /\ Mechanics \cap Garages = {}
  /\ None \notin Providers
  /\ None \notin {"mechanic", "garage", "auto"}

ProviderType(p) == IF p \in Mechanics THEN "mechanic" ELSE "garage"

RequestTypes == {"mechanic", "garage", "auto"}

JobStatus == {"searching", "assigned", "en_route", "in_progress",
              "payment_pending", "completed", "cancelled"}

VALID_TRANSITIONS ==
  [searching       |-> {"assigned", "cancelled"},
   assigned        |-> {"en_route", "payment_pending", "cancelled"},
   en_route        |-> {"in_progress", "completed", "cancelled"},
   in_progress     |-> {"payment_pending", "completed", "cancelled"},
   payment_pending |-> {"completed", "cancelled"},
   completed       |-> {},
   cancelled       |-> {}]

\* "absent" is the status of an id whose row is not (or no longer) committed.
JobRow ==
  [status               : JobStatus \cup {"absent"},
   assigned_type        : {"mechanic", "garage", None},
   assigned_mechanic_id : Mechanics \cup {None},
   assigned_garage_id   : Garages \cup {None}]

NoRow == [status |-> "absent", assigned_type |-> None,
          assigned_mechanic_id |-> None, assigned_garage_id |-> None]

NewRow == [NoRow EXCEPT !.status = "searching"]

\* The row names p as its assignee.
AssignedTo(row, p) ==
  /\ row.assigned_type = ProviderType(p)
  /\ \/ p \in Mechanics /\ row.assigned_mechanic_id = p
     \/ p \in Garages   /\ row.assigned_garage_id = p

\* Defect variant: every assignee is written as a mechanic.
Assign_MechanicColumn(row, p) ==
  [row EXCEPT !.status = "assigned",
              !.assigned_type = ProviderType(p),
              !.assigned_mechanic_id = p]

\* Defect variant: assigned_type is written to an attribute that is no column.
Assign_PhantomType(row, p) ==
  [row EXCEPT !.status = "assigned",
              !.assigned_mechanic_id = IF p \in Mechanics THEN p ELSE @,
              !.assigned_garage_id   = IF p \in Mechanics THEN @ ELSE p]

\* accept_offer on the row it has locked: the other provider column is left
\* as it is.
Assign(row, p) ==
  [row EXCEPT !.status = "assigned",
              !.assigned_type = ProviderType(p),
              !.assigned_mechanic_id = IF p \in Mechanics THEN p ELSE @,
              !.assigned_garage_id   = IF p \in Mechanics THEN @ ELSE p]

\* cancel_job: the assignee stays on the row.
Cancel(row) == [row EXCEPT !.status = "cancelled"]

=============================================================================
