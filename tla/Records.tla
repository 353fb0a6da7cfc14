------------------------------ MODULE Records ------------------------------
(***************************************************************************)
(* The rows that handlers find or create, of one user: settings, loyalty   *)
(* card, customer profile, referral code, whose user_id is unique, and     *)
(* favourite (of one product), referral reward, fleet, and a garage's link *)
(* to a mechanic, for which nothing but the handler's own look decides     *)
(* (backend/app/api/v1: settings.py, card.py, profile.py, referral.py,     *)
(* favorites.py, fleet.py, garage_routes.py).  The handlers look with      *)
(* scalar_one_or_none, which fails on two rows.                            *)
(***************************************************************************)
EXTENDS Naturals, FiniteSets, Orm

CONSTANTS
  RowIds,       \* ids rows can get; one is never given twice
  RecordCalls   \* requests that can be in flight

VARIABLES
  kind,         \* what the requests are about
  records,      \* its rows
  usedRows,     \* RowIds given away so far
  recordCalls,  \* requests between their look and their commit
  parallel      \* two inserts have been in flight together

recordsVars == <<kind, records, usedRows, recordCalls, parallel>>

OwnRow == {"settings", "card", "profile", "referral_code"}
Kinds == OwnRow \cup {"favorite", "reward", "fleet", "garage_mechanic"}
NoLook == [op |-> "idle", row |-> None]

RecordsTypeOK ==
  /\ kind \in Kinds
  /\ records \subseteq usedRows /\ usedRows \subseteq RowIds
  /\ \A c \in RecordCalls : recordCalls[c].op \in {"idle", "insert", "update", "delete"}
  /\ parallel \in BOOLEAN

RecordsInit ==
  /\ kind \in Kinds
  /\ records = {} /\ usedRows = {}
  /\ recordCalls = [c \in RecordCalls |-> NoLook]
  /\ parallel = FALSE

------------------------------------------------------------------------------
(* The look.                                                               *)

Look(c, op, row) ==
  /\ recordCalls[c] = NoLook
  /\ recordCalls' = [recordCalls EXCEPT ![c] = [op |-> op, row |-> row]]
  /\ UNCHANGED <<kind, records, usedRows>>

FindsNothing(c) ==
  /\ records = {}
  /\ Look(c, "insert", None)
  /\ parallel' = (parallel \/ \E d \in RecordCalls : recordCalls[d].op = "insert")

FindsRow(c, op, r) ==
  /\ records = {r}
  /\ Look(c, op, r)
  /\ UNCHANGED parallel

\* The own rows, made by whichever request misses them first.
GetSettings(c)    == kind = "settings" /\ FindsNothing(c)
UpdateSettings(c) == kind = "settings" /\ (FindsNothing(c) \/ \E r \in RowIds : FindsRow(c, "update", r))
GetProfile(c)     == kind = "profile"  /\ FindsNothing(c)
UpdateProfile(c)  == kind = "profile"  /\ (FindsNothing(c) \/ \E r \in RowIds : FindsRow(c, "update", r))
GetMyCode(c)      == kind = "referral_code" /\ FindsNothing(c)

\* card_get also brings the membership tier up to date.
GetCard(c) == kind = "card" /\ (FindsNothing(c) \/ \E r \in RowIds : FindsRow(c, "update", r))

\* The others; where they find a row they answer 409, or that all is done.
AddFavorite(c)    == kind = "favorite" /\ FindsNothing(c)
RemoveFavorite(c) == kind = "favorite" /\ \E r \in RowIds : FindsRow(c, "delete", r)
ApplyReferral(c)  == kind = "reward"   /\ FindsNothing(c)
RegisterFleet(c)  == kind = "fleet"    /\ FindsNothing(c)
AddMechanic(c)    == kind = "garage_mechanic" /\ FindsNothing(c)

------------------------------------------------------------------------------
(* The write.                                                              *)

Written(c) == recordCalls' = [recordCalls EXCEPT ![c] = NoLook]

\* Defect variant: user_id is an ordinary column everywhere.
IndexAllows_NoUnique == TRUE

\* The unique user_id of the own rows.
IndexAllows == kind \in OwnRow => records = {}

CommitInsertRow(c, r) ==
  /\ recordCalls[c].op = "insert" /\ r \notin usedRows
  /\ IndexAllows
  /\ records' = records \cup {r} /\ usedRows' = usedRows \cup {r}
  /\ Written(c)
  /\ UNCHANGED <<kind, parallel>>

\* An UPDATE of a row that is gone is a StaleDataError, a DELETE of one a warning.
CommitRow(c) ==
  LET call == recordCalls[c] IN
  /\ call.op = "delete" \/ (call.op = "update" /\ call.row \in records)
  /\ records' = IF call.op = "delete" THEN records \ {call.row} ELSE records
  /\ Written(c)
  /\ UNCHANGED <<kind, usedRows, parallel>>

LookFails(c) ==
  /\ recordCalls[c] # NoLook
  /\ Written(c)
  /\ UNCHANGED <<kind, records, usedRows, parallel>>

RecordsNext ==
  \E c \in RecordCalls :
    \/ GetSettings(c) \/ UpdateSettings(c) \/ GetProfile(c) \/ UpdateProfile(c)
    \/ GetMyCode(c) \/ GetCard(c)
    \/ AddFavorite(c) \/ RemoveFavorite(c)
    \/ ApplyReferral(c) \/ RegisterFleet(c) \/ AddMechanic(c)
    \/ (\E r \in RowIds : CommitInsertRow(c, r)) \/ CommitRow(c) \/ LookFails(c)

RecordsSpec == RecordsInit /\ [][RecordsNext]_recordsVars

------------------------------------------------------------------------------
(* Properties.                                                             *)

\* No user is locked out of an own row by two requests that both found none (two
\* screens of the app that load together): there is never a second row, on which
\* every later look would fail.  The other kinds can be doubled, but only by two
\* inserts in flight together.
NeverDoubled == Cardinality(records) <= 1 \/ (kind \notin OwnRow /\ parallel)

=============================================================================
