--------------------------- MODULE RecordsProofs ---------------------------
(***************************************************************************)
(* NeverDoubled and the types of Records, proved for any number of         *)
(* requests and of rows.                                                   *)
(***************************************************************************)
EXTENDS Records, FiniteSetTheorems, TLAPS

\* There is at most one row.
Single == \A r, s \in records : r = s

\* While no two inserts have been in flight together, one that is in flight has
\* found nothing, and is alone.
AloneInserting ==
  \A c \in RecordCalls : recordCalls[c].op = "insert" =>
    records = {} /\ \A d \in RecordCalls : recordCalls[d].op = "insert" => d = c

LooksTyped ==
  recordCalls \in [RecordCalls -> [op : {"idle", "insert", "update", "delete"}, row : RowIds \cup {None}]]

IInv ==
  /\ RecordsTypeOK /\ LooksTyped
  /\ kind \in OwnRow => Single
  /\ ~parallel => Single /\ AloneInserting

\* A set without two elements has at most one.
LEMMA SingleCount ==
  ASSUME NEW S, \A r, s \in S : r = s
  PROVE  Cardinality(S) <= 1
<1>1. CASE S = {}
  BY <1>1, FS_EmptySet
<1>2. CASE S # {}
  <2>1. PICK r \in S : S = {r}
    BY <1>2
  <2> QED
    BY <2>1, FS_Singleton
<1> QED
  BY <1>1, <1>2

\* A look: it starts an insert only where it has found nothing, and marks it when
\* another is in flight.
LEMMA LookKeeps ==
  ASSUME IInv, NEW c \in RecordCalls,
         FindsNothing(c) \/ \E op \in {"update", "delete"}, r \in RowIds : FindsRow(c, op, r)
  PROVE  IInv'
<1> USE DEF IInv, RecordsTypeOK, LooksTyped
<1>1. CASE FindsNothing(c)
  <2>1. recordCalls' = [recordCalls EXCEPT ![c] = [op |-> "insert", row |-> None]]
        /\ records = {} /\ UNCHANGED <<kind, records, usedRows>>
        /\ parallel' = (parallel \/ \E d \in RecordCalls : recordCalls[d].op = "insert")
    BY <1>1 DEF FindsNothing, Look
  <2>2. RecordsTypeOK' /\ LooksTyped'
    BY <2>1
  <2>3. Single'
    BY <2>1 DEF Single
  <2>4. ~parallel' => AloneInserting'
    BY <2>1 DEF AloneInserting
  <2> QED
    BY <2>2, <2>3, <2>4
<1>2. ASSUME NEW op \in {"update", "delete"}, NEW r \in RowIds, FindsRow(c, op, r)
      PROVE  IInv'
  <2>1. recordCalls' = [recordCalls EXCEPT ![c] = [op |-> op, row |-> r]]
        /\ UNCHANGED <<kind, records, usedRows, parallel>>
    BY <1>2 DEF FindsRow, Look
  <2>2. RecordsTypeOK' /\ LooksTyped'
    BY <2>1
  <2>3. (Single => Single') /\ (AloneInserting => AloneInserting')
    BY <2>1 DEF Single, AloneInserting
  <2> QED
    BY <2>1, <2>2, <2>3
<1> QED
  BY <1>1, <1>2

\* An insert commits into an empty table: the unique index, or its being alone,
\* says so.
LEMMA CommitInsertKeeps ==
  ASSUME IInv, NEW c \in RecordCalls, NEW r \in RowIds, CommitInsertRow(c, r)
  PROVE  IInv'
<1> USE DEF IInv, RecordsTypeOK, LooksTyped
<1>1. recordCalls[c].op = "insert" /\ (kind \in OwnRow => records = {})
      /\ recordCalls' = [recordCalls EXCEPT ![c] = NoLook]
      /\ records' = records \cup {r} /\ usedRows' = usedRows \cup {r}
      /\ UNCHANGED <<kind, parallel>>
  BY DEF CommitInsertRow, IndexAllows, Written
<1>2. RecordsTypeOK' /\ LooksTyped'
  BY <1>1 DEF NoLook
<1>3. kind \in OwnRow => Single'
  BY <1>1 DEF Single
<1>4. ~parallel => Single' /\ AloneInserting'
  BY <1>1 DEF Single, AloneInserting, NoLook
<1> QED
  BY <1>1, <1>2, <1>3, <1>4

\* The other ends of a request add no row and start no insert.
LEMMA LookEndKeeps ==
  ASSUME IInv, NEW c \in RecordCalls, CommitRow(c) \/ LookFails(c)
  PROVE  IInv'
<1> USE DEF IInv, RecordsTypeOK, LooksTyped
<1>1. recordCalls' = [recordCalls EXCEPT ![c] = NoLook]
      /\ records' \subseteq records /\ UNCHANGED <<kind, usedRows, parallel>>
  BY DEF CommitRow, LookFails, Written
<1>2. RecordsTypeOK' /\ LooksTyped'
  BY <1>1 DEF NoLook
<1>3. (Single => Single') /\ (AloneInserting => AloneInserting')
  BY <1>1 DEF Single, AloneInserting, NoLook
<1> QED
  BY <1>1, <1>2, <1>3

\* Every state satisfies the inductive invariant.
THEOREM RecordsInvariance == RecordsSpec => []IInv
<1>1. RecordsInit => IInv
  <2> SUFFICES ASSUME RecordsInit
               PROVE  IInv
    OBVIOUS
  <2> USE DEF RecordsInit
  <2>1. LooksTyped
    BY DEF LooksTyped, NoLook
  <2>2. RecordsTypeOK
    BY <2>1 DEF LooksTyped, RecordsTypeOK
  <2>3. Single /\ AloneInserting
    BY DEF Single, AloneInserting, NoLook
  <2> QED
    BY <2>1, <2>2, <2>3 DEF IInv
<1>2. IInv /\ [RecordsNext]_recordsVars => IInv'
  <2> SUFFICES ASSUME IInv, [RecordsNext]_recordsVars
               PROVE  IInv'
    OBVIOUS
  <2>1. ASSUME NEW c \in RecordCalls,
               \/ GetSettings(c) \/ UpdateSettings(c) \/ GetProfile(c) \/ UpdateProfile(c)
               \/ GetMyCode(c) \/ GetCard(c)
               \/ AddFavorite(c) \/ RemoveFavorite(c)
               \/ ApplyReferral(c) \/ RegisterFleet(c) \/ AddMechanic(c)
        PROVE  IInv'
    <3>1. FindsNothing(c) \/ \E op \in {"update", "delete"}, r \in RowIds : FindsRow(c, op, r)
      BY <2>1 DEF GetSettings, UpdateSettings, GetProfile, UpdateProfile, GetMyCode, GetCard,
                  AddFavorite, RemoveFavorite, ApplyReferral, RegisterFleet, AddMechanic
    <3> QED
      BY <3>1, LookKeeps
  <2>2. ASSUME NEW c \in RecordCalls, NEW r \in RowIds, CommitInsertRow(c, r)
        PROVE  IInv'
    BY <2>2, CommitInsertKeeps
  <2>3. ASSUME NEW c \in RecordCalls, CommitRow(c) \/ LookFails(c)
        PROVE  IInv'
    BY <2>3, LookEndKeeps
  <2>4. CASE UNCHANGED recordsVars
    BY <2>4 DEF recordsVars, IInv, RecordsTypeOK, LooksTyped, Single, AloneInserting
  <2> QED
    BY <2>1, <2>2, <2>3, <2>4 DEF RecordsNext
<1> QED
  BY <1>1, <1>2, PTL DEF RecordsSpec

\* No user has two rows of a kind whose user_id is unique, and two of another kind
\* only after two inserts in flight together.
THEOREM OwnRowsAreSingle == RecordsSpec => []NeverDoubled
<1>1. IInv => NeverDoubled
  BY SingleCount DEF IInv, NeverDoubled, Single
<1> QED
  BY <1>1, RecordsInvariance, PTL

\* The rows, and the requests between their look and their commit.
THEOREM RecordsTyped == RecordsSpec => []RecordsTypeOK
<1>1. IInv => RecordsTypeOK
  BY DEF IInv
<1> QED
  BY <1>1, RecordsInvariance, PTL

=============================================================================
