--------------------------- MODULE DisputesProofs ---------------------------
(***************************************************************************)
(* Theorems about Disputes, for any number of admins and of acts: what     *)
(* commits is in the audit trail (ChangesAudited), the texts of the        *)
(* dispute tell what was done (DisputeTold), and the row keeps its types.  *)
(***************************************************************************)
EXTENDS Disputes, TLAPS

------------------------------------------------------------------------------
(* The trail.                                                              *)

\* A request that may commit has been through the trail.
AuditedIsLogged ==
  \A c \in DisputeCalls :
    disputeCalls[c].step = "audited" => disputeCalls[c].act \in audit \cup unlogged

\* The shape of the requests, as far as the trail looks at it.
DisputeSteps ==
  /\ disputeCalls = [c \in DisputeCalls |-> disputeCalls[c]]
  /\ \A c \in DisputeCalls : {"step", "act"} \subseteq DOMAIN disputeCalls[c]

TrailInv == DisputeSteps /\ AuditedIsLogged /\ ChangesAudited

\* Every handler starts a request that is not yet in the trail.
LEMMA HandleKeeps ==
  ASSUME TrailInv, NEW c \in DisputeCalls, NEW op, NEW a, NEW edited, Handle(c, op, a, edited)
  PROVE  TrailInv'
<1> DEFINE call == [step |-> "handled", op |-> op, act |-> a,
                    texts |-> {text \in Texts : edited[text] # dispute[text]},
                    changes |-> OrmChanges(dispute, edited)]
<1>1. disputeCalls' = [disputeCalls EXCEPT ![c] = call]
      /\ UNCHANGED <<audit, unlogged, applied>>
  BY DEF Handle
<1>2. call.step = "handled" /\ {"step", "act"} \subseteq DOMAIN call
  OBVIOUS
<1> HIDE DEF call
<1> QED
  BY <1>1, <1>2 DEF TrailInv, DisputeSteps, AuditedIsLogged, ChangesAudited

\* The trail is written, or the failure noted, before the request may commit.
LEMMA WriteAuditKeeps ==
  ASSUME TrailInv, NEW c \in DisputeCalls, WriteAudit(c)
  PROVE  TrailInv'
<1>1. disputeCalls' = [disputeCalls EXCEPT ![c].step = "audited"]
      /\ audit \subseteq audit' /\ unlogged \subseteq unlogged' /\ applied' = applied
      /\ disputeCalls[c].act \in audit' \cup unlogged'
  BY DEF WriteAudit
<1>2. disputeCalls'[c] = [disputeCalls[c] EXCEPT !.step = "audited"]
      /\ \A d \in DisputeCalls : d # c => disputeCalls'[d] = disputeCalls[d]
  BY <1>1 DEF TrailInv, DisputeSteps
<1>3. DOMAIN disputeCalls'[c] = DOMAIN disputeCalls[c] /\ disputeCalls'[c].act = disputeCalls[c].act
  BY <1>2 DEF TrailInv, DisputeSteps
<1>4. DisputeSteps'
  BY <1>1, <1>2, <1>3 DEF TrailInv, DisputeSteps
<1>5. AuditedIsLogged'
  BY <1>1, <1>2, <1>3 DEF TrailInv, AuditedIsLogged
<1> QED
  BY <1>1, <1>4, <1>5 DEF TrailInv, ChangesAudited

\* What commits has been through the trail.
LEMMA CommitKeeps ==
  ASSUME TrailInv, NEW c \in DisputeCalls, CommitDispute(c)
  PROVE  TrailInv'
<1>1. disputeCalls[c].act \in audit \cup unlogged
  BY DEF CommitDispute, Committable, TrailInv, AuditedIsLogged
<1>2. disputeCalls' = [disputeCalls EXCEPT ![c] = NoAct]
      /\ applied' = applied \cup {disputeCalls[c].act} /\ UNCHANGED <<audit, unlogged>>
  BY DEF CommitDispute
<1> QED
  BY <1>1, <1>2 DEF TrailInv, DisputeSteps, AuditedIsLogged, ChangesAudited, NoAct

\* An end without a commit leaves the trail as it is.
LEMMA FailureKeeps ==
  ASSUME TrailInv, (\E c \in DisputeCalls : DisputeCallFails(c)) \/ JobDeleted
  PROVE  TrailInv'
<1>1. CASE JobDeleted
  BY <1>1 DEF JobDeleted, TrailInv, DisputeSteps, AuditedIsLogged, ChangesAudited
<1>2. ASSUME NEW c \in DisputeCalls, DisputeCallFails(c)
      PROVE  TrailInv'
  BY <1>2 DEF DisputeCallFails, TrailInv, DisputeSteps, AuditedIsLogged, ChangesAudited, NoAct
<1> QED
  BY <1>1, <1>2

\* Whatever an admin changed in a dispute is in the audit trail, or its writing
\* failed, however many admins there are.
THEOREM NoSilentChange == DisputesSpec => []ChangesAudited
<1>1. DisputesInit => TrailInv
  BY DEF DisputesInit, TrailInv, DisputeSteps, AuditedIsLogged, ChangesAudited, NoAct
<1>2. TrailInv /\ [DisputesNext]_disputesVars => TrailInv'
  <2> SUFFICES ASSUME TrailInv, [DisputesNext]_disputesVars
               PROVE  TrailInv'
    OBVIOUS
  <2>1. ASSUME NEW c \in DisputeCalls, NEW a \in Acts, NEW status \in DisputeStatus,
               UpdateDispute(c, a, status)
        PROVE  TrailInv'
    BY <2>1, HandleKeeps DEF UpdateDispute
  <2>2. ASSUME NEW c \in DisputeCalls, NEW a \in Acts,
               RefundDispute(c, a) \/ PenalizeProvider(c, a) \/ MessageDisputeParties(c, a)
        PROVE  TrailInv'
    BY <2>2, HandleKeeps DEF RefundDispute, PenalizeProvider, MessageDisputeParties
  <2>3. ASSUME NEW c \in DisputeCalls, WriteAudit(c) \/ CommitDispute(c)
        PROVE  TrailInv'
    BY <2>3, WriteAuditKeeps, CommitKeeps
  <2>4. CASE (\E c \in DisputeCalls : DisputeCallFails(c)) \/ JobDeleted
    BY <2>4, FailureKeeps
  <2>5. CASE UNCHANGED disputesVars
    BY <2>5 DEF disputesVars, TrailInv, DisputeSteps, AuditedIsLogged, ChangesAudited
  <2> QED
    BY <2>1, <2>2, <2>3, <2>4, <2>5 DEF DisputesNext
<1>3. TrailInv => ChangesAudited
  BY DEF TrailInv
<1> QED
  BY <1>1, <1>2, <1>3, PTL DEF DisputesSpec

------------------------------------------------------------------------------
(* The texts.                                                              *)

DisputeColumns == {"status", "notes", "resolution", "resolved_at"}

\* The row and what it and the books tell.
Known ==
  /\ dispute = [x \in DisputeColumns |-> dispute[x]]
  /\ dispute # NoDispute => dispute.status # None
  /\ dispute.resolution \cup dispute.notes \cup standing \cup sent \subseteq applied

\* Every act is in one request at most, and before its commit.
Fresh ==
  \A c \in DisputeCalls : disputeCalls[c] # NoAct =>
    /\ disputeCalls[c].act \notin applied
    /\ \A d \in DisputeCalls \ {c} : disputeCalls[d] # NoAct => disputeCalls[d].act # disputeCalls[c].act

\* Which texts a request writes, and out of which acts.
Edits(c) ==
  LET call == disputeCalls[c] IN
  /\ DOMAIN call = DOMAIN NoAct
  /\ "status" \in DOMAIN call.changes => call.changes.status # None
  /\ call.texts = Texts \cap DOMAIN call.changes
  /\ "resolution" \in call.texts <=> call.op \in {"resolve", "refund", "penalize"}
  /\ "notes" \in call.texts <=> call.op = "message"
  /\ \A x \in call.texts : call.changes[x] \subseteq applied \cup {call.act}
  /\ call.op = "resolve" => call.changes.resolution = {call.act}

\* A request that extends a text nobody else has in hand has read it as it is.
UpToDate(c) ==
  LET call == disputeCalls[c] IN
  dispute # NoDispute =>
    /\ call.op \in {"refund", "penalize"} /\ "resolution" \notin tangled =>
         call.changes.resolution = dispute.resolution \cup {call.act}
    /\ call.op = "message" /\ "notes" \notin tangled => call.changes.notes = dispute.notes \cup {call.act}

\* Two requests with one text in hand have been noticed.
Noticed ==
  \A c, d \in DisputeCalls : c # d => disputeCalls[c].texts \cap disputeCalls[d].texts \subseteq tangled

\* A flushed row is locked: it does not go away before the commit.
LockHolds == \A c \in DisputeCalls : disputeCalls[c].step = "audited" /\ Changes(c) => dispute # NoDispute

ToldInv ==
  /\ disputeCalls = [c \in DisputeCalls |-> disputeCalls[c]]
  /\ Known /\ Fresh /\ Noticed /\ LockHolds /\ DisputeTold
  /\ \A c \in DisputeCalls : Edits(c) /\ UpToDate(c)

\* What the handlers make of the texts.
EditOf(op, a, edited) ==
  /\ DOMAIN edited = DisputeColumns /\ edited.status # None
  /\ op \in {"update", "resolve", "refund", "penalize", "message"}
  /\ edited.resolution = CASE op \in {"refund", "penalize"} -> dispute.resolution \cup {a}
                           [] op = "resolve" -> {a}
                           [] OTHER -> dispute.resolution
  /\ edited.notes = IF op = "message" THEN dispute.notes \cup {a} ELSE dispute.notes

LEMMA HandlersEdit ==
  ASSUME Known, dispute # NoDispute, NEW c \in DisputeCalls, NEW a \in Acts,
         \/ \E status \in DisputeStatus : UpdateDispute(c, a, status)
         \/ RefundDispute(c, a) \/ PenalizeProvider(c, a) \/ MessageDisputeParties(c, a)
  PROVE  \E op, edited : EditOf(op, a, edited) /\ Handle(c, op, a, edited)
<1>1. dispute = [x \in DisputeColumns |-> dispute[x]] /\ dispute.status # None
  BY DEF Known
<1> USE DisputesAssumption
<1>2. ASSUME NEW status \in DisputeStatus, UpdateDispute(c, a, status)
      PROVE  \E op, edited : EditOf(op, a, edited) /\ Handle(c, op, a, edited)
  <2> DEFINE edited == [dispute EXCEPT !.status = status, !.resolved_at = @ \/ Closing(status)]
             resolved == [edited EXCEPT !.resolution = {a}]
  <2>1. EditOf("update", a, edited) /\ EditOf("resolve", a, resolved)
    BY <1>1 DEF EditOf, DisputeColumns, DisputeStatus
  <2> QED
    BY <1>2, <2>1 DEF UpdateDispute
<1>3. EditOf("refund", a, Resolved(a)) /\ EditOf("penalize", a, Resolved(a))
  BY <1>1 DEF EditOf, DisputeColumns, DisputeStatus, Resolved
<1>4. EditOf("message", a, [dispute EXCEPT !.notes = @ \cup {a}])
  BY <1>1 DEF EditOf, DisputeColumns
<1> QED
  BY <1>2, <1>3, <1>4 DEF RefundDispute, PenalizeProvider, MessageDisputeParties

\* A request that begins.
LEMMA HandleTells ==
  ASSUME ToldInv, NEW c \in DisputeCalls, NEW a \in Acts, NEW op, NEW edited,
         EditOf(op, a, edited), Handle(c, op, a, edited)
  PROVE  ToldInv'
<1> DEFINE texts == {text \in Texts : edited[text] # dispute[text]}
           changes == OrmChanges(dispute, edited)
           call == [step |-> "handled", op |-> op, act |-> a, texts |-> texts, changes |-> changes]
<1>1. /\ disputeCalls' = [disputeCalls EXCEPT ![c] = call]
      /\ tangled' = tangled \cup (texts \cap UNION {disputeCalls[d].texts : d \in DisputeCalls})
      /\ dispute # NoDispute /\ disputeCalls[c] = NoAct /\ a \notin Begun
      /\ UNCHANGED <<dispute, applied, standing, sent>>
  BY DEF Handle
<1>2. disputeCalls'[c] = call /\ \A d \in DisputeCalls \ {c} : disputeCalls'[d] = disputeCalls[d]
  BY <1>1 DEF ToldInv
<1>3. /\ dispute = [x \in DisputeColumns |-> dispute[x]]
      /\ dispute.resolution \cup dispute.notes \subseteq applied /\ a \notin applied
  BY <1>1 DEF ToldInv, Known, Begun
<1>4. /\ DOMAIN changes = {x \in DisputeColumns : edited[x] # dispute[x]}
      /\ \A x \in DOMAIN changes : changes[x] = edited[x]
  BY <1>3 DEF OrmChanges
<1>5. "resolution" \in DisputeColumns /\ "notes" \in DisputeColumns /\ Texts = {"resolution", "notes"}
  BY DEF DisputeColumns, Texts
<1>6. /\ "resolution" \in texts <=> op \in {"resolve", "refund", "penalize"}
      /\ "notes" \in texts <=> op = "message"
  BY <1>3, <1>5 DEF EditOf
<1>7. texts = Texts \cap DOMAIN changes
  BY <1>4, <1>5
<1>8. \A x \in texts : changes[x] = edited[x]
  BY <1>4, <1>7
<1>9. call.step = "handled" /\ call.op = op /\ call.act = a /\ call.texts = texts /\ call.changes = changes
  OBVIOUS
<1> HIDE DEF texts, changes, call
<1>10. Edits(c)'
  <2>1. DOMAIN call = DOMAIN NoAct
    BY DEF call, NoAct
  <2>2. "status" \in DOMAIN changes => changes.status # None
    BY <1>4 DEF EditOf
  <2> QED
    BY <2>1, <2>2, <1>1, <1>2, <1>3, <1>5, <1>6, <1>7, <1>8, <1>9 DEF Edits, EditOf
<1>11. UpToDate(c)'
  BY <1>1, <1>2, <1>6, <1>8, <1>9 DEF UpToDate, EditOf
<1>12. ASSUME NEW d \in DisputeCalls
       PROVE  Edits(d)' /\ UpToDate(d)'
  <2>1. CASE d = c
    BY <1>10, <1>11, <2>1
  <2>2. CASE d # c
    <3>1. disputeCalls'[d] = disputeCalls[d] /\ tangled \subseteq tangled'
      BY <1>1, <1>2, <2>2
    <3>2. Edits(d) /\ UpToDate(d)
      BY DEF ToldInv
    <3>3. Edits(d)'
      BY <1>1, <3>1, <3>2 DEF Edits
    <3>4. UpToDate(d)'
      BY <1>1, <3>1, <3>2 DEF UpToDate
    <3> QED
      BY <3>3, <3>4
  <2> QED
    BY <2>1, <2>2
<1>13. Fresh'
  BY <1>1, <1>2, <1>3, <1>9 DEF ToldInv, Fresh, Begun
<1>14. Noticed'
  BY <1>1, <1>2, <1>9 DEF ToldInv, Noticed
<1>15. LockHolds'
  BY <1>1, <1>2, <1>9 DEF ToldInv, LockHolds, Changes
<1>16. DisputeTold' /\ Known'
  BY <1>1 DEF ToldInv, DisputeTold, Known
<1>17. disputeCalls' = [d \in DisputeCalls |-> disputeCalls'[d]]
  BY <1>1 DEF ToldInv
<1> QED
  BY <1>12, <1>13, <1>14, <1>15, <1>16, <1>17 DEF ToldInv

\* A request that flushes and writes its record only moves on.
LEMMA WriteAuditTells ==
  ASSUME ToldInv, NEW c \in DisputeCalls, WriteAudit(c)
  PROVE  ToldInv'
<1>1. /\ disputeCalls' = [disputeCalls EXCEPT ![c].step = "audited"]
      /\ UNCHANGED <<dispute, applied, standing, sent, tangled>>
      /\ disputeCalls[c].step = "handled" /\ (Changes(c) => dispute # NoDispute)
  BY DEF WriteAudit
<1>2. /\ \A d \in DisputeCalls \ {c} : disputeCalls'[d] = disputeCalls[d]
      /\ disputeCalls'[c] = [disputeCalls[c] EXCEPT !.step = "audited"]
  BY <1>1 DEF ToldInv
<1>3. ASSUME NEW d \in DisputeCalls
      PROVE  /\ disputeCalls'[d].op = disputeCalls[d].op
             /\ disputeCalls'[d].act = disputeCalls[d].act
             /\ disputeCalls'[d].texts = disputeCalls[d].texts
             /\ disputeCalls'[d].changes = disputeCalls[d].changes
             /\ DOMAIN disputeCalls'[d] = DOMAIN disputeCalls[d]
  <2>1. DOMAIN disputeCalls[d] = {"step", "op", "act", "texts", "changes"}
    BY DEF ToldInv, Edits, NoAct
  <2> QED
    BY <1>2, <2>1
<1>4. \A d \in DisputeCalls : disputeCalls'[d] # NoAct => disputeCalls[d] # NoAct
  BY <1>1, <1>2 DEF NoAct
<1>5. Fresh'
  BY <1>1, <1>3, <1>4 DEF ToldInv, Fresh
<1>6. ASSUME NEW d \in DisputeCalls
      PROVE  Edits(d)' /\ UpToDate(d)'
  <2>1. Edits(d) /\ UpToDate(d)
    BY DEF ToldInv
  <2>2. Edits(d)'
    BY <1>1, <1>3, <2>1 DEF Edits
  <2>3. UpToDate(d)'
    BY <1>1, <1>3, <2>1 DEF UpToDate
  <2> QED
    BY <2>2, <2>3
<1>7. Noticed'
  BY <1>1, <1>3 DEF ToldInv, Noticed
<1>8. LockHolds'
  BY <1>1, <1>2, <1>3 DEF ToldInv, LockHolds, Changes
<1>9. Known' /\ DisputeTold'
  BY <1>1 DEF ToldInv, Known, DisputeTold
<1>10. disputeCalls' = [d \in DisputeCalls |-> disputeCalls'[d]]
  BY <1>1 DEF ToldInv
<1> QED
  BY <1>5, <1>6, <1>7, <1>8, <1>9, <1>10 DEF ToldInv

\* What requests in flight need of the row, when c ends.
LEMMA EndTells ==
  ASSUME ToldInv, NEW c \in DisputeCalls, disputeCalls' = [disputeCalls EXCEPT ![c] = NoAct],
         tangled' = tangled, applied \subseteq applied', applied' \subseteq applied \cup {disputeCalls[c].act},
         disputeCalls[c] # NoAct \/ applied' = applied,
         dispute' # NoDispute => /\ dispute # NoDispute
                                 /\ \A x \in Texts \ disputeCalls[c].texts : dispute'[x] = dispute[x],
         dispute' = NoDispute => dispute = NoDispute
  PROVE  /\ disputeCalls' = [d \in DisputeCalls |-> disputeCalls'[d]]
         /\ Fresh' /\ Noticed' /\ LockHolds'
         /\ \A d \in DisputeCalls : Edits(d)' /\ UpToDate(d)'
<1>1. disputeCalls'[c] = NoAct /\ \A d \in DisputeCalls \ {c} : disputeCalls'[d] = disputeCalls[d]
  BY DEF ToldInv
<1>2. Fresh'
  BY <1>1 DEF ToldInv, Fresh
<1>3. Noticed'
  BY <1>1 DEF ToldInv, Noticed, NoAct
<1>4. LockHolds'
  BY <1>1 DEF ToldInv, LockHolds, Changes, NoAct
<1>5. ASSUME NEW d \in DisputeCalls
      PROVE  Edits(d)' /\ UpToDate(d)'
  <2>1. CASE d = c
    <3>1. /\ NoAct.texts = {} /\ NoAct.op = "none" /\ NoAct.changes = << >> /\ DOMAIN NoAct.changes = {}
      BY DEF NoAct
    <3> QED
      BY <1>1, <2>1, <3>1 DEF Edits, UpToDate
  <2>2. CASE d # c
    <3>1. /\ disputeCalls'[d] = disputeCalls[d] /\ Edits(d) /\ UpToDate(d)
          /\ disputeCalls[d].texts \cap disputeCalls[c].texts \subseteq tangled
      BY <1>1, <2>2 DEF ToldInv, Noticed
    <3>2. Edits(d)'
      BY <3>1 DEF Edits
    <3>3. "resolution" \in Texts /\ "notes" \in Texts
      BY DEF Texts
    <3>4. UpToDate(d)'
      BY <3>1, <3>3 DEF Edits, UpToDate
    <3> QED
      BY <3>2, <3>4
  <2> QED
    BY <2>1, <2>2
<1>6. disputeCalls' = [d \in DisputeCalls |-> disputeCalls'[d]]
  BY DEF ToldInv
<1> QED
  BY <1>2, <1>3, <1>4, <1>5, <1>6

\* A request that commits.
LEMMA CommitTells ==
  ASSUME ToldInv, NEW c \in DisputeCalls, CommitDispute(c)
  PROVE  ToldInv'
<1> DEFINE call == disputeCalls[c]
           act == call.act
           changes == call.changes
<1>1. /\ call.step = "audited"
      /\ dispute' = OrmFlush(dispute, changes) /\ applied' = applied \cup {act}
      /\ standing' = CASE call.op = "resolve" -> {act}
                       [] call.op \in {"refund", "penalize"} -> standing \cup {act}
                       [] OTHER -> standing
      /\ sent' = sent \cup {a \in {act} : call.op = "message"}
      /\ disputeCalls' = [disputeCalls EXCEPT ![c] = NoAct] /\ tangled' = tangled
  BY DEF CommitDispute, Committable
<1>2. /\ dispute = [x \in DisputeColumns |-> dispute[x]]
      /\ dispute.resolution \cup dispute.notes \cup standing \cup sent \subseteq applied
  BY DEF ToldInv, Known
<1>3. /\ dispute' = [x \in DisputeColumns |-> dispute'[x]]
      /\ \A x \in DisputeColumns : dispute'[x] = IF x \in DOMAIN changes THEN changes[x] ELSE dispute[x]
  BY <1>1, <1>2 DEF OrmFlush
<1>4. Edits(c) /\ UpToDate(c) /\ call # NoAct
  BY <1>1 DEF ToldInv, NoAct
<1>5. /\ call.texts = {"resolution", "notes"} \cap DOMAIN changes
      /\ "resolution" \in call.texts <=> call.op \in {"resolve", "refund", "penalize"}
      /\ "notes" \in call.texts <=> call.op = "message"
      /\ \A x \in call.texts : changes[x] \subseteq applied'
      /\ call.op = "resolve" => changes.resolution = {act}
  BY <1>1, <1>4 DEF Edits, Texts
<1>6. "resolution" \in DisputeColumns /\ "notes" \in DisputeColumns /\ Texts = {"resolution", "notes"}
  BY DEF DisputeColumns, Texts
<1>7. dispute = NoDispute => dispute' = NoDispute
  <2>1. dispute = NoDispute => DOMAIN changes = {}
    BY <1>1 DEF ToldInv, LockHolds, Changes
  <2> QED
    BY <1>2, <1>3, <2>1
<1> HIDE DEF call, act, changes
<1>8. dispute.resolution \subseteq applied' /\ dispute.notes \subseteq applied'
  BY <1>1, <1>2
<1>9. /\ dispute'.resolution = IF "resolution" \in call.texts THEN changes.resolution ELSE dispute.resolution
      /\ dispute'.notes = IF "notes" \in call.texts THEN changes.notes ELSE dispute.notes
  BY <1>3, <1>5, <1>6
<1>10. standing' \cup sent' \subseteq applied'
  BY <1>1, <1>2
<1>11. /\ dispute # NoDispute => dispute'.status # None
       /\ dispute' = NoDispute => dispute = NoDispute
  <2>1. "status" \in DisputeColumns /\ NoDispute.status = None
    BY DEF DisputeColumns, NoDispute
  <2>2. "status" \in DOMAIN changes => changes.status # None
    BY <1>4 DEF Edits, changes, call
  <2> QED
    BY <1>3, <2>1, <2>2 DEF ToldInv, Known
<1>12. Known'
  BY <1>3, <1>5, <1>7, <1>8, <1>9, <1>10, <1>11 DEF Known
<1>13. dispute' # NoDispute => DisputeTold'
  <2> SUFFICES ASSUME dispute' # NoDispute
               PROVE  DisputeTold'
    OBVIOUS
  <2>1. /\ "resolution" \in tangled \/ dispute.resolution = standing
        /\ "notes" \in tangled \/ dispute.notes = sent
        /\ call.op \in {"refund", "penalize"} /\ "resolution" \notin tangled =>
             changes.resolution = dispute.resolution \cup {act}
        /\ call.op = "message" /\ "notes" \notin tangled => changes.notes = dispute.notes \cup {act}
    BY <1>4, <1>7 DEF ToldInv, DisputeTold, UpToDate, call, act, changes
  <2>2. "resolution" \in tangled \/ dispute'.resolution = standing'
    BY <1>1, <1>5, <1>9, <2>1
  <2>3. "notes" \in tangled \/ dispute'.notes = sent'
    BY <1>1, <1>5, <1>9, <2>1
  <2> QED
    BY <1>1, <2>2, <2>3 DEF DisputeTold
<1>14. dispute' = NoDispute => DisputeTold'
  BY DEF DisputeTold
<1>15. \A x \in Texts \ call.texts : dispute'[x] = dispute[x]
  BY <1>6, <1>9
<1> QED
  BY <1>1, <1>4, <1>7, <1>12, <1>13, <1>14, <1>15, <1>11, EndTells DEF ToldInv, call, act

\* The strengthening holds from the start on.
THEOREM ToldInvariance == DisputesSpec => []ToldInv
<1>1. DisputesInit => ToldInv
  <2> SUFFICES ASSUME DisputesInit
               PROVE  ToldInv
    OBVIOUS
  <2>1. \A c \in DisputeCalls : disputeCalls[c] = NoAct
    BY DEF DisputesInit
  <2>2. /\ dispute = [NoDispute EXCEPT !.status = "open"]
        /\ dispute = [x \in DisputeColumns |-> dispute[x]] /\ dispute.status = "open"
        /\ dispute.resolution = {} /\ dispute.notes = {}
    BY DEF DisputesInit, NoDispute, DisputeColumns
  <2>3. NoAct.step = "idle" /\ NoAct.texts = {} /\ NoAct.op = "none" /\ DOMAIN NoAct.changes = {}
    BY DEF NoAct
  <2>4. Known /\ DisputeTold
    BY <2>2, DisputesAssumption DEF DisputesInit, Known, DisputeTold, DisputeStatus
  <2>5. Fresh /\ Noticed /\ LockHolds
    BY <2>1, <2>3 DEF Fresh, Noticed, LockHolds
  <2>6. \A c \in DisputeCalls : Edits(c) /\ UpToDate(c)
    BY <2>1, <2>3 DEF Edits, UpToDate
  <2> QED
    BY <2>4, <2>5, <2>6 DEF DisputesInit, ToldInv
<1>2. ToldInv /\ [DisputesNext]_disputesVars => ToldInv'
  <2> SUFFICES ASSUME ToldInv, [DisputesNext]_disputesVars
               PROVE  ToldInv'
    OBVIOUS
  <2>1. ASSUME NEW c \in DisputeCalls, NEW a \in Acts,
               \/ \E status \in DisputeStatus : UpdateDispute(c, a, status)
               \/ RefundDispute(c, a) \/ PenalizeProvider(c, a) \/ MessageDisputeParties(c, a)
        PROVE  ToldInv'
    <3>1. dispute # NoDispute
      BY <2>1 DEF UpdateDispute, RefundDispute, PenalizeProvider, MessageDisputeParties, Handle
    <3> QED
      BY <2>1, <3>1, HandlersEdit, HandleTells DEF ToldInv
  <2>2. ASSUME NEW c \in DisputeCalls, WriteAudit(c) \/ CommitDispute(c)
        PROVE  ToldInv'
    BY <2>2, WriteAuditTells, CommitTells
  <2>3. ASSUME NEW c \in DisputeCalls, DisputeCallFails(c)
        PROVE  ToldInv'
    <3>1. /\ disputeCalls' = [disputeCalls EXCEPT ![c] = NoAct]
          /\ UNCHANGED <<dispute, applied, standing, sent, tangled>>
      BY <2>3 DEF DisputeCallFails
    <3>2. Known' /\ DisputeTold'
      BY <3>1 DEF ToldInv, Known, DisputeTold
    <3> QED
      BY <3>1, <3>2, EndTells DEF ToldInv
  <2>4. CASE JobDeleted
    <3>1. /\ dispute' = NoDispute /\ UNCHANGED <<disputeCalls, applied, standing, sent, tangled>>
          /\ ~Locked
      BY <2>4 DEF JobDeleted
    <3>2. /\ NoDispute = [x \in DisputeColumns |-> NoDispute[x]]
          /\ NoDispute.resolution = {} /\ NoDispute.notes = {}
      BY DEF NoDispute, DisputeColumns
    <3>3. Known' /\ DisputeTold'
      BY <3>1, <3>2 DEF ToldInv, Known, DisputeTold
    <3>4. Fresh' /\ Noticed' /\ LockHolds'
      BY <3>1 DEF ToldInv, Fresh, Noticed, LockHolds, Locked, Changes
    <3>5. ASSUME NEW c \in DisputeCalls
          PROVE  Edits(c)' /\ UpToDate(c)'
      BY <3>1 DEF ToldInv, Edits, UpToDate
    <3> QED
      BY <3>1, <3>3, <3>4, <3>5 DEF ToldInv
  <2>5. CASE UNCHANGED disputesVars
    <3>1. UNCHANGED <<dispute, disputeCalls, applied, standing, sent, tangled>>
      BY <2>5 DEF disputesVars
    <3> QED
      BY <3>1 DEF ToldInv, Known, Fresh, Noticed, LockHolds, Changes, DisputeTold, Edits, UpToDate
  <2> QED
    BY <2>1, <2>2, <2>3, <2>4, <2>5 DEF DisputesNext
<1> QED
  BY <1>1, <1>2, PTL DEF DisputesSpec

\* However handlers, commits, failures and the deletion of the job interleave, the
\* texts of a dispute tell what was done, unless two requests had one in hand at
\* the same time.
THEOREM DisputesTold == DisputesSpec => []DisputeTold
<1>1. ToldInv => DisputeTold
  BY DEF ToldInv
<1> QED
  BY <1>1, ToldInvariance, PTL

------------------------------------------------------------------------------
(* Types.                                                                  *)

\* What a request writes is of the columns' types, and one that closes the dispute
\* also says when, unless the row it has read did so already.
TypedAct(c) ==
  LET call == disputeCalls[c]
      written == DOMAIN call.changes
  IN
  /\ call.step \in {"idle", "handled", "audited"}
  /\ call = NoAct \/ call.act \in Acts
  /\ written \subseteq DisputeColumns
  /\ "status" \in written => call.changes.status \in DisputeStatus
  /\ "notes" \in written => call.changes.notes \subseteq Acts
  /\ "resolution" \in written => call.changes.resolution \subseteq Acts
  /\ "resolved_at" \in written => call.changes.resolved_at = TRUE
  /\ dispute # NoDispute /\ "status" \in written /\ Closing(call.changes.status) =>
       "resolved_at" \in written \/ dispute.resolved_at

RowTyped ==
  /\ dispute \in DisputeRow \cup {NoDispute}
  /\ Closing(dispute.status) => dispute.resolved_at

TrailTyped == audit \cup unlogged \cup applied \subseteq Acts /\ tangled \subseteq Texts

DisputeTypes == RowTyped /\ TrailTyped /\ \A c \in DisputeCalls : TypedAct(c)

\* What the handlers make of the row is a row, and one that is closed says when.
EditedWell(edited) ==
  /\ edited \in DisputeRow
  /\ Closing(edited.status) => edited.resolved_at
  /\ dispute.resolved_at => edited.resolved_at

LEMMA HandlersEditWell ==
  ASSUME DisputeTypes, dispute # NoDispute, NEW c \in DisputeCalls, NEW a \in Acts,
         \/ \E status \in DisputeStatus : UpdateDispute(c, a, status)
         \/ RefundDispute(c, a) \/ PenalizeProvider(c, a) \/ MessageDisputeParties(c, a)
  PROVE  \E op, edited : EditedWell(edited) /\ Handle(c, op, a, edited)
<1>1. dispute \in DisputeRow /\ (Closing(dispute.status) => dispute.resolved_at)
  BY DEF DisputeTypes, RowTyped
<1>2. ASSUME NEW status \in DisputeStatus, UpdateDispute(c, a, status)
      PROVE  \E op, edited : EditedWell(edited) /\ Handle(c, op, a, edited)
  <2> DEFINE at == dispute.resolved_at \/ Closing(status)
             edited == [dispute EXCEPT !.status = status, !.resolved_at = @ \/ Closing(status)]
             resolved == [edited EXCEPT !.resolution = {a}]
  <2>1. at \in BOOLEAN /\ (Closing(status) => at) /\ (dispute.resolved_at => at)
    OBVIOUS
  <2>2. edited = [dispute EXCEPT !.status = status, !.resolved_at = at]
    BY <1>1, Zenon DEF DisputeRow
  <2> HIDE DEF at, edited
  <2>3. EditedWell(edited)
    BY <1>1, <2>1, <2>2 DEF EditedWell, DisputeRow
  <2>4. EditedWell(resolved)
    BY <1>1, <2>1, <2>2 DEF EditedWell, DisputeRow
  <2> QED
    BY <1>2, <2>3, <2>4 DEF UpdateDispute, edited
<1>3. EditedWell(Resolved(a))
  BY <1>1 DEF EditedWell, DisputeRow, DisputeStatus, Resolved
<1>4. EditedWell([dispute EXCEPT !.notes = @ \cup {a}])
  BY <1>1 DEF EditedWell, DisputeRow
<1> QED
  BY <1>2, <1>3, <1>4 DEF RefundDispute, PenalizeProvider, MessageDisputeParties

\* A request that begins.
LEMMA HandleTyped ==
  ASSUME DisputeTypes, ToldInv, NEW c \in DisputeCalls, NEW a \in Acts, NEW op, NEW edited,
         EditedWell(edited), Handle(c, op, a, edited)
  PROVE  DisputeTypes'
<1> DEFINE texts == {text \in Texts : edited[text] # dispute[text]}
           changes == OrmChanges(dispute, edited)
           call == [step |-> "handled", op |-> op, act |-> a, texts |-> texts, changes |-> changes]
<1>1. /\ dispute # NoDispute /\ dispute \in DisputeRow
      /\ disputeCalls' = [disputeCalls EXCEPT ![c] = call]
      /\ tangled' = tangled \cup (texts \cap UNION {disputeCalls[d].texts : d \in DisputeCalls})
      /\ UNCHANGED <<dispute, audit, unlogged, applied, standing, sent>>
  BY DEF Handle, DisputeTypes, RowTyped
<1>2. /\ DOMAIN changes = {x \in DisputeColumns : edited[x] # dispute[x]}
      /\ \A x \in DOMAIN changes : changes[x] = edited[x]
  BY <1>1 DEF OrmChanges, DisputeRow, DisputeColumns
<1>3. /\ edited["status"] \in DisputeStatus /\ edited["notes"] \subseteq Acts
      /\ edited["resolution"] \subseteq Acts /\ edited["resolved_at"] \in BOOLEAN
      /\ dispute["resolved_at"] \in BOOLEAN
  BY <1>1 DEF EditedWell, DisputeRow
<1>4. {"status", "notes", "resolution", "resolved_at"} \subseteq DisputeColumns
  BY DEF DisputeColumns
<1>5. call.step = "handled" /\ call.act = a /\ call.changes = changes
  OBVIOUS
<1> HIDE DEF changes, call
<1>6. "resolved_at" \in DOMAIN changes => changes["resolved_at"] = TRUE
  BY <1>2, <1>3 DEF EditedWell
<1>7. Closing(edited.status) => "resolved_at" \in DOMAIN changes \/ dispute.resolved_at
  BY <1>2, <1>3, <1>4 DEF EditedWell
<1>8. disputeCalls'[c] = call /\ \A d \in DisputeCalls \ {c} : disputeCalls'[d] = disputeCalls[d]
  BY <1>1 DEF ToldInv
<1>9. TypedAct(c)'
  BY <1>1, <1>2, <1>3, <1>5, <1>6, <1>7, <1>8 DEF TypedAct
<1>10. \A d \in DisputeCalls \ {c} : TypedAct(d)'
  BY <1>1, <1>8 DEF DisputeTypes, TypedAct
<1>11. TrailTyped'
  BY <1>1 DEF DisputeTypes, TrailTyped
<1> QED
  BY <1>1, <1>9, <1>10, <1>11 DEF DisputeTypes, RowTyped

LEMMA WriteAuditTyped ==
  ASSUME DisputeTypes, ToldInv, NEW c \in DisputeCalls, WriteAudit(c)
  PROVE  DisputeTypes'
<1>1. /\ disputeCalls[c].step = "handled"
      /\ disputeCalls' = [disputeCalls EXCEPT ![c].step = "audited"]
      /\ audit' \cup unlogged' = audit \cup unlogged \cup {disputeCalls[c].act}
      /\ UNCHANGED <<dispute, applied, standing, sent, tangled>>
  BY DEF WriteAudit
<1>2. DOMAIN disputeCalls[c] = DOMAIN NoAct
  BY DEF ToldInv, Edits
<1>3. /\ disputeCalls'[c].step = "audited" /\ disputeCalls'[c].act = disputeCalls[c].act
      /\ disputeCalls'[c].changes = disputeCalls[c].changes
      /\ \A d \in DisputeCalls \ {c} : disputeCalls'[d] = disputeCalls[d]
  BY <1>1, <1>2 DEF ToldInv, NoAct
<1>4. disputeCalls[c].act \in Acts
  BY <1>1 DEF DisputeTypes, TypedAct, NoAct
<1>5. TypedAct(c)'
  BY <1>1, <1>3, <1>4 DEF DisputeTypes, TypedAct
<1>6. \A d \in DisputeCalls \ {c} : TypedAct(d)'
  BY <1>1, <1>3 DEF DisputeTypes, TypedAct
<1> QED
  BY <1>1, <1>4, <1>5, <1>6 DEF DisputeTypes, TrailTyped, RowTyped

\* Requests that end without a write leave the others typed, for a row that is gone
\* too.
LEMMA EndTyped ==
  ASSUME DisputeTypes, ToldInv, NEW c \in DisputeCalls, disputeCalls' = [disputeCalls EXCEPT ![c] = NoAct],
         dispute' # NoDispute => dispute # NoDispute /\ (dispute.resolved_at => dispute'.resolved_at)
  PROVE  \A d \in DisputeCalls : TypedAct(d)'
<1>1. NoAct.step = "idle" /\ DOMAIN NoAct.changes = {}
  BY DEF NoAct
<1>2. disputeCalls'[c] = NoAct /\ \A d \in DisputeCalls \ {c} : disputeCalls'[d] = disputeCalls[d]
  BY DEF ToldInv
<1>3. TypedAct(c)'
  BY <1>1, <1>2 DEF TypedAct
<1>4. \A d \in DisputeCalls \ {c} : TypedAct(d)'
  BY <1>2 DEF DisputeTypes, TypedAct
<1> QED
  BY <1>3, <1>4

LEMMA CommitTyped ==
  ASSUME DisputeTypes, ToldInv, NEW c \in DisputeCalls, CommitDispute(c)
  PROVE  DisputeTypes'
<1> DEFINE changes == disputeCalls[c].changes
<1>1. /\ disputeCalls[c].step = "audited" /\ dispute' = OrmFlush(dispute, changes)
      /\ applied' = applied \cup {disputeCalls[c].act}
      /\ disputeCalls' = [disputeCalls EXCEPT ![c] = NoAct]
      /\ UNCHANGED <<audit, unlogged, tangled>>
  BY DEF CommitDispute, Committable
<1>2. TypedAct(c) /\ disputeCalls[c].act \in Acts
  BY <1>1 DEF DisputeTypes, TypedAct, NoAct
<1>3. dispute = [x \in DisputeColumns |-> dispute[x]]
  BY DEF ToldInv, Known
<1>4. dispute' = [x \in DisputeColumns |-> IF x \in DOMAIN changes THEN changes[x] ELSE dispute[x]]
  BY <1>1, <1>3 DEF OrmFlush
<1>5. CASE DOMAIN changes = {}
  <2>1. dispute' = dispute
    BY <1>3, <1>4, <1>5
  <2>2. \A d \in DisputeCalls : TypedAct(d)'
    BY <1>1, <2>1, EndTyped
  <2> QED
    BY <1>1, <1>2, <2>1, <2>2 DEF DisputeTypes, RowTyped, TrailTyped
<1>6. CASE DOMAIN changes # {}
  <2>1. dispute # NoDispute /\ dispute \in DisputeRow
    BY <1>1, <1>6 DEF ToldInv, LockHolds, Changes, DisputeTypes, RowTyped
  <2>2. /\ dispute["status"] \in DisputeStatus /\ dispute["notes"] \subseteq Acts
        /\ dispute["resolution"] \subseteq Acts /\ dispute["resolved_at"] \in BOOLEAN
        /\ Closing(dispute["status"]) => dispute["resolved_at"]
    BY <2>1 DEF DisputeRow, DisputeTypes, RowTyped
  <2>3. /\ "status" \in DOMAIN changes => changes["status"] \in DisputeStatus
        /\ "notes" \in DOMAIN changes => changes["notes"] \subseteq Acts
        /\ "resolution" \in DOMAIN changes => changes["resolution"] \subseteq Acts
        /\ "resolved_at" \in DOMAIN changes => changes["resolved_at"] = TRUE
        /\ "status" \in DOMAIN changes /\ Closing(changes["status"]) =>
             "resolved_at" \in DOMAIN changes \/ dispute["resolved_at"]
    BY <1>2, <2>1 DEF TypedAct
  <2> HIDE DEF changes
  <2>4. /\ dispute'["status"] = IF "status" \in DOMAIN changes THEN changes["status"] ELSE dispute["status"]
        /\ dispute'["notes"] = IF "notes" \in DOMAIN changes THEN changes["notes"] ELSE dispute["notes"]
        /\ dispute'["resolution"] =
             IF "resolution" \in DOMAIN changes THEN changes["resolution"] ELSE dispute["resolution"]
        /\ dispute'["resolved_at"] =
             IF "resolved_at" \in DOMAIN changes THEN changes["resolved_at"] ELSE dispute["resolved_at"]
        /\ dispute' = [x \in DisputeColumns |-> dispute'[x]]
    BY <1>4 DEF DisputeColumns
  <2>5. /\ dispute'["status"] \in DisputeStatus /\ dispute'["notes"] \subseteq Acts
        /\ dispute'["resolution"] \subseteq Acts /\ dispute'["resolved_at"] \in BOOLEAN
    BY <2>2, <2>3, <2>4
  <2>6. dispute'["resolved_at"] = TRUE \/ dispute'["resolved_at"] = dispute["resolved_at"]
    BY <2>3, <2>4
  <2>7. Closing(dispute'["status"]) => dispute'["resolved_at"]
    BY <2>2, <2>3, <2>4, <2>6
  <2>8. dispute' \in DisputeRow
    BY <2>4, <2>5 DEF DisputeColumns, DisputeRow
  <2>9. \A d \in DisputeCalls : TypedAct(d)'
    BY <1>1, <2>1, <2>6, EndTyped
  <2> QED
    BY <1>1, <1>2, <2>7, <2>8, <2>9 DEF DisputeTypes, RowTyped, TrailTyped
<1> QED
  BY <1>5, <1>6

\* The dispute, the trail and the books keep their types, and a dispute that was
\* closed says when, whatever requests have written the two columns.
THEOREM DisputesTyped == DisputesSpec => []DisputesTypeOK
<1>1. DisputesInit => DisputeTypes
  <2> SUFFICES ASSUME DisputesInit
               PROVE  DisputeTypes
    OBVIOUS
  <2>1. \A c \in DisputeCalls : disputeCalls[c] = NoAct
    BY DEF DisputesInit
  <2>2. NoAct.step = "idle" /\ DOMAIN NoAct.changes = {}
    BY DEF NoAct
  <2>3. \A c \in DisputeCalls : TypedAct(c)
    BY <2>1, <2>2 DEF TypedAct
  <2>4. RowTyped /\ TrailTyped
    BY DEF DisputesInit, NoDispute, DisputeRow, DisputeStatus, Closing, RowTyped, TrailTyped
  <2> QED
    BY <2>3, <2>4 DEF DisputeTypes
<1>2. DisputeTypes /\ ToldInv /\ [DisputesNext]_disputesVars => DisputeTypes'
  <2> SUFFICES ASSUME DisputeTypes, ToldInv, [DisputesNext]_disputesVars
               PROVE  DisputeTypes'
    OBVIOUS
  <2>1. ASSUME NEW c \in DisputeCalls, NEW a \in Acts,
               \/ \E status \in DisputeStatus : UpdateDispute(c, a, status)
               \/ RefundDispute(c, a) \/ PenalizeProvider(c, a) \/ MessageDisputeParties(c, a)
        PROVE  DisputeTypes'
    <3>1. dispute # NoDispute
      BY <2>1 DEF UpdateDispute, RefundDispute, PenalizeProvider, MessageDisputeParties, Handle
    <3> QED
      BY <2>1, <3>1, HandlersEditWell, HandleTyped
  <2>2. ASSUME NEW c \in DisputeCalls, DisputeCallFails(c)
        PROVE  DisputeTypes'
    <3>1. /\ disputeCalls' = [disputeCalls EXCEPT ![c] = NoAct]
          /\ UNCHANGED <<dispute, audit, unlogged, applied, standing, sent, tangled>>
      BY <2>2 DEF DisputeCallFails
    <3>2. \A d \in DisputeCalls : TypedAct(d)'
      BY <3>1, EndTyped
    <3> QED
      BY <3>1, <3>2 DEF DisputeTypes, RowTyped, TrailTyped
  <2>3. CASE JobDeleted
    <3>1. dispute' = NoDispute /\ UNCHANGED <<disputeCalls, audit, unlogged, applied, standing, sent, tangled>>
      BY <2>3 DEF JobDeleted
    <3>2. ~Closing(NoDispute.status)
      BY DisputesAssumption DEF NoDispute, Closing, DisputeStatus
    <3> QED
      BY <3>1, <3>2 DEF DisputeTypes, RowTyped, TrailTyped, TypedAct
  <2>4. CASE UNCHANGED disputesVars
    BY <2>4 DEF disputesVars, DisputeTypes, RowTyped, TrailTyped, TypedAct
  <2> QED
    BY <2>1, <2>2, <2>3, <2>4, WriteAuditTyped, CommitTyped DEF DisputesNext
<1>3. DisputeTypes /\ ToldInv => DisputesTypeOK
  BY DEF DisputeTypes, RowTyped, TrailTyped, TypedAct, ToldInv, Known, Closing, DisputesTypeOK, NoDispute, DisputeColumns
<1> QED
  BY <1>1, <1>2, <1>3, ToldInvariance, PTL DEF DisputesSpec

=============================================================================
