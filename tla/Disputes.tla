------------------------------ MODULE Disputes ------------------------------
(***************************************************************************)
(* One dispute in the hands of the admins (backend/app/api/v1/admin.py,    *)
(* update_dispute to message_dispute_parties), and the audit trail that    *)
(* the decorator of these handlers keeps (api/audit.py).  What a refund    *)
(* does to the payments is in Payments, the penalty in Providers.  The two *)
(* texts of a dispute are the sets of requests that are put down in them.  *)
(***************************************************************************)
EXTENDS FiniteSets, Orm

CONSTANTS
  Acts,          \* what admins ask for; each is asked once
  DisputeCalls   \* requests that can be in flight

DisputeStatus == {"open", "investigating", "resolved", "dismissed"}

ASSUME DisputesAssumption == None \notin Acts \cup DisputeStatus

VARIABLES
  dispute,       \* the row in disputes; NoDispute once the job is deleted
  disputeCalls,  \* requests between their read and their commit
  audit,         \* audit_logs: the acts with a row
  unlogged,      \* acts whose row could not be written, which is only logged
  applied,       \* acts that have committed
  standing,      \* of them, what the resolution should tell
  sent,          \* of them, the messages to the parties
  tangled        \* texts that two requests in flight together have both edited

disputesVars == <<dispute, disputeCalls, audit, unlogged, applied, standing, sent, tangled>>

DisputeRow ==
  [status : DisputeStatus, notes : SUBSET Acts, resolution : SUBSET Acts, resolved_at : BOOLEAN]
NoDispute == [status |-> None, notes |-> {}, resolution |-> {}, resolved_at |-> FALSE]
Texts == {"notes", "resolution"}
NoAct == [step |-> "idle", op |-> "none", act |-> None, texts |-> {}, changes |-> << >>]
Begun == applied \cup audit \cup unlogged \cup {disputeCalls[c].act : c \in DisputeCalls}

\* A dispute that was closed says when.
DisputesTypeOK ==
  /\ dispute \in DisputeRow \cup {NoDispute}
  /\ dispute.status \in {"resolved", "dismissed"} => dispute.resolved_at
  /\ \A c \in DisputeCalls :
       /\ disputeCalls[c].step \in {"idle", "handled", "audited"}
       /\ DOMAIN disputeCalls[c].changes \subseteq DOMAIN NoDispute
  /\ audit \cup unlogged \cup applied \subseteq Acts
  /\ standing \cup sent \subseteq applied
  /\ tangled \subseteq Texts

DisputesInit ==
  /\ dispute = [NoDispute EXCEPT !.status = "open"]
  /\ disputeCalls = [c \in DisputeCalls |-> NoAct]
  /\ audit = {} /\ unlogged = {} /\ applied = {} /\ standing = {} /\ sent = {} /\ tangled = {}

------------------------------------------------------------------------------
(* The handlers.                                                           *)

\* The row is read and edited.
Handle(c, op, a, edited) ==
  LET texts == {text \in Texts : edited[text] # dispute[text]} IN
  /\ dispute # NoDispute
  /\ disputeCalls[c] = NoAct /\ a \notin Begun
  /\ disputeCalls' = [disputeCalls EXCEPT ![c] =
       [step |-> "handled", op |-> op, act |-> a, texts |-> texts,
        changes |-> OrmChanges(dispute, edited)]]
  /\ tangled' = tangled \cup (texts \cap UNION {disputeCalls[d].texts : d \in DisputeCalls})
  /\ UNCHANGED <<dispute, audit, unlogged, applied, standing, sent>>

Closing(status) == status \in {"resolved", "dismissed"}

\* Any status may follow any other; a resolution that comes along replaces the text.
UpdateDispute(c, a, status) ==
  LET edited == [dispute EXCEPT !.status = status, !.resolved_at = @ \/ Closing(status)] IN
  \/ Handle(c, "update", a, edited)
  \/ Handle(c, "resolve", a, [edited EXCEPT !.resolution = {a}])

Resolved(a) ==
  [dispute EXCEPT !.status = "resolved", !.resolution = @ \cup {a}, !.resolved_at = TRUE]

RefundDispute(c, a)    == Handle(c, "refund", a, Resolved(a))
PenalizeProvider(c, a) == Handle(c, "penalize", a, Resolved(a))

MessageDisputeParties(c, a) == Handle(c, "message", a, [dispute EXCEPT !.notes = @ \cup {a}])

\* The flush of a request that changes the row locks it until the commit.
Changes(c) == DOMAIN disputeCalls[c].changes # {}
Locked == \E c \in DisputeCalls : disputeCalls[c].step = "audited" /\ Changes(c)

\* The handler flushes and returns (an UPDATE of a row that is gone is a
\* StaleDataError).  Then a session of its own writes and commits the row of the
\* trail; what goes wrong there is swallowed.
WriteAudit(c) ==
  LET call == disputeCalls[c] IN
  /\ call.step = "handled"
  /\ Changes(c) => dispute # NoDispute /\ ~Locked
  /\ \/ audit' = audit \cup {call.act} /\ UNCHANGED unlogged
     \/ unlogged' = unlogged \cup {call.act} /\ UNCHANGED audit
  /\ disputeCalls' = [disputeCalls EXCEPT ![c].step = "audited"]
  /\ UNCHANGED <<dispute, applied, standing, sent, tangled>>

\* Defect variant: the trail is written in the background.
Committable_Background(call) == call.step \in {"handled", "audited"}

\* get_db commits when the decorated handler has returned.
Committable(call) == call.step = "audited"

CommitDispute(c) ==
  LET call == disputeCalls[c] IN
  /\ Committable(call)
  /\ dispute' = OrmFlush(dispute, call.changes)
  /\ applied' = applied \cup {call.act}
  /\ standing' = CASE call.op = "resolve" -> {call.act}
                   [] call.op \in {"refund", "penalize"} -> standing \cup {call.act}
                   [] OTHER -> standing
  /\ sent' = sent \cup {a \in {call.act} : call.op = "message"}
  /\ disputeCalls' = [disputeCalls EXCEPT ![c] = NoAct]
  /\ UNCHANGED <<audit, unlogged, tangled>>

\* The session is lost, or the row is gone; a row of the trail stays.
DisputeCallFails(c) ==
  /\ disputeCalls[c] # NoAct
  /\ disputeCalls' = [disputeCalls EXCEPT ![c] = NoAct]
  /\ UNCHANGED <<dispute, audit, unlogged, applied, standing, sent, tangled>>

\* delete_job, by a party of the job, takes its dispute along.
JobDeleted ==
  /\ dispute # NoDispute /\ ~Locked
  /\ dispute' = NoDispute
  /\ UNCHANGED <<disputeCalls, audit, unlogged, applied, standing, sent, tangled>>

DisputesNext ==
  \/ \E c \in DisputeCalls :
       \/ \E a \in Acts :
            \/ \E status \in DisputeStatus : UpdateDispute(c, a, status)
            \/ RefundDispute(c, a) \/ PenalizeProvider(c, a) \/ MessageDisputeParties(c, a)
       \/ WriteAudit(c) \/ CommitDispute(c) \/ DisputeCallFails(c)
  \/ JobDeleted

DisputesSpec == DisputesInit /\ [][DisputesNext]_disputesVars

------------------------------------------------------------------------------
(* Properties.                                                             *)

\* The resolution tells every refund and penalty since an admin last wrote it, and
\* the notes every message, whatever other requests came in between: a message that
\* read the dispute before a refund does not put the old resolution back.  (Two
\* requests in flight together that extend the same text lose one of the two.)
DisputeTold ==
  dispute # NoDispute =>
    /\ "resolution" \in tangled \/ dispute.resolution = standing
    /\ "notes" \in tangled \/ dispute.notes = sent

\* What an admin has changed is in the audit trail, unless the trail could not be
\* written: a crash never comes between the change and its record.  (It may come
\* after the record, which then tells of something that did not happen.)
ChangesAudited == applied \subseteq audit \cup unlogged

=============================================================================
