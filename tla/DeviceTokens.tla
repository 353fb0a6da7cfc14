---------------------------- MODULE DeviceTokens ----------------------------
(***************************************************************************)
(* The push tokens of one user's devices (backend/app/api/v1/              *)
(* device_tokens.py) and the batches that send to them from the worker     *)
(* (services/push_service.py, called by dispatch_offer_push in             *)
(* tasks/worker.py).  A token registered by another user is refused for    *)
(* good, so each belongs to its first user.                                *)
(***************************************************************************)
EXTENDS FiniteSets, Orm

CONSTANTS
  PushTokens,   \* device_tokens.token, which is unique
  TokenCalls,   \* requests that can be in flight
  Batches       \* push tasks that can run at a time

VARIABLES
  deviceTokens,  \* the row of each token
  tokenCalls,    \* requests between their read and their commit
  batches,       \* push tasks: the tokens still to send to, those FCM has refused
  uninstalled,   \* tokens FCM refuses as unregistered
  said,          \* what the last request or task that committed said of each token
  crossing       \* tokens that two requests or tasks have held at the same time

deviceTokensVars == <<deviceTokens, tokenCalls, batches, uninstalled, said, crossing>>

NoToken == [is_active |-> FALSE, platform |-> None]
NoTokenCall == [op |-> "idle", token |-> None]
Asleep == [running |-> FALSE, todo |-> {}, refused |-> {}]
Held == {tokenCalls[c].token : c \in TokenCalls} \cup UNION {batches[b].todo \cup batches[b].refused : b \in Batches}

DeviceTokensTypeOK ==
  /\ deviceTokens \in [PushTokens -> {NoToken} \cup [is_active : BOOLEAN, platform : {"android", "web"}]]
  /\ \A c \in TokenCalls : tokenCalls[c].op \in {"idle", "insert", "update"}
  /\ \A b \in Batches : /\ batches[b].todo \cap batches[b].refused = {}
                        /\ batches[b].todo \cup batches[b].refused \subseteq PushTokens
                        /\ ~batches[b].running => batches[b] = Asleep
  /\ said \in [PushTokens -> BOOLEAN]
  /\ uninstalled \subseteq PushTokens /\ crossing \subseteq PushTokens

DeviceTokensInit ==
  /\ deviceTokens = [t \in PushTokens |-> NoToken]
  /\ tokenCalls = [c \in TokenCalls |-> NoTokenCall]
  /\ batches = [b \in Batches |-> Asleep]
  /\ uninstalled = {} /\ crossing = {}
  /\ said = [t \in PushTokens |-> FALSE]

------------------------------------------------------------------------------
(* The requests.                                                           *)

AskToken(c, op, t, says, changes) ==
  /\ tokenCalls[c] = NoTokenCall
  /\ tokenCalls' = [tokenCalls EXCEPT ![c] = [op |-> op, token |-> t, says |-> says, changes |-> changes]]
  /\ crossing' = crossing \cup ({t} \cap Held)
  /\ UNCHANGED <<deviceTokens, batches, uninstalled, said>>

\* Defect variant: a token that is registered again stays as inactive as it was.
Refreshed_PlatformOnly(row, platform) == [row EXCEPT !.platform = platform]

\* "Reactivate and update platform"
Refreshed(row, platform) == [row EXCEPT !.is_active = TRUE, !.platform = platform]

RegisterDeviceToken(c, t, platform) ==
  LET row == deviceTokens[t] IN
  \/ /\ row = NoToken
     /\ AskToken(c, "insert", t, TRUE, [is_active |-> TRUE, platform |-> platform])
  \/ /\ row # NoToken
     /\ AskToken(c, "update", t, TRUE, OrmChanges(row, Refreshed(row, platform)))

\* A soft delete, of a row of the user's own.
UnregisterDeviceToken(c, t) ==
  LET row == deviceTokens[t] IN
  /\ row # NoToken
  /\ AskToken(c, "update", t, FALSE, OrmChanges(row, [row EXCEPT !.is_active = FALSE]))

\* The flush of a batch has locked the row until its commit.
RowLocked(t) == \E b \in Batches : t \in batches[b].refused

CommitToken(c) ==
  LET call == tokenCalls[c] IN
  /\ call.op # "idle"
  /\ call.op = "insert" => deviceTokens[call.token] = NoToken   \* the unique index
  /\ DOMAIN call.changes # {} => ~RowLocked(call.token)
  /\ deviceTokens' = [deviceTokens EXCEPT ![call.token] = OrmFlush(@, call.changes)]
  /\ said' = [said EXCEPT ![call.token] = call.says]
  /\ tokenCalls' = [tokenCalls EXCEPT ![c] = NoTokenCall]
  /\ UNCHANGED <<batches, uninstalled, crossing>>

TokenCallFails(c) ==
  /\ tokenCalls[c] # NoTokenCall
  /\ tokenCalls' = [tokenCalls EXCEPT ![c] = NoTokenCall]
  /\ UNCHANGED <<deviceTokens, batches, uninstalled, said, crossing>>

------------------------------------------------------------------------------
(* The batches.                                                            *)

\* The task reads the active tokens of the provider's user.
LoadTokens(b) ==
  LET active == {t \in PushTokens : deviceTokens[t].is_active} IN
  /\ ~batches[b].running /\ active # {}
  /\ batches' = [batches EXCEPT ![b] = [running |-> TRUE, todo |-> active, refused |-> {}]]
  /\ crossing' = crossing \cup (active \cap Held)
  /\ UNCHANGED <<deviceTokens, tokenCalls, uninstalled, said>>

\* send_new_offer_push: an unregistered token is deactivated and flushed, which
\* waits for the lock of the row.  It stays as it is where FCM takes the message or
\* is unavailable, and where the user wants no pushes.
SendNewOfferPush(b, t) ==
  /\ t \in batches[b].todo
  /\ \/ batches' = [batches EXCEPT ![b].todo = @ \ {t}]
     \/ /\ t \in uninstalled /\ ~RowLocked(t)
        /\ batches' = [batches EXCEPT ![b].todo = @ \ {t}, ![b].refused = @ \cup {t}]
  /\ UNCHANGED <<deviceTokens, tokenCalls, uninstalled, said, crossing>>

CommitBatch(b) ==
  LET batch == batches[b] IN
  /\ batch.running /\ batch.todo = {}
  /\ deviceTokens' = [t \in PushTokens |->
       IF t \in batch.refused THEN [deviceTokens[t] EXCEPT !.is_active = FALSE] ELSE deviceTokens[t]]
  /\ said' = [t \in PushTokens |-> said[t] /\ t \notin batch.refused]
  /\ batches' = [batches EXCEPT ![b] = Asleep]
  /\ UNCHANGED <<tokenCalls, uninstalled, crossing>>

\* The worker dies, or the database breaks a deadlock of two batches.
BatchFails(b) ==
  /\ batches[b].running
  /\ batches' = [batches EXCEPT ![b] = Asleep]
  /\ UNCHANGED <<deviceTokens, tokenCalls, uninstalled, said, crossing>>

Uninstall(t) ==
  /\ t \notin uninstalled
  /\ uninstalled' = uninstalled \cup {t}
  /\ UNCHANGED <<deviceTokens, tokenCalls, batches, said, crossing>>

DeviceTokensNext ==
  \/ \E c \in TokenCalls :
       \/ \E t \in PushTokens :
            \/ \E platform \in {"android", "web"} : RegisterDeviceToken(c, t, platform)
            \/ UnregisterDeviceToken(c, t)
       \/ CommitToken(c) \/ TokenCallFails(c)
  \/ \E b \in Batches :
       \/ LoadTokens(b) \/ CommitBatch(b) \/ BatchFails(b)
       \/ \E t \in PushTokens : SendNewOfferPush(b, t)
  \/ \E t \in PushTokens : Uninstall(t)

DeviceTokensSpec == DeviceTokensInit /\ [][DeviceTokensNext]_deviceTokensVars

------------------------------------------------------------------------------
(* Properties.                                                             *)

\* A device is pushed to or left alone as the last word on its token said, be it
\* the app's or FCM's, whatever failed in between: a registration brings back a
\* token that was unregistered or refused before.  (In flight together with a
\* batch, a registration that finds the token still active changes nothing, and
\* the batch then takes the token away.)
LastWordCounts ==
  \A t \in PushTokens \ crossing : deviceTokens[t].is_active = said[t]

=============================================================================
