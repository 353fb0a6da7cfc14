-------------------------------- MODULE Chat --------------------------------
(***************************************************************************)
(* The chat of one job: the /ws handler of backend/app/main.py, the        *)
(* sockets of backend/app/ws/manager.py and the history endpoint.  The     *)
(* handler of a socket takes one message at a time; between any two of its *)
(* awaits the others run.  For each party of the job it copies the party's *)
(* sockets, sends to one after the other and at the end takes those out of *)
(* the map whose send has failed.  Left out are the superusers, who may    *)
(* write in every chat, and the deletion of the job.                       *)
(***************************************************************************)
EXTENDS Naturals, Sequences, FiniteSets, Orm

CONSTANTS
  Customer,
  Helpers,      \* users of the mechanics and garages the job can be assigned to
  SocketIds,
  Messages      \* ids of chat messages; one is never given twice

Talkers == {Customer} \cup Helpers

ASSUME ChatAssumption == Customer \notin Helpers /\ None \notin Talkers \cup Messages

VARIABLES
  assigned,    \* the user of the job's provider
  chat,        \* chat_messages of the job
  owner,       \* the user at the other end of each socket
  registered,  \* sockets in _user_sockets
  dead,        \* sockets whose client has gone without a word
  handlers,    \* what the handler of each socket is doing
  caughtUp,    \* sockets whose client has fetched the history since it connected
  shown,       \* messages the client of each socket shows
  addressed    \* whom each message that was dealt with was for

chatVars == <<assigned, chat, owner, registered, dead, handlers, caughtUp, shown, addressed>>

\* A handler at the start of a stage of its message; between messages, at 0.
Beginning(k, m, h) ==
  [at |-> k, message |-> m, provider |-> h, copied |-> FALSE, to |-> {}, broken |-> {}]
Receiving == Beginning(0, None, None)
Connected == {s \in SocketIds : owner[s] # None}
Used == {m \in Messages : addressed[m] # {}} \cup chat \cup {handlers[s].message : s \in SocketIds}

ChatTypeOK ==
  /\ assigned \in Helpers
  /\ chat \subseteq Messages
  /\ owner \in [SocketIds -> Talkers \cup {None}]
  /\ registered \cup dead \cup caughtUp \subseteq Connected
  /\ \A s \in SocketIds :
       /\ handlers[s].at \in 0..3 /\ (handlers[s].at > 0 => s \in Connected)
       /\ handlers[s].to \cup handlers[s].broken \subseteq Connected
       /\ shown[s] \subseteq Messages
  /\ addressed \in [Messages -> SUBSET Talkers]

ChatInit ==
  /\ assigned \in Helpers
  /\ chat = {} /\ registered = {} /\ dead = {} /\ caughtUp = {}
  /\ owner = [s \in SocketIds |-> None]
  /\ handlers = [s \in SocketIds |-> Receiving]
  /\ shown = [s \in SocketIds |-> {}]
  /\ addressed = [m \in Messages |-> {}]

MayTalk(u) == u \in {Customer, assigned}

------------------------------------------------------------------------------
(* Connections.                                                            *)

\* _authenticate_ws checks the token and the user once, here; connect_user accepts
\* the socket and puts it into the map.
Connect(s, u) ==
  /\ s \notin Connected
  /\ owner' = [owner EXCEPT ![s] = u]
  /\ registered' = registered \cup {s}
  /\ UNCHANGED <<assigned, chat, dead, handlers, caughtUp, shown, addressed>>

\* Sends to the socket fail from now on; the client shows nothing any more.
ClientDies(s) ==
  /\ s \in Connected \ dead
  /\ dead' = dead \cup {s} /\ caughtUp' = caughtUp \ {s}
  /\ shown' = [shown EXCEPT ![s] = {}]
  /\ UNCHANGED <<assigned, chat, owner, registered, handlers, addressed>>

\* A socket that is closed may still be in a copy: the send to it fails, and there
\* is nothing of it in the map to take out.
Closed(S) ==
  /\ owner' = [s \in SocketIds |-> IF s \in S THEN None ELSE owner[s]]
  /\ registered' = registered \ S /\ dead' = dead \ S /\ caughtUp' = caughtUp \ S
  /\ handlers' = [s \in SocketIds |->
       IF s \in S THEN Receiving ELSE [handlers[s] EXCEPT !.to = @ \ S, !.broken = @ \ S]]
  /\ shown' = [s \in SocketIds |-> IF s \in S THEN {} ELSE shown[s]]
  /\ UNCHANGED <<assigned, chat, addressed>>

\* WebSocketDisconnect at the next receive; or an error of the database in the
\* midst of a message, which ends the handler.
Disconnect(s) == s \in Connected /\ Closed({s})

ServerRestarts == Connected # {} /\ Closed(SocketIds)

\* GET /api/chat/history/{job_id}
FetchHistory(s) ==
  /\ s \in Connected \ dead /\ MayTalk(owner[s])
  /\ shown' = [shown EXCEPT ![s] = @ \cup chat]
  /\ caughtUp' = caughtUp \cup {s}
  /\ UNCHANGED <<assigned, chat, owner, registered, dead, handlers, addressed>>

\* force_assign_job
Reassign ==
  /\ assigned' \in Helpers \ {assigned}
  /\ UNCHANGED <<chat, owner, registered, dead, handlers, caughtUp, shown, addressed>>

------------------------------------------------------------------------------
(* A message.                                                              *)

\* The handler reads the job: its parties may write, and are whom the message
\* will go to.
ReceiveMessage(s, m) ==
  /\ s \in Connected \ dead /\ handlers[s].at = 0
  /\ m \notin Used
  /\ MayTalk(owner[s])
  /\ handlers' = [handlers EXCEPT ![s] = Beginning(1, m, assigned)]
  /\ UNCHANGED <<assigned, chat, owner, registered, dead, caughtUp, shown, addressed>>

\* Defect variant: the parties see the message before it is on record.
Stages_RelayFirst == <<"customer", "provider", "store">>

\* "Persist + relay."
Stages == <<"store", "customer", "provider">>

StageOf(s) == Stages[handlers[s].at]
Recipient(s) == IF StageOf(s) = "customer" THEN Customer ELSE handlers[s].provider

NextStage(s) ==
  IF handlers[s].at = 3
  THEN /\ handlers' = [handlers EXCEPT ![s] = Receiving]
       /\ addressed' = [addressed EXCEPT ![handlers[s].message] = {Customer, handlers[s].provider}]
  ELSE /\ handlers' = [handlers EXCEPT ![s] =
            Beginning(handlers[s].at + 1, handlers[s].message, handlers[s].provider)]
       /\ UNCHANGED addressed

StoreMessage(s) ==
  /\ handlers[s].at > 0 /\ StageOf(s) = "store"
  /\ chat' = chat \cup {handlers[s].message}
  /\ NextStage(s)
  /\ UNCHANGED <<assigned, owner, registered, dead, caughtUp, shown>>

\* send_json_to_user: the copy of the sockets, under the lock,
CopySockets(s) ==
  /\ handlers[s].at > 0 /\ StageOf(s) # "store" /\ ~handlers[s].copied
  /\ handlers' = [handlers EXCEPT ![s] =
       [handlers[s] EXCEPT !.copied = TRUE, !.to = {d \in registered : owner[d] = Recipient(s)}]]
  /\ UNCHANGED <<assigned, chat, owner, registered, dead, caughtUp, shown, addressed>>

\* one send after the other, in any order, each an await,
SendCopy(s, d) ==
  /\ d \in handlers[s].to
  /\ handlers' = [handlers EXCEPT ![s] =
       [handlers[s] EXCEPT !.to = @ \ {d}, !.broken = @ \cup ({d} \cap dead)]]
  /\ shown' = IF d \in dead THEN shown
              ELSE [shown EXCEPT ![d] = @ \cup {handlers[s].message}]
  /\ UNCHANGED <<assigned, chat, owner, registered, dead, caughtUp, addressed>>

\* and the removal of those that failed.
RemoveBroken(s) ==
  /\ handlers[s].copied /\ handlers[s].to = {}
  /\ registered' = registered \ handlers[s].broken
  /\ NextStage(s)
  /\ UNCHANGED <<assigned, chat, owner, dead, caughtUp, shown>>

ChatNext ==
  \/ \E s \in SocketIds :
       \/ \E u \in Talkers : Connect(s, u)
       \/ ClientDies(s) \/ Disconnect(s) \/ FetchHistory(s)
       \/ \E m \in Messages : ReceiveMessage(s, m)
       \/ StoreMessage(s) \/ CopySockets(s) \/ RemoveBroken(s)
       \/ \E d \in SocketIds : SendCopy(s, d)
  \/ ServerRestarts
  \/ Reassign

ChatSpec == ChatInit /\ [][ChatNext]_chatVars

------------------------------------------------------------------------------
(* Properties.                                                             *)

\* A client that has fetched the history after it connected misses nothing that
\* was for its user, except a message that is still on its way or whose handler
\* broke down, whatever clients came, went or died between the copy of the sockets
\* and the last send; and nobody is shown a message that is not on record.
ChatAgrees ==
  \A s \in Connected :
    /\ shown[s] \subseteq chat
    /\ s \in caughtUp \ dead => {m \in Messages : owner[s] \in addressed[m]} \subseteq shown[s]

=============================================================================
