--------------------------- MODULE PasswordReset ---------------------------
(***************************************************************************)
(* The forgotten password of one account (backend/app/api/v1/auth.py,      *)
(* forgot_password_request and forgot_password_reset).  A handler awaits   *)
(* Redis between its commands, so those of several handlers interleave; a  *)
(* handler may be cut off between any two of them.                         *)
(***************************************************************************)
EXTENDS Naturals, FiniteSets, Orm

CONSTANTS
  Codes,        \* reset codes; one is never drawn twice
  ResetCalls,   \* requests that can be in flight
  MaxAttempts,  \* 5
  MaxRequests   \* 3

ASSUME ResetAssumption ==
  /\ None \notin Codes /\ IsFiniteSet(ResetCalls)
  /\ MaxAttempts \in Nat \ {0} /\ MaxRequests \in Nat \ {0}

VARIABLES
  code,        \* reset:{email}
  attempts,    \* reset_attempts:{email}; 0 where there is no key
  requests,    \* reset_rate:{email}; 0 where there is no key
  drawn,       \* codes sent so far
  resetCalls,  \* requests between two steps
  guesses,     \* wrong codes compared with each code since it was mailed
  disturbed    \* two forgot_password_requests have overlapped, a wrong code was
               \* not counted because its request was cut off, or a reset has
               \* cleared the count of a code that was mailed after it

resetVars == <<code, attempts, requests, drawn, resetCalls, guesses, disturbed>>

Requesting == {"asked", "counted", "sent"}
Succeeding == {"right", "dropped", "cleared"}

NoReset == [step |-> "idle", attempts |-> 0, stored |-> None]

ResetTypeOK ==
  /\ code \in drawn \cup {None} /\ drawn \subseteq Codes
  /\ attempts \in 0..MaxAttempts + Cardinality(ResetCalls)
  /\ requests \in 0..MaxRequests + Cardinality(ResetCalls)
  /\ \A c \in ResetCalls :
       resetCalls[c].step \in {"idle", "admitted", "wrong", "last"} \cup Succeeding \cup Requesting
  /\ guesses \in [Codes -> Nat] /\ disturbed \in BOOLEAN

ResetInit ==
  /\ code = None
  /\ attempts = 0 /\ requests = 0 /\ drawn = {}
  /\ resetCalls = [c \in ResetCalls |-> NoReset]
  /\ guesses = [k \in Codes |-> 0] /\ disturbed = FALSE

Goto(c, call) == resetCalls' = [resetCalls EXCEPT ![c] = call]
At(c, step) == resetCalls[c].step = step

------------------------------------------------------------------------------
(* forgot_password_request                                                 *)

\* The check of the rate comes before the increment: requests in flight together
\* may all pass it.
AskRate(c) ==
  /\ At(c, "idle")
  /\ requests < MaxRequests
  /\ Goto(c, [NoReset EXCEPT !.step = "asked"])
  /\ disturbed' = (disturbed \/ \E d \in ResetCalls : resetCalls[d].step \in Requesting)
  /\ UNCHANGED <<code, attempts, requests, drawn, guesses>>

CountRequest(c) ==
  /\ At(c, "asked")
  /\ requests' = requests + 1
  /\ Goto(c, [NoReset EXCEPT !.step = "counted"])
  /\ UNCHANGED <<code, attempts, drawn, guesses, disturbed>>

SendCode(c, k) ==
  /\ At(c, "counted")
  /\ k \notin drawn
  /\ code' = k /\ drawn' = drawn \cup {k}
  /\ Goto(c, [NoReset EXCEPT !.step = "sent", !.stored = k])
  /\ UNCHANGED <<attempts, requests, guesses, disturbed>>

\* The mail goes out after this.
ForgetAttempts(c) ==
  /\ At(c, "sent")
  /\ attempts' = 0
  /\ guesses' = [guesses EXCEPT ![resetCalls[c].stored] = 0]
  /\ Goto(c, NoReset)
  /\ UNCHANGED <<code, requests, drawn, disturbed>>

------------------------------------------------------------------------------
(* forgot_password_reset                                                   *)

ReadAttempts(c) ==
  /\ At(c, "idle")
  /\ attempts < MaxAttempts
  /\ Goto(c, [NoReset EXCEPT !.step = "admitted", !.attempts = attempts])
  /\ UNCHANGED <<code, attempts, requests, drawn, guesses, disturbed>>

\* A wrong code against a code that is there; the guard on guesses is a bound
\* above what the property allows.
GuessWrong(c) ==
  /\ At(c, "admitted") /\ code # None
  /\ guesses[code] < MaxAttempts + Cardinality(ResetCalls)
  /\ guesses' = [guesses EXCEPT ![code] = @ + 1]
  /\ Goto(c, [resetCalls[c] EXCEPT !.step = "wrong"])
  /\ UNCHANGED <<code, attempts, requests, drawn, disturbed>>

\* Defect variant: the count that was read is written back, one higher.
Counted_Lost(c) == resetCalls[c].attempts + 1

\* INCR
Counted(c) == attempts + 1

CountAttempt(c) ==
  /\ At(c, "wrong")
  /\ attempts' = Counted(c)
  /\ Goto(c, IF resetCalls[c].attempts >= MaxAttempts - 1
             THEN [NoReset EXCEPT !.step = "last"] ELSE NoReset)
  /\ UNCHANGED <<code, requests, drawn, guesses, disturbed>>

\* The last attempt also takes the code away, whichever is there by then.
TakeCodeAway(c) ==
  /\ At(c, "last")
  /\ code' = None
  /\ Goto(c, NoReset)
  /\ UNCHANGED <<attempts, requests, drawn, guesses, disturbed>>

EnterCode(c) ==
  /\ At(c, "admitted") /\ code # None
  /\ Goto(c, [NoReset EXCEPT !.step = "right"])
  /\ UNCHANGED <<code, attempts, requests, drawn, guesses, disturbed>>

\* The keys go one by one, before the commit of the new password_hash and whether
\* it comes or not.
DropCode(c) ==
  /\ At(c, "right")
  /\ code' = None
  /\ Goto(c, [NoReset EXCEPT !.step = "dropped"])
  /\ UNCHANGED <<attempts, requests, drawn, guesses, disturbed>>

DropAttempts(c) ==
  /\ At(c, "dropped")
  /\ attempts' = 0
  /\ disturbed' = (disturbed \/ code # None)
  /\ Goto(c, [NoReset EXCEPT !.step = "cleared"])
  /\ UNCHANGED <<code, requests, drawn, guesses>>

DropRequests(c) ==
  /\ At(c, "cleared")
  /\ requests' = 0
  /\ Goto(c, NoReset)
  /\ UNCHANGED <<code, attempts, drawn, guesses, disturbed>>

------------------------------------------------------------------------------

ResetCutOff(c) ==
  /\ ~At(c, "idle")
  /\ Goto(c, NoReset)
  /\ disturbed' = (disturbed \/ At(c, "wrong"))
  /\ UNCHANGED <<code, attempts, requests, drawn, guesses>>

\* A code lives 10 minutes, the count of its wrong attempts an hour after the
\* last: the count goes after the code.
CodeExpires ==
  /\ code # None
  /\ code' = None
  /\ UNCHANGED <<attempts, requests, drawn, resetCalls, guesses, disturbed>>

AttemptsExpire ==
  /\ code = None /\ attempts > 0
  /\ attempts' = 0
  /\ UNCHANGED <<code, requests, drawn, resetCalls, guesses, disturbed>>

RequestsExpire ==
  /\ requests > 0
  /\ requests' = 0
  /\ UNCHANGED <<code, attempts, drawn, resetCalls, guesses, disturbed>>

ResetNext ==
  \/ \E c \in ResetCalls :
       \/ AskRate(c) \/ CountRequest(c) \/ (\E k \in Codes : SendCode(c, k)) \/ ForgetAttempts(c)
       \/ ReadAttempts(c) \/ GuessWrong(c) \/ CountAttempt(c)
       \/ TakeCodeAway(c)
       \/ EnterCode(c) \/ DropCode(c) \/ DropAttempts(c) \/ DropRequests(c)
       \/ ResetCutOff(c)
  \/ CodeExpires \/ AttemptsExpire \/ RequestsExpire

ResetSpec == ResetInit /\ [][ResetNext]_resetVars

------------------------------------------------------------------------------
(* Properties.                                                             *)

\* However many requests run together, a code that has been mailed is compared
\* with no more wrong codes than the attempts allowed and the requests that were
\* in flight when the last of them was counted.
GuessesBounded ==
  disturbed \/ \A k \in Codes : guesses[k] <= MaxAttempts - 1 + Cardinality(ResetCalls)

=============================================================================
