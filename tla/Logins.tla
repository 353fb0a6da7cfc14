------------------------------- MODULE Logins -------------------------------
(***************************************************************************)
(* The count of failed logins with one email address                       *)
(* (backend/app/api/v1/auth.py, login_route).  The handler awaits Redis    *)
(* for each command and the database in between; it may be cut off at any  *)
(* of them, and then what it has written stays.                            *)
(***************************************************************************)
EXTENDS Naturals, FiniteSets

CONSTANTS
  LoginCalls,   \* requests that can be in flight
  MaxFails      \* 5

ASSUME LoginsAssumption == MaxFails \in Nat \ {0} /\ IsFiniteSet(LoginCalls)

VARIABLES
  fails,        \* login_fails:{email}; 0 where there is no key
  failsExpire,  \* the key has a time to live
  loginCalls,   \* what each request does next
  stranded      \* requests cut off between INCR and EXPIRE since the key was made

loginsVars == <<fails, failsExpire, loginCalls, stranded>>

LoginsTypeOK ==
  /\ fails \in 0..MaxFails - 1 + Cardinality(LoginCalls)
  /\ failsExpire \in BOOLEAN
  /\ loginCalls \in [LoginCalls -> {"idle", "checking", "counted"}]
  /\ stranded \in Nat

LoginsInit ==
  /\ fails = 0 /\ failsExpire = FALSE
  /\ loginCalls = [c \in LoginCalls |-> "idle"]
  /\ stranded = 0

Proceed(c, from, to) ==
  loginCalls[c] = from /\ loginCalls' = [loginCalls EXCEPT ![c] = to]

\* GET; from MaxFails on the request is refused.
ReadFails(c) ==
  /\ fails < MaxFails
  /\ Proceed(c, "idle", "checking")
  /\ UNCHANGED <<fails, failsExpire, stranded>>

\* auth_service.login raises an AuthError. INCR keeps the time the key has to live,
\* and makes one without where there is no key.
CountFail(c) ==
  /\ Proceed(c, "checking", "counted")
  /\ fails' = fails + 1
  /\ UNCHANGED <<failsExpire, stranded>>

\* Defect variant: the window starts with the first failure.
GivesExpiry_First == fails = 1

\* Every failure starts the window anew.
GivesExpiry == fails > 0

\* EXPIRE, which does nothing where there is no key.
ExpireFails(c) ==
  /\ Proceed(c, "counted", "idle")
  /\ failsExpire' = (failsExpire \/ GivesExpiry)
  /\ UNCHANGED <<fails, stranded>>

KeyGone == fails' = 0 /\ failsExpire' = FALSE /\ stranded' = 0

\* A success takes the count away.
ClearFails(c) == Proceed(c, "checking", "idle") /\ KeyGone

LoginCutOff(c) ==
  /\ loginCalls[c] # "idle"
  /\ loginCalls' = [loginCalls EXCEPT ![c] = "idle"]
  /\ stranded' = stranded + (IF loginCalls[c] = "counted" /\ fails > 0 THEN 1 ELSE 0)
  /\ UNCHANGED <<fails, failsExpire>>

WindowEnds == failsExpire /\ KeyGone /\ UNCHANGED loginCalls

LoginsNext ==
  \/ \E c \in LoginCalls :
       ReadFails(c) \/ CountFail(c) \/ ExpireFails(c) \/ ClearFails(c) \/ LoginCutOff(c)
  \/ WindowEnds

LoginsSpec == LoginsInit /\ [][LoginsNext]_loginsVars

\* "max 5 failed attempts per 15 min window": nobody is locked out without an end,
\* that is by a count that will not expire and that no request is about to give a
\* time to live, unless as many requests as it takes to be locked out have all died
\* between the two commands; one that gets through makes up for those before it.
LockoutEnds ==
  fails >= MaxFails /\ ~failsExpire /\ (\A c \in LoginCalls : loginCalls[c] # "counted")
    => stranded >= MaxFails

=============================================================================
