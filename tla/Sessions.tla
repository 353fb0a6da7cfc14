------------------------------ MODULE Sessions ------------------------------
(***************************************************************************)
(* Access tokens and their revocation (backend/app/core/security.py,       *)
(* api/deps.py, api/v1/token.py, logout in api/v1/auth.py).  The blacklist *)
(* is one Redis set with one expiry, and a token is put into it by two     *)
(* commands, SADD and EXPIRE, between which others run and after the first *)
(* of which the request may be cut off: an error of either is swallowed.   *)
(* A token and the blacklist age by the same clock, Redis comes and goes;  *)
(* a logout without Redis is answered all the same, and changes nothing.   *)
(***************************************************************************)
EXTENDS Naturals, FiniteSets

CONSTANTS
  Tokens,        \* jti values of access tokens; one is never given twice
  SessionCalls,  \* requests that can be revoking a token
  AccessLife,    \* settings.access_token_expire_minutes
  BlacklistLife  \* ttl_seconds of blacklist_token

\* The blacklist outlives the tokens in it.
ASSUME SessionsAssumption ==
  AccessLife \in Nat \ {0} /\ BlacklistLife \in Nat /\ BlacklistLife >= AccessLife

VARIABLES
  issued,      \* tokens given out
  timeLeft,    \* the time each issued token is still valid
  blacklist,   \* token_blacklist
  expiresIn,   \* its time to live; 0 where the key does not exist
  redisUp,     \* get_redis has a client that works
  revoking,    \* requests between SADD and EXPIRE
  loggedOut,   \* tokens a logout has put into the blacklist
  unextended   \* those that no EXPIRE has covered yet

sessionsVars == <<issued, timeLeft, blacklist, expiresIn, redisUp, revoking, loggedOut, unextended>>

\* A key that SADD has made has no expiry.
NoExpiry == BlacklistLife + 1

SessionsTypeOK ==
  /\ timeLeft \in [Tokens -> 0..AccessLife]
  /\ expiresIn \in 0..NoExpiry
  /\ blacklist \subseteq loggedOut /\ loggedOut \subseteq issued /\ issued \subseteq Tokens
  /\ unextended \subseteq loggedOut
  /\ revoking \subseteq SessionCalls
  /\ redisUp \in BOOLEAN

SessionsInit ==
  /\ issued = {} /\ blacklist = {} /\ revoking = {} /\ loggedOut = {} /\ unextended = {}
  /\ timeLeft = [t \in Tokens |-> 0]
  /\ expiresIn = 0
  /\ redisUp \in BOOLEAN

\* auth_response after a login, a registration or a refresh.
Issue(t) ==
  /\ t \notin issued
  /\ issued' = issued \cup {t}
  /\ timeLeft' = [timeLeft EXCEPT ![t] = AccessLife]
  /\ UNCHANGED <<blacklist, expiresIn, redisUp, revoking, loggedOut, unextended>>

\* blacklist_token's SADD, of some of the access tokens that are followed here.
AddToBlacklist(c, S) ==
  /\ redisUp /\ c \notin revoking
  /\ blacklist' = blacklist \cup S
  /\ expiresIn' = IF expiresIn = 0 THEN NoExpiry ELSE expiresIn
  /\ revoking' = revoking \cup {c}
  /\ UNCHANGED <<issued, timeLeft, redisUp>>

\* logout revokes an access token that is still valid, and then, as a request of
\* its own here, the refresh token that came with it.
Logout(c, t) ==
  /\ t \in issued /\ timeLeft[t] > 0
  /\ AddToBlacklist(c, {t})
  /\ loggedOut' = loggedOut \cup {t}
  /\ unextended' = unextended \cup ({t} \ blacklist)

\* A refresh token goes to the same set, from logout or refresh_token.
RevokeRefresh(c) ==
  /\ issued # {}
  /\ AddToBlacklist(c, {})
  /\ UNCHANGED <<loggedOut, unextended>>

\* Defect variant: only a set that has no expiry yet is given one.
Extended_Once(n) == IF n = NoExpiry THEN BlacklistLife ELSE n

\* EXPIRE, of the whole set; it does nothing where the key is gone.
Extended(n) == IF n = 0 THEN 0 ELSE BlacklistLife

SetExpiry(c) ==
  /\ redisUp /\ c \in revoking
  /\ expiresIn' = Extended(expiresIn)
  /\ unextended' = unextended \ blacklist
  /\ revoking' = revoking \ {c}
  /\ UNCHANGED <<issued, timeLeft, blacklist, redisUp, loggedOut>>

\* The EXPIRE fails, or the server goes down before it.
CutOffRevoking(c) ==
  /\ c \in revoking
  /\ revoking' = revoking \ {c}
  /\ UNCHANGED <<issued, timeLeft, blacklist, expiresIn, redisUp, loggedOut, unextended>>

Minus1(n) == IF n = 0 THEN 0 ELSE n - 1

Pass ==
  /\ timeLeft' = [t \in Tokens |-> Minus1(timeLeft[t])]
  /\ expiresIn' = IF expiresIn = NoExpiry THEN NoExpiry ELSE Minus1(expiresIn)
  /\ blacklist' = IF expiresIn' = 0 THEN {} ELSE blacklist
  /\ UNCHANGED <<issued, redisUp, revoking, loggedOut, unextended>>

\* Redis keeps its data over a restart.
RedisComesOrGoes ==
  /\ redisUp' = ~redisUp
  /\ UNCHANGED <<issued, timeLeft, blacklist, expiresIn, revoking, loggedOut, unextended>>

SessionsNext ==
  \/ \E t \in Tokens : Issue(t)
  \/ \E c \in SessionCalls :
       \/ \E t \in Tokens : Logout(c, t)
       \/ RevokeRefresh(c) \/ SetExpiry(c) \/ CutOffRevoking(c)
  \/ Pass
  \/ RedisComesOrGoes

SessionsSpec == SessionsInit /\ [][SessionsNext]_sessionsVars

\* get_current_user_optional: is_token_blacklisted fails open.
Accepted(t) == t \in issued /\ timeLeft[t] > 0 /\ ~(redisUp /\ t \in blacklist)

\* As long as Redis answers, a token that was logged out is refused for the rest
\* of its life, however long before others were logged out and whatever other
\* logouts were cut off: all it takes is one EXPIRE, of any request, while it is
\* in the set. (Without one it comes back when the expiry that the set had before
\* runs out.)
LoggedOutStaysOut == redisUp => \A t \in loggedOut \ unextended : ~Accepted(t)

=============================================================================
