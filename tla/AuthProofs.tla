----------------------------- MODULE AuthProofs -----------------------------
(***************************************************************************)
(* Theorems about who gets in: Sessions (LoggedOutStaysOut), Logins        *)
(* (LockoutEnds), PasswordReset (GuessesBounded) and Accounts              *)
(* (OrdersGoWithUser, OnlyAdminReactivates), with the types of each, for   *)
(* any number of tokens, codes, users and requests, and any two lifetimes  *)
(* of which the blacklist has the longer.                                  *)
(***************************************************************************)
EXTENDS Sessions, Logins, PasswordReset, Accounts, FiniteSetTheorems, TLAPS

------------------------------------------------------------------------------
(* Sessions.                                                               *)

\* The set has members only while its key is there. A revoked token that could
\* still be accepted, and that an EXPIRE has covered, is in the set, and the set
\* lives at least as long as the token.
RevokedIsListed ==
  /\ expiresIn = 0 => blacklist = {}
  /\ \A t \in loggedOut \ unextended : timeLeft[t] > 0 => t \in blacklist /\ expiresIn >= timeLeft[t]

SessionsInv == SessionsTypeOK /\ RevokedIsListed

\* The types of Sessions are those of all its states.
THEOREM SessionsTypeCorrect == SessionsSpec => []SessionsTypeOK
<1>1. SessionsInit => SessionsTypeOK
  BY SessionsAssumption DEF SessionsInit, SessionsTypeOK, NoExpiry
<1>2. SessionsTypeOK /\ [SessionsNext]_sessionsVars => SessionsTypeOK'
  <2> SUFFICES ASSUME SessionsTypeOK, [SessionsNext]_sessionsVars
               PROVE  SessionsTypeOK'
    OBVIOUS
  <2> USE SessionsAssumption DEF SessionsTypeOK
  <2>1. ASSUME NEW t \in Tokens, Issue(t)
        PROVE  SessionsTypeOK'
    BY <2>1 DEF Issue
  <2>2. ASSUME NEW c \in SessionCalls, NEW t \in Tokens, Logout(c, t)
        PROVE  SessionsTypeOK'
    BY <2>2 DEF Logout, AddToBlacklist, NoExpiry
  <2>3. ASSUME NEW c \in SessionCalls, RevokeRefresh(c)
        PROVE  SessionsTypeOK'
    BY <2>3 DEF RevokeRefresh, AddToBlacklist, NoExpiry
  <2>4. ASSUME NEW c \in SessionCalls, SetExpiry(c) \/ CutOffRevoking(c)
        PROVE  SessionsTypeOK'
    BY <2>4 DEF SetExpiry, CutOffRevoking, Extended, NoExpiry
  <2>5. CASE Pass
    <3>1. timeLeft' \in [Tokens -> 0..AccessLife]
      BY <2>5 DEF Pass, Minus1
    <3>2. expiresIn' \in 0..NoExpiry
      BY <2>5 DEF Pass, Minus1, NoExpiry
    <3> QED
      BY <3>1, <3>2, <2>5 DEF Pass
  <2>6. CASE RedisComesOrGoes
    BY <2>6 DEF RedisComesOrGoes
  <2>7. CASE UNCHANGED sessionsVars
    BY <2>7 DEF sessionsVars
  <2> QED
    BY <2>1, <2>2, <2>3, <2>4, <2>5, <2>6, <2>7 DEF SessionsNext
<1> QED
  BY <1>1, <1>2, PTL DEF SessionsSpec

\* The inductive invariant behind LoggedOutStaysOut.
THEOREM SessionsInvariance == SessionsSpec => []SessionsInv
<1>1. SessionsInit => RevokedIsListed
  BY DEF SessionsInit, RevokedIsListed
<1>2. SessionsTypeOK /\ SessionsTypeOK' /\ RevokedIsListed /\ [SessionsNext]_sessionsVars => RevokedIsListed'
  <2> SUFFICES ASSUME SessionsTypeOK, SessionsTypeOK', RevokedIsListed, [SessionsNext]_sessionsVars
               PROVE  RevokedIsListed'
    OBVIOUS
  <2> USE SessionsAssumption DEF SessionsTypeOK, RevokedIsListed
  \* A new token has not been logged out; the others keep their time.
  <2>1. ASSUME NEW t \in Tokens, Issue(t)
        PROVE  RevokedIsListed'
    BY <2>1 DEF Issue
  \* A token that goes into the set is not covered yet; the set keeps its time, or
  \* has no end.
  <2>2. ASSUME NEW c \in SessionCalls, NEW t \in Tokens, Logout(c, t)
        PROVE  RevokedIsListed'
    <3>1. /\ blacklist' = blacklist \cup {t} /\ loggedOut' = loggedOut \cup {t}
          /\ unextended' = unextended \cup ({t} \ blacklist) /\ timeLeft' = timeLeft
          /\ expiresIn' = IF expiresIn = 0 THEN NoExpiry ELSE expiresIn
      BY <2>2 DEF Logout, AddToBlacklist
    <3>2. NoExpiry \in Nat /\ NoExpiry > 0 /\ \A s \in Tokens : NoExpiry >= timeLeft[s]
      BY DEF NoExpiry
    <3>3. ASSUME NEW s \in loggedOut' \ unextended', timeLeft'[s] > 0
          PROVE  s \in blacklist' /\ expiresIn' >= timeLeft'[s]
      <4>1. CASE s \in loggedOut \ unextended
        BY <3>1, <3>2, <3>3, <4>1
      <4>2. s \in loggedOut \ unextended
        BY <3>1, <3>3
      <4> QED
        BY <4>1, <4>2
    <3> QED
      BY <3>1, <3>2, <3>3
  <2>3. ASSUME NEW c \in SessionCalls, RevokeRefresh(c)
        PROVE  RevokedIsListed'
    BY <2>3 DEF RevokeRefresh, AddToBlacklist, NoExpiry
  \* The whole set gets the longest time there is.
  <2>4. ASSUME NEW c \in SessionCalls, SetExpiry(c)
        PROVE  RevokedIsListed'
    BY <2>4 DEF SetExpiry, Extended
  <2>5. ASSUME NEW c \in SessionCalls, CutOffRevoking(c)
        PROVE  RevokedIsListed'
    BY <2>5 DEF CutOffRevoking
  \* Both clocks lose one; while a token has time left, so has the set.
  <2>6. CASE Pass
    <3>1. /\ expiresIn' = IF expiresIn = NoExpiry THEN NoExpiry ELSE Minus1(expiresIn)
          /\ blacklist' = IF expiresIn' = 0 THEN {} ELSE blacklist
          /\ loggedOut' = loggedOut /\ unextended' = unextended
          /\ expiresIn \in Nat /\ NoExpiry \in Nat /\ \A s \in Tokens : NoExpiry >= timeLeft[s]
      BY <2>6 DEF Pass, NoExpiry
    <3> SUFFICES ASSUME NEW t \in loggedOut \ unextended, timeLeft'[t] > 0
                 PROVE  t \in blacklist' /\ expiresIn' >= timeLeft'[t]
      BY <3>1
    <3>2. t \in Tokens /\ timeLeft[t] \in Nat /\ timeLeft'[t] = Minus1(timeLeft[t])
      BY <2>6 DEF Pass
    <3>3. timeLeft[t] > 0 /\ timeLeft'[t] = timeLeft[t] - 1
      BY <3>2 DEF Minus1
    <3>4. t \in blacklist /\ expiresIn >= timeLeft[t]
      BY <3>2, <3>3
    <3>5. expiresIn' >= timeLeft'[t] /\ expiresIn' > 0
      BY <3>1, <3>2, <3>3, <3>4 DEF Minus1
    <3> QED
      BY <3>1, <3>4, <3>5
  <2>7. CASE RedisComesOrGoes
    BY <2>7 DEF RedisComesOrGoes
  <2>8. CASE UNCHANGED sessionsVars
    BY <2>8 DEF sessionsVars
  <2> QED
    BY <2>1, <2>2, <2>3, <2>4, <2>5, <2>6, <2>7, <2>8 DEF SessionsNext
<1> QED
  BY <1>1, <1>2, SessionsTypeCorrect, PTL DEF SessionsSpec, SessionsInv

\* While Redis answers, nobody gets in with a token that was logged out, once an
\* EXPIRE has covered it, however often the one expiry of the blacklist was moved by
\* other logouts and whichever of them were cut off.
THEOREM LogoutHolds == SessionsSpec => []LoggedOutStaysOut
<1>1. SessionsInv => LoggedOutStaysOut
  BY DEF SessionsInv, RevokedIsListed, LoggedOutStaysOut, Accepted
<1> QED
  BY <1>1, SessionsInvariance, PTL

------------------------------------------------------------------------------
(* Counting the requests at one step.                                      *)

\* When one element may move in or out, the count moves by at most one.
LEMMA OneMoves ==
  ASSUME NEW S, IsFiniteSet(S), NEW T \in SUBSET S, NEW U \in SUBSET S, NEW c \in S,
         T \ {c} = U \ {c}
  PROVE  /\ Cardinality(S) \in Nat /\ Cardinality(T) \in Nat /\ Cardinality(U) \in Nat
         /\ Cardinality(T) <= Cardinality(S) /\ Cardinality(U) <= Cardinality(S)
         /\ (c \in T <=> c \in U) => Cardinality(U) = Cardinality(T)
         /\ c \in T /\ c \notin U => Cardinality(U) = Cardinality(T) - 1
         /\ c \notin T /\ c \in U => Cardinality(U) = Cardinality(T) + 1
<1>1. /\ IsFiniteSet(T) /\ IsFiniteSet(U)
      /\ Cardinality(T) <= Cardinality(S) /\ Cardinality(U) <= Cardinality(S)
  BY FS_Subset
<1>2. Cardinality(S) \in Nat /\ Cardinality(T) \in Nat /\ Cardinality(U) \in Nat
  BY <1>1, FS_CardinalityType
<1>3. Cardinality(T \ {c}) = IF c \in T THEN Cardinality(T) - 1 ELSE Cardinality(T)
  BY <1>1, FS_RemoveElement
<1>4. Cardinality(U \ {c}) = IF c \in U THEN Cardinality(U) - 1 ELSE Cardinality(U)
  BY <1>1, FS_RemoveElement
<1> QED
  BY <1>1, <1>2, <1>3, <1>4

LEMMA TwoApart ==
  ASSUME NEW S, IsFiniteSet(S), NEW T \in SUBSET S, NEW U \in SUBSET S, T \cap U = {}
  PROVE  /\ Cardinality(S) \in Nat /\ Cardinality(T) \in Nat /\ Cardinality(U) \in Nat
         /\ Cardinality(T) + Cardinality(U) <= Cardinality(S)
<1>1. IsFiniteSet(T) /\ IsFiniteSet(U)
  BY FS_Subset
<1>2. Cardinality(S) \in Nat /\ Cardinality(T) \in Nat /\ Cardinality(U) \in Nat
  BY <1>1, FS_CardinalityType
<1>3. Cardinality(T \cup U) = Cardinality(T) + Cardinality(U) - Cardinality(T \cap U)
  BY <1>1, FS_Union
<1>4. Cardinality(T \cap U) = 0
  BY FS_EmptySet
<1>5. Cardinality(T \cup U) <= Cardinality(S)
  BY FS_Subset
<1> QED
  BY <1>2, <1>3, <1>4, <1>5

LEMMA SumsBelow ==
  ASSUME NEW a \in Nat, NEW b \in Nat, NEW x \in Nat, NEW y \in Nat, a < b, x <= y
  PROVE  a + x <= b - 1 + y
OBVIOUS

LEMMA SumsAreNat ==
  ASSUME NEW a \in Nat, NEW b \in Nat
  PROVE  0 <= a + b
OBVIOUS

------------------------------------------------------------------------------
(* Logins.                                                                 *)

LoginsAt(step) == {c \in LoginCalls : loginCalls[c] = step}

\* A key without a time to live counts only failures whose requests are about to
\* give it one or were cut off before they could.
FailsAccounted == ~failsExpire => fails <= stranded + Cardinality(LoginsAt("counted"))

\* Each request that is checking was let in below the limit.
FailsLimited == fails + Cardinality(LoginsAt("checking")) <= MaxFails - 1 + Cardinality(LoginCalls)

LoginsInv ==
  /\ fails \in Nat /\ stranded \in Nat /\ failsExpire \in BOOLEAN
  /\ loginCalls \in [LoginCalls -> {"idle", "checking", "counted"}]
  /\ FailsAccounted
  /\ FailsLimited

\* The requests at a step after request c has moved.
LEMMA LoginMoves ==
  ASSUME LoginsInv, NEW c \in LoginCalls, NEW to \in {"idle", "checking", "counted"},
         loginCalls' = [loginCalls EXCEPT ![c] = to],
         NEW step
  PROVE  /\ Cardinality(LoginsAt(step)) \in Nat /\ Cardinality(LoginsAt(step))' \in Nat
         /\ Cardinality(LoginCalls) \in Nat
         /\ Cardinality(LoginsAt(step))' <= Cardinality(LoginCalls)
         /\ (loginCalls[c] = step <=> to = step) =>
              Cardinality(LoginsAt(step))' = Cardinality(LoginsAt(step))
         /\ loginCalls[c] = step /\ to # step =>
              Cardinality(LoginsAt(step))' = Cardinality(LoginsAt(step)) - 1
         /\ loginCalls[c] # step /\ to = step =>
              Cardinality(LoginsAt(step))' = Cardinality(LoginsAt(step)) + 1
<1>1. loginCalls'[c] = to /\ \A d \in LoginCalls \ {c} : loginCalls'[d] = loginCalls[d]
  BY DEF LoginsInv
<1>2. LoginsAt(step) \in SUBSET LoginCalls /\ LoginsAt(step)' \in SUBSET LoginCalls
  BY DEF LoginsAt
<1>3. LoginsAt(step) \ {c} = LoginsAt(step)' \ {c}
  BY <1>1 DEF LoginsAt
<1>4. (c \in LoginsAt(step) <=> loginCalls[c] = step) /\ (c \in LoginsAt(step)' <=> to = step)
  BY <1>1 DEF LoginsAt
<1>5. IsFiniteSet(LoginCalls)
  BY LoginsAssumption
<1> HIDE DEF LoginsAt
<1> QED
  BY <1>2, <1>3, <1>4, <1>5, OneMoves

\* The inductive invariant: what LockoutEnds says of the end of the requests holds
\* of a count that the requests still in flight are added to.
THEOREM LoginsInvariance == LoginsSpec => []LoginsInv
<1> USE LoginsAssumption
<1>1. LoginsInit => LoginsInv
  <2> SUFFICES ASSUME LoginsInit
               PROVE  LoginsInv
    OBVIOUS
  <2>1. Cardinality(LoginsAt("checking")) = 0 /\ Cardinality(LoginsAt("counted")) = 0
    <3>1. LoginsAt("checking") = {} /\ LoginsAt("counted") = {}
      BY DEF LoginsInit, LoginsAt
    <3> QED
      BY <3>1, FS_EmptySet
  <2>2. Cardinality(LoginCalls) \in Nat
    BY FS_CardinalityType
  <2>3. fails = 0 /\ stranded = 0 /\ 0 <= MaxFails - 1 + Cardinality(LoginCalls)
    BY <2>2 DEF LoginsInit
  <2>4. FailsAccounted /\ FailsLimited
    BY <2>1, <2>3 DEF FailsAccounted, FailsLimited
  <2>5. failsExpire \in BOOLEAN /\ loginCalls \in [LoginCalls -> {"idle", "checking", "counted"}]
    BY DEF LoginsInit
  <2> QED
    BY <2>3, <2>4, <2>5 DEF LoginsInv
<1>2. LoginsInv /\ [LoginsNext]_loginsVars => LoginsInv'
  <2> SUFFICES ASSUME LoginsInv, [LoginsNext]_loginsVars
               PROVE  LoginsInv'
    OBVIOUS
  <2> DEFINE checking == Cardinality(LoginsAt("checking"))
             counted  == Cardinality(LoginsAt("counted"))
             all      == Cardinality(LoginCalls)
  <2>0. /\ fails \in Nat /\ stranded \in Nat /\ failsExpire \in BOOLEAN /\ MaxFails \in Nat \ {0}
        /\ loginCalls \in [LoginCalls -> {"idle", "checking", "counted"}]
        /\ ~failsExpire => fails <= stranded + counted
        /\ fails + checking <= MaxFails - 1 + all
    BY DEF LoginsInv, FailsAccounted, FailsLimited
  <2>a. checking \in Nat /\ counted \in Nat /\ all \in Nat
    <3>1. LoginsAt("checking") \in SUBSET LoginCalls /\ LoginsAt("counted") \in SUBSET LoginCalls
      BY DEF LoginsAt
    <3> QED
      BY <3>1, FS_Subset, FS_CardinalityType
  <2>1. ASSUME NEW c \in LoginCalls, ReadFails(c)
        PROVE  LoginsInv'
    <3>1. /\ fails < MaxFails /\ loginCalls[c] = "idle"
          /\ loginCalls' = [loginCalls EXCEPT ![c] = "checking"]
          /\ UNCHANGED <<fails, failsExpire, stranded>>
      BY <2>1 DEF ReadFails, Proceed
    <3>2. checking' \in Nat /\ checking' <= all
      BY <3>1, LoginMoves
    <3>3. counted' = counted
      BY <3>1, LoginMoves
    <3> HIDE DEF checking, counted, all
    <3>4. ~failsExpire' => fails' <= stranded' + counted'
      BY <2>0, <2>a, <3>1, <3>3
    <3>5. fails + checking' <= MaxFails - 1 + all
      BY <2>0, <2>a, <3>1, <3>2, SumsBelow
    <3> QED
      BY <2>0, <3>1, <3>4, <3>5 DEF LoginsInv, FailsAccounted, FailsLimited, checking, counted, all
  <2>2. ASSUME NEW c \in LoginCalls, CountFail(c)
        PROVE  LoginsInv'
    <3>1. /\ loginCalls[c] = "checking"
          /\ loginCalls' = [loginCalls EXCEPT ![c] = "counted"]
          /\ fails' = fails + 1 /\ UNCHANGED <<failsExpire, stranded>>
      BY <2>2 DEF CountFail, Proceed
    <3>2. checking' = checking - 1
      BY <3>1, LoginMoves
    <3>3. counted' = counted + 1
      BY <3>1, LoginMoves
    <3> HIDE DEF checking, counted, all
    <3>4. (~failsExpire' => fails' <= stranded' + counted') /\ fails' + checking' <= MaxFails - 1 + all
      BY <2>0, <2>a, <3>1, <3>2, <3>3
    <3> QED
      BY <2>0, <3>1, <3>4 DEF LoginsInv, FailsAccounted, FailsLimited, checking, counted, all
  <2>3. ASSUME NEW c \in LoginCalls, ExpireFails(c)
        PROVE  LoginsInv'
    <3>1. /\ loginCalls[c] = "counted"
          /\ loginCalls' = [loginCalls EXCEPT ![c] = "idle"]
          /\ failsExpire' = (failsExpire \/ GivesExpiry)
          /\ UNCHANGED <<fails, stranded>>
      BY <2>3 DEF ExpireFails, Proceed
    <3>2. checking' = checking
      BY <3>1, LoginMoves
    <3>3. counted' \in Nat
      BY <3>1, LoginMoves
    <3> HIDE DEF checking, counted, all
    <3>4. ~failsExpire' => fails' <= stranded' + counted'
      <4>1. ~GivesExpiry => fails = 0
        BY <2>0 DEF GivesExpiry
      <4>2. ~failsExpire' => fails = 0
        BY <3>1, <4>1
      <4>3. 0 <= stranded + counted'
        BY <2>0, <3>3, SumsAreNat
      <4> QED
        BY <2>0, <3>1, <3>3, <4>2, <4>3
    <3>5. fails' + checking' <= MaxFails - 1 + all
      BY <2>0, <3>1, <3>2
    <3>6. failsExpire' \in BOOLEAN
      BY <3>1
    <3> QED
      BY <2>0, <3>1, <3>4, <3>5, <3>6 DEF LoginsInv, FailsAccounted, FailsLimited, checking, counted, all
  <2>4. ASSUME NEW c \in LoginCalls, ClearFails(c)
        PROVE  LoginsInv'
    <3>1. /\ loginCalls' = [loginCalls EXCEPT ![c] = "idle"]
          /\ fails' = 0 /\ failsExpire' = FALSE /\ stranded' = 0
      BY <2>4 DEF ClearFails, Proceed, KeyGone
    <3>2. checking' \in Nat /\ checking' <= all
      BY <3>1, LoginMoves
    <3>3. counted' \in Nat
      BY <3>1, LoginMoves
    <3> HIDE DEF checking, counted, all
    <3>4. fails' + checking' <= MaxFails - 1 + all
      <4>1. fails' \in Nat /\ fails' < MaxFails
        BY <2>0, <3>1
      <4> QED
        BY <2>0, <2>a, <3>2, <4>1, SumsBelow
    <3>5. fails' \in Nat /\ stranded' \in Nat /\ failsExpire' \in BOOLEAN
      BY <3>1
    <3>6. 0 <= stranded' + counted'
      BY <3>3, <3>5, SumsAreNat
    <3> QED
      BY <2>0, <3>1, <3>4, <3>5, <3>6 DEF LoginsInv, FailsAccounted, FailsLimited, checking, counted, all
  <2>5. ASSUME NEW c \in LoginCalls, LoginCutOff(c)
        PROVE  LoginsInv'
    <3>1. /\ loginCalls' = [loginCalls EXCEPT ![c] = "idle"]
          /\ stranded' = stranded + (IF loginCalls[c] = "counted" /\ fails > 0 THEN 1 ELSE 0)
          /\ UNCHANGED <<fails, failsExpire>>
      BY <2>5 DEF LoginCutOff
    <3>2. /\ checking' = IF loginCalls[c] = "checking" THEN checking - 1 ELSE checking
          /\ checking' \in Nat
      BY <3>1, LoginMoves
    <3>3. /\ counted' = IF loginCalls[c] = "counted" THEN counted - 1 ELSE counted
          /\ counted' \in Nat
      BY <3>1, LoginMoves
    <3> HIDE DEF checking, counted, all
    <3>4. (~failsExpire' => fails' <= stranded' + counted') /\ fails' + checking' <= MaxFails - 1 + all
      BY <2>0, <2>a, <3>1, <3>2, <3>3
    <3> QED
      BY <2>0, <3>1, <3>4 DEF LoginsInv, FailsAccounted, FailsLimited, checking, counted, all
  <2>6. CASE WindowEnds
    <3>1. UNCHANGED loginCalls /\ fails' = 0 /\ failsExpire' = FALSE /\ stranded' = 0
      BY <2>6 DEF WindowEnds, KeyGone
    <3>2. checking' = checking /\ counted' = counted
      BY <3>1 DEF LoginsAt
    <3> HIDE DEF checking, counted, all
    <3>4. (~failsExpire' => fails' <= stranded' + counted') /\ fails' + checking' <= MaxFails - 1 + all
      BY <2>0, <2>a, <3>1, <3>2
    <3> QED
      BY <2>0, <3>1, <3>4 DEF LoginsInv, FailsAccounted, FailsLimited, checking, counted, all
  <2>7. CASE UNCHANGED loginsVars
    BY <2>7 DEF loginsVars, LoginsInv, FailsAccounted, FailsLimited, LoginsAt
  <2> QED
    BY <2>1, <2>2, <2>3, <2>4, <2>5, <2>6, <2>7 DEF LoginsNext
<1> QED
  BY <1>1, <1>2, PTL DEF LoginsSpec

LEMMA NoneCounted ==
  ASSUME LoginsInv, \A c \in LoginCalls : loginCalls[c] # "counted"
  PROVE  Cardinality(LoginsAt("counted")) = 0
<1>1. LoginsAt("counted") = {}
  BY DEF LoginsAt
<1> QED
  BY <1>1, FS_EmptySet

\* Nobody is locked out for good by fewer requests cut off between the two commands
\* than it takes to be locked out, for any limit and any number of requests.
THEOREM NoEndlessLockout == LoginsSpec => []LockoutEnds
<1>1. LoginsInv => LockoutEnds
  BY NoneCounted, LoginsAssumption DEF LoginsInv, FailsAccounted, LockoutEnds
<1> QED
  BY <1>1, LoginsInvariance, PTL

\* The types of Logins, with the bound that the requests in flight add to the limit.
THEOREM LoginsTypeCorrect == LoginsSpec => []LoginsTypeOK
<1>1. LoginsInv => LoginsTypeOK
  <2> SUFFICES ASSUME LoginsInv
               PROVE  LoginsTypeOK
    OBVIOUS
  <2>1. LoginsAt("checking") \in SUBSET LoginCalls
    BY DEF LoginsAt
  <2>2. Cardinality(LoginsAt("checking")) \in Nat /\ Cardinality(LoginCalls) \in Nat
    BY <2>1, LoginsAssumption, FS_Subset, FS_CardinalityType
  <2> QED
    BY <2>2, LoginsAssumption DEF LoginsInv, FailsLimited, LoginsTypeOK
<1> QED
  BY <1>1, LoginsInvariance, PTL

------------------------------------------------------------------------------
(* PasswordReset.                                                          *)

Steps == {"idle", "admitted", "wrong", "last"} \cup Succeeding \cup Requesting
ResetCall == [step : Steps, attempts : Nat, stored : Codes \cup {None}]

ResetsAt(step) == {c \in ResetCalls : At(c, step)}
Admitted == Cardinality(ResetsAt("admitted"))
Wrong == Cardinality(ResetsAt("wrong"))
Limit == MaxAttempts - 1 + Cardinality(ResetCalls)

ResetShape ==
  /\ code \in Codes \cup {None} /\ drawn \subseteq Codes
  /\ attempts \in Nat
  /\ resetCalls \in [ResetCalls -> ResetCall]
  /\ guesses \in [Codes -> Nat] /\ disturbed \in BOOLEAN
  /\ code # None => code \in drawn
  /\ \A k \in Codes \ drawn : guesses[k] = 0

\* One request for a code at a time; the code it has sent is the one there is.
OneRequest ==
  /\ \A c, d \in ResetCalls :
       resetCalls[c].step \in Requesting /\ resetCalls[d].step \in Requesting => c = d
  /\ \A c \in ResetCalls :
       At(c, "sent") => resetCalls[c].stored \in drawn /\ code \in {resetCalls[c].stored, None}

\* The wrong codes that the current one was compared with have been counted or are
\* about to be, and every request that may still compare was let in by the count.
GuessesCounted ==
  code # None =>
    /\ guesses[code] <= attempts + Wrong
    /\ guesses[code] + Admitted <= Limit

GuessesLimited == \A k \in Codes : guesses[k] <= Limit

ResetInv ==
  /\ ResetShape
  /\ disturbed \/ (OneRequest /\ GuessesCounted /\ GuessesLimited)

LEMMA NoneIsNoCode == None \notin Codes /\ IsFiniteSet(ResetCalls) /\ MaxAttempts \in Nat \ {0}
  BY ResetAssumption

LEMMA ResetsTyped ==
  /\ Admitted \in Nat /\ Wrong \in Nat /\ Cardinality(ResetCalls) \in Nat /\ Limit \in Nat
  /\ Admitted + Wrong <= Cardinality(ResetCalls)
<1>1. /\ ResetsAt("admitted") \in SUBSET ResetCalls /\ ResetsAt("wrong") \in SUBSET ResetCalls
      /\ ResetsAt("admitted") \cap ResetsAt("wrong") = {}
  BY DEF ResetsAt, At
<1>2. MaxAttempts \in Nat /\ MaxAttempts # 0
  BY NoneIsNoCode
<1> HIDE DEF ResetsAt
<1>3. /\ Admitted \in Nat /\ Wrong \in Nat /\ Cardinality(ResetCalls) \in Nat
      /\ Admitted + Wrong <= Cardinality(ResetCalls)
  BY <1>1, NoneIsNoCode, TwoApart DEF Admitted, Wrong
<1>4. MaxAttempts - 1 \in Nat
  BY <1>2
<1>5. Limit \in Nat
  BY <1>3, <1>4 DEF Limit
<1> QED
  BY <1>3, <1>5

\* The requests at a step after request c has moved.
LEMMA ResetMoves ==
  ASSUME ResetShape, NEW c \in ResetCalls, NEW call \in ResetCall, Goto(c, call)
  PROVE  /\ resetCalls' \in [ResetCalls -> ResetCall]
         /\ resetCalls'[c] = call
         /\ \A d \in ResetCalls \ {c} : resetCalls'[d] = resetCalls[d]
         /\ (At(c, "admitted") <=> call.step = "admitted") => Admitted' = Admitted
         /\ At(c, "admitted") /\ call.step # "admitted" => Admitted' = Admitted - 1
         /\ (At(c, "wrong") <=> call.step = "wrong") => Wrong' = Wrong
         /\ At(c, "wrong") /\ call.step # "wrong" => Wrong' = Wrong - 1
         /\ ~At(c, "wrong") /\ call.step = "wrong" => Wrong' = Wrong + 1
         /\ Admitted' \in Nat /\ Wrong' \in Nat
         /\ Admitted' + Wrong' <= Cardinality(ResetCalls)
<1>1. /\ resetCalls' \in [ResetCalls -> ResetCall]
      /\ resetCalls'[c] = call /\ \A d \in ResetCalls \ {c} : resetCalls'[d] = resetCalls[d]
  BY DEF ResetShape, Goto
<1>2. ASSUME NEW step
      PROVE  /\ ResetsAt(step) \in SUBSET ResetCalls /\ ResetsAt(step)' \in SUBSET ResetCalls
             /\ ResetsAt(step) \ {c} = ResetsAt(step)' \ {c}
             /\ c \in ResetsAt(step) <=> At(c, step)
             /\ c \in ResetsAt(step)' <=> call.step = step
  BY <1>1 DEF ResetsAt, At
<1>3. ResetsAt("admitted")' \cap ResetsAt("wrong")' = {}
  BY DEF ResetsAt, At
<1> HIDE DEF ResetsAt, At
<1>4. /\ Admitted' \in Nat /\ Wrong' \in Nat
      /\ Admitted' + Wrong' <= Cardinality(ResetCalls)
  BY <1>2, <1>3, NoneIsNoCode, TwoApart DEF Admitted, Wrong
<1>5. /\ (At(c, "admitted") <=> call.step = "admitted") => Admitted' = Admitted
      /\ At(c, "admitted") /\ call.step # "admitted" => Admitted' = Admitted - 1
  BY <1>2, NoneIsNoCode, OneMoves DEF Admitted
<1>6. /\ (At(c, "wrong") <=> call.step = "wrong") => Wrong' = Wrong
      /\ At(c, "wrong") /\ call.step # "wrong" => Wrong' = Wrong - 1
      /\ ~At(c, "wrong") /\ call.step = "wrong" => Wrong' = Wrong + 1
  BY <1>2, NoneIsNoCode, OneMoves DEF Wrong
<1> QED
  BY <1>1, <1>4, <1>5, <1>6

\* The arithmetic of the count: a step that is not a comparison, one that lets a
\* request in, and a comparison.
LEMMA StillCounted ==
  ASSUME NEW g \in Nat, NEW a \in Nat, NEW w \in Nat, NEW m \in Nat, NEW limit \in Nat,
         NEW a1 \in Nat, NEW w1 \in Nat, NEW m1 \in Nat,
         g <= a + w, g + m <= limit, m1 <= m, (a1 = a /\ w1 = w) \/ (a1 = a + 1 /\ w1 >= w - 1)
  PROVE  g <= a1 + w1 /\ g + m1 <= limit
OBVIOUS

LEMMA LetIn ==
  ASSUME NEW g \in Nat, NEW a \in Nat, NEW w \in Nat, NEW n \in Nat, NEW max \in Nat, NEW m1 \in Nat,
         g <= a + w, a < max, m1 + w <= n
  PROVE  g + m1 <= max - 1 + n
OBVIOUS

LEMMA OneMoreGuess ==
  ASSUME NEW g \in Nat, NEW a \in Nat, NEW w \in Nat, NEW m \in Nat, NEW limit \in Nat,
         g <= a + w, g + m <= limit, m >= 1
  PROVE  g + 1 <= a + (w + 1) /\ (g + 1) + (m - 1) <= limit /\ g + 1 <= limit
OBVIOUS

\* Steps of one request that compare nothing, let nobody in and send no code: the
\* count of the attempts stays, goes up for a wrong code, or goes with the code.
LEMMA CalmStepKeeps ==
  ASSUME ResetInv, NEW c \in ResetCalls, NEW call \in ResetCall, Goto(c, call),
         call.step \notin {"admitted", "wrong", "sent"},
         UNCHANGED <<drawn, guesses>>, code' \in {code, None},
         attempts' \in Nat, disturbed' \in BOOLEAN, disturbed => disturbed',
         disturbed' \/ code' = None \/ (attempts' = attempts /\ ~At(c, "wrong")) \/ attempts' = attempts + 1,
         disturbed' \/ call.step \notin Requesting \/ resetCalls[c].step \in Requesting
           \/ \A d \in ResetCalls : resetCalls[d].step \notin Requesting
  PROVE  ResetInv'
<1>1. ResetShape'
  BY ResetMoves DEF ResetInv, ResetShape
<1>2. ASSUME ~disturbed'
      PROVE  OneRequest' /\ GuessesCounted' /\ GuessesLimited'
  <2>0. ResetShape /\ OneRequest /\ GuessesCounted /\ GuessesLimited
    BY <1>2 DEF ResetInv
  <2>1. /\ resetCalls'[c] = call
        /\ \A d \in ResetCalls \ {c} : resetCalls'[d] = resetCalls[d]
    BY <2>0, ResetMoves
  <2>2. OneRequest'
    <3>1. \A d \in ResetCalls \ {c} :
            call.step \in Requesting /\ resetCalls[d].step \in Requesting => FALSE
      BY <1>2, <2>0 DEF OneRequest
    <3> QED
      BY <2>0, <2>1, <3>1 DEF OneRequest, At
  <2>3. GuessesCounted'
    <3> SUFFICES ASSUME code' # None
                 PROVE  guesses'[code'] <= attempts' + Wrong' /\ guesses'[code'] + Admitted' <= Limit
      BY DEF GuessesCounted, Limit
    <3>1. code' = code /\ code \in Codes /\ guesses' = guesses /\ guesses[code] \in Nat /\ attempts \in Nat
      BY <2>0 DEF ResetShape
    <3>2. guesses[code] <= attempts + Wrong /\ guesses[code] + Admitted <= Limit
      BY <2>0, <3>1 DEF GuessesCounted
    <3>3. /\ Admitted' \in Nat /\ Wrong' \in Nat /\ Admitted \in Nat /\ Wrong \in Nat /\ Limit \in Nat
          /\ Admitted' <= Admitted
      BY <2>0, ResetMoves, ResetsTyped
    <3>4. (attempts' = attempts /\ Wrong' = Wrong) \/ (attempts' = attempts + 1 /\ Wrong' >= Wrong - 1)
      <4>1. CASE attempts' = attempts /\ ~At(c, "wrong")
        BY <2>0, <4>1, ResetMoves
      <4>2. CASE attempts' = attempts + 1
        BY <2>0, <3>3, <4>2, ResetMoves
      <4> QED
        BY <1>2, <4>1, <4>2
    <3> QED
      BY <3>1, <3>2, <3>3, <3>4, StillCounted
  <2>4. GuessesLimited'
    BY <2>0 DEF GuessesLimited, Limit
  <2> QED
    BY <2>2, <2>3, <2>4
<1> QED
  BY <1>1, <1>2 DEF ResetInv

LEMMA ResetCallsTyped ==
  /\ NoReset \in ResetCall
  /\ \A step \in Steps : [NoReset EXCEPT !.step = step] \in ResetCall
  /\ \A step \in Steps : [NoReset EXCEPT !.step = step].step = step
  /\ NoReset.step = "idle"
<1>1. NoReset = [step |-> "idle", attempts |-> 0, stored |-> None]
  BY DEF NoReset
<1>2. "idle" \in Steps
  BY DEF Steps
<1> HIDE DEF Steps
<1> QED
  BY <1>1, <1>2 DEF ResetCall

LEMMA CalmStepsKeep ==
  ASSUME ResetInv, NEW c \in ResetCalls,
         \/ AskRate(c) \/ CountRequest(c) \/ CountAttempt(c) \/ TakeCodeAway(c)
         \/ EnterCode(c) \/ DropCode(c) \/ DropAttempts(c) \/ DropRequests(c) \/ ResetCutOff(c)
  PROVE  ResetInv'
<1> USE DEF At
<1>0. attempts \in Nat /\ attempts + 1 \in Nat /\ disturbed \in BOOLEAN
  BY DEF ResetInv, ResetShape
<1>1. CASE AskRate(c)
  <2>1. /\ Goto(c, [NoReset EXCEPT !.step = "asked"])
        /\ disturbed' = (disturbed \/ \E d \in ResetCalls : resetCalls[d].step \in Requesting)
        /\ UNCHANGED <<code, attempts, drawn, guesses>> /\ resetCalls[c].step = "idle"
    BY <1>1 DEF AskRate
  <2>2. "asked" \in Steps
    BY DEF Steps, Requesting
  <2>3. disturbed' \in BOOLEAN /\ (disturbed => disturbed')
        /\ (disturbed' \/ \A d \in ResetCalls : resetCalls[d].step \notin Requesting)
    BY <2>1
  <2> QED
    BY <1>0, <2>1, <2>2, <2>3, ResetCallsTyped, CalmStepKeeps
<1>2. CASE CountRequest(c)
  <2>1. "counted" \in Steps /\ "asked" \in Requesting
    BY DEF Steps, Requesting
  <2> QED
    BY <1>0, <1>2, <2>1, ResetCallsTyped, CalmStepKeeps DEF CountRequest
<1>3. CASE CountAttempt(c)
  <2>1. PICK call \in {NoReset, [NoReset EXCEPT !.step = "last"]} : Goto(c, call)
    BY <1>3 DEF CountAttempt
  <2>2. "last" \in Steps /\ "idle" \notin Requesting /\ "last" \notin Requesting
    BY DEF Steps, Requesting
  <2>3. call \in ResetCall /\ call.step \in {"idle", "last"}
    BY <2>2, ResetCallsTyped
  <2>4. attempts' = attempts + 1 /\ UNCHANGED <<code, drawn, guesses, disturbed>>
    BY <1>3 DEF CountAttempt, Counted
  <2> QED
    BY <1>0, <2>1, <2>2, <2>3, <2>4, CalmStepKeeps
<1>4. CASE TakeCodeAway(c)
  <2>1. "idle" \notin Requesting
    BY DEF Requesting
  <2> QED
    BY <1>0, <1>4, <2>1, ResetCallsTyped, CalmStepKeeps DEF TakeCodeAway
<1>5. CASE EnterCode(c)
  <2>1. "right" \in Steps /\ "right" \notin Requesting
    BY DEF Steps, Requesting, Succeeding
  <2> QED
    BY <1>0, <1>5, <2>1, ResetCallsTyped, CalmStepKeeps DEF EnterCode
<1>6. CASE DropCode(c)
  <2>1. "dropped" \in Steps /\ "dropped" \notin Requesting
    BY DEF Steps, Requesting, Succeeding
  <2> QED
    BY <1>0, <1>6, <2>1, ResetCallsTyped, CalmStepKeeps DEF DropCode
<1>7. CASE DropAttempts(c)
  <2>1. "cleared" \in Steps /\ "cleared" \notin Requesting
    BY DEF Steps, Requesting, Succeeding
  <2>2. /\ Goto(c, [NoReset EXCEPT !.step = "cleared"])
        /\ attempts' = 0 /\ disturbed' = (disturbed \/ code # None)
        /\ UNCHANGED <<code, drawn, guesses>>
    BY <1>7 DEF DropAttempts
  <2>3. disturbed' \in BOOLEAN /\ (disturbed => disturbed') /\ (disturbed' \/ code' = None)
    BY <2>2
  <2> QED
    BY <1>0, <2>1, <2>2, <2>3, ResetCallsTyped, CalmStepKeeps
<1>8. CASE DropRequests(c)
  <2>1. "idle" \notin Requesting
    BY DEF Requesting
  <2> QED
    BY <1>0, <1>8, <2>1, ResetCallsTyped, CalmStepKeeps DEF DropRequests
<1>9. CASE ResetCutOff(c)
  <2>1. "idle" \notin Requesting
    BY DEF Requesting
  <2>2. /\ Goto(c, NoReset)
        /\ disturbed' = (disturbed \/ At(c, "wrong"))
        /\ UNCHANGED <<code, attempts, drawn, guesses>>
    BY <1>9 DEF ResetCutOff
  <2>3. disturbed' \in BOOLEAN /\ (disturbed => disturbed') /\ (disturbed' \/ ~At(c, "wrong"))
    BY <2>2
  <2> QED
    BY <1>0, <2>1, <2>2, <2>3, ResetCallsTyped, CalmStepKeeps
<1> QED
  BY <1>1, <1>2, <1>3, <1>4, <1>5, <1>6, <1>7, <1>8, <1>9

\* A code that nobody has compared anything with.
LEMMA SendCodeKeeps ==
  ASSUME ResetInv, NEW c \in ResetCalls, NEW k \in Codes, SendCode(c, k)
  PROVE  ResetInv'
<1> DEFINE call == [NoReset EXCEPT !.step = "sent", !.stored = k]
<1>1. /\ At(c, "counted") /\ k \notin drawn
      /\ code' = k /\ drawn' = drawn \cup {k} /\ Goto(c, call)
      /\ UNCHANGED <<attempts, guesses, disturbed>>
  BY DEF SendCode
<1>2. call \in ResetCall /\ call.step = "sent" /\ call.stored = k
  BY DEF NoReset, ResetCall, Steps, Requesting
<1> HIDE DEF call
<1>3. ResetShape /\ guesses[k] = 0 /\ attempts \in Nat
  BY <1>1 DEF ResetInv, ResetShape
<1>4. /\ resetCalls' \in [ResetCalls -> ResetCall] /\ resetCalls'[c] = call
      /\ \A d \in ResetCalls \ {c} : resetCalls'[d] = resetCalls[d]
      /\ Admitted' = Admitted /\ Wrong' = Wrong
  BY <1>1, <1>2, <1>3, ResetMoves DEF At
<1>5. ResetShape'
  BY <1>1, <1>3, <1>4, NoneIsNoCode DEF ResetShape
<1>6. ASSUME ~disturbed
      PROVE  OneRequest' /\ GuessesCounted' /\ GuessesLimited'
  <2>1. OneRequest /\ GuessesLimited
    BY <1>6 DEF ResetInv
  <2>2. \A d \in ResetCalls \ {c} : resetCalls[d].step \notin Requesting
    BY <1>1, <2>1 DEF OneRequest, At, Requesting
  <2>3. OneRequest'
    BY <1>1, <1>2, <1>4, <2>2 DEF OneRequest, At, Requesting
  <2>4. GuessesCounted'
    <3>1. Admitted \in Nat /\ Wrong \in Nat /\ Admitted <= Limit
      <4>1. ASSUME NEW a \in Nat, NEW w \in Nat, NEW n \in Nat, NEW max \in Nat \ {0}, a + w <= n
            PROVE  a <= max - 1 + n
        BY <4>1
      <4> QED
        BY <4>1, ResetsTyped, NoneIsNoCode DEF Limit
    <3>2. 0 <= attempts + Wrong /\ 0 + Admitted <= Limit
      BY <1>3, <3>1, SumsAreNat
    <3> QED
      BY <1>1, <1>3, <1>4, <3>2 DEF GuessesCounted, Limit
  <2>5. GuessesLimited'
    BY <1>1, <2>1 DEF GuessesLimited, Limit
  <2> QED
    BY <2>3, <2>4, <2>5
<1> QED
  BY <1>1, <1>5, <1>6 DEF ResetInv

\* The code is mailed: its count and the attempts start from nothing together.
LEMMA ForgetAttemptsKeeps ==
  ASSUME ResetInv, NEW c \in ResetCalls, ForgetAttempts(c)
  PROVE  ResetInv'
<1> DEFINE k == resetCalls[c].stored
<1>1. /\ At(c, "sent") /\ attempts' = 0 /\ guesses' = [guesses EXCEPT ![k] = 0] /\ Goto(c, NoReset)
      /\ UNCHANGED <<code, drawn, disturbed>>
  BY DEF ForgetAttempts
<1>2. ResetShape /\ NoReset \in ResetCall /\ NoReset.step = "idle"
  BY ResetCallsTyped DEF ResetInv
<1>3. /\ resetCalls' \in [ResetCalls -> ResetCall] /\ resetCalls'[c] = NoReset
      /\ \A d \in ResetCalls \ {c} : resetCalls'[d] = resetCalls[d]
      /\ Admitted' = Admitted /\ Wrong' = Wrong
  BY <1>1, <1>2, ResetMoves DEF At
<1>4. /\ guesses' \in [Codes -> Nat]
      /\ \A l \in Codes : guesses'[l] = IF l = k THEN 0 ELSE guesses[l]
  BY <1>1, <1>2 DEF ResetShape
<1>5. ResetShape'
  BY <1>1, <1>2, <1>3, <1>4 DEF ResetShape
<1>6. ASSUME ~disturbed
      PROVE  OneRequest' /\ GuessesCounted' /\ GuessesLimited'
  <2>1. OneRequest /\ GuessesLimited
    BY <1>6 DEF ResetInv
  <2>2. OneRequest'
    <3>1. \A d \in ResetCalls : resetCalls'[d].step \in Requesting => d # c /\ resetCalls'[d] = resetCalls[d]
      BY <1>2, <1>3 DEF Requesting
    <3>2. \A d \in ResetCalls : ~At(d, "sent")'
      BY <1>1, <1>2, <1>3, <2>1 DEF OneRequest, At, Requesting
    <3> QED
      BY <2>1, <3>1, <3>2 DEF OneRequest
  <2>3. GuessesCounted'
    <3> SUFFICES ASSUME code' # None
                 PROVE  guesses'[code'] <= attempts' + Wrong' /\ guesses'[code'] + Admitted' <= Limit
      BY DEF GuessesCounted, Limit
    <3>1. code' = k /\ code' \in Codes
      BY <1>1, <1>2, <2>1 DEF OneRequest, ResetShape
    <3>2. guesses'[code'] = 0
      BY <1>4, <3>1
    <3>3. Admitted \in Nat /\ Wrong \in Nat /\ Admitted <= Limit
      <4>1. ASSUME NEW a \in Nat, NEW w \in Nat, NEW n \in Nat, NEW max \in Nat \ {0}, a + w <= n
            PROVE  a <= max - 1 + n
        BY <4>1
      <4> QED
        BY <4>1, ResetsTyped, NoneIsNoCode DEF Limit
    <3> QED
      BY <1>1, <1>3, <3>2, <3>3
  <2>4. GuessesLimited'
    BY <1>4, <2>1, ResetsTyped DEF GuessesLimited, Limit
  <2> QED
    BY <2>2, <2>3, <2>4
<1> QED
  BY <1>1, <1>5, <1>6 DEF ResetInv

\* A request is let in below the limit; those at a comparison or a count are no more
\* than all of them.
LEMMA ReadAttemptsKeeps ==
  ASSUME ResetInv, NEW c \in ResetCalls, ReadAttempts(c)
  PROVE  ResetInv'
<1> DEFINE call == [NoReset EXCEPT !.step = "admitted", !.attempts = attempts]
<1>1. /\ At(c, "idle") /\ attempts < MaxAttempts /\ Goto(c, call)
      /\ UNCHANGED <<code, attempts, drawn, guesses, disturbed>>
  BY DEF ReadAttempts
<1>2. ResetShape /\ attempts \in Nat
  BY DEF ResetInv, ResetShape
<1>3. call \in ResetCall /\ call.step = "admitted"
  BY <1>2 DEF NoReset, ResetCall, Steps
<1> HIDE DEF call
<1>4. /\ resetCalls' \in [ResetCalls -> ResetCall] /\ resetCalls'[c] = call
      /\ \A d \in ResetCalls \ {c} : resetCalls'[d] = resetCalls[d]
      /\ Wrong' = Wrong /\ Admitted' \in Nat
      /\ Admitted' + Wrong' <= Cardinality(ResetCalls)
  BY <1>1, <1>2, <1>3, ResetMoves DEF At
<1>5. ResetShape'
  BY <1>1, <1>2, <1>4 DEF ResetShape
<1>6. ASSUME ~disturbed
      PROVE  OneRequest' /\ GuessesCounted' /\ GuessesLimited'
  <2>1. OneRequest /\ GuessesLimited /\ GuessesCounted
    BY <1>6 DEF ResetInv
  <2>2. OneRequest'
    <3>1. \A d \in ResetCalls : resetCalls'[d].step \in Requesting \/ At(d, "sent")' => resetCalls'[d] = resetCalls[d]
      BY <1>3, <1>4 DEF Requesting, At
    <3> QED
      BY <1>1, <2>1, <3>1 DEF OneRequest, At
  <2>3. GuessesCounted'
    <3> SUFFICES ASSUME code # None
                 PROVE  guesses[code] <= attempts + Wrong' /\ guesses[code] + Admitted' <= Limit
      BY <1>1 DEF GuessesCounted, Limit
    <3>1. guesses[code] \in Nat /\ guesses[code] <= attempts + Wrong
      BY <1>2, <2>1 DEF ResetShape, GuessesCounted
    <3>2. Wrong \in Nat /\ Cardinality(ResetCalls) \in Nat /\ MaxAttempts \in Nat
          /\ Admitted' + Wrong <= Cardinality(ResetCalls)
      BY <1>4, ResetsTyped, NoneIsNoCode
    <3>3. guesses[code] + Admitted' <= MaxAttempts - 1 + Cardinality(ResetCalls)
      BY <1>1, <1>2, <1>4, <3>1, <3>2, LetIn
    <3> QED
      BY <1>4, <3>1, <3>3 DEF Limit
  <2>4. GuessesLimited'
    BY <1>1, <2>1 DEF GuessesLimited, Limit
  <2> QED
    BY <2>2, <2>3, <2>4
<1> QED
  BY <1>1, <1>5, <1>6 DEF ResetInv

\* A comparison takes the place that the request was let in for.
LEMMA GuessWrongKeeps ==
  ASSUME ResetInv, NEW c \in ResetCalls, GuessWrong(c)
  PROVE  ResetInv'
<1> DEFINE call == [resetCalls[c] EXCEPT !.step = "wrong"]
<1>1. /\ At(c, "admitted") /\ code # None /\ guesses' = [guesses EXCEPT ![code] = @ + 1]
      /\ Goto(c, call)
      /\ UNCHANGED <<code, attempts, drawn, disturbed>>
  BY DEF GuessWrong
<1>2. /\ ResetShape /\ code \in Codes /\ code \in drawn /\ attempts \in Nat
      /\ guesses \in [Codes -> Nat] /\ guesses[code] \in Nat
  BY <1>1 DEF ResetInv, ResetShape
<1>3. call \in ResetCall /\ call.step = "wrong"
  BY <1>2 DEF ResetShape, ResetCall, Steps
<1> HIDE DEF call
<1>4. /\ resetCalls' \in [ResetCalls -> ResetCall] /\ resetCalls'[c] = call
      /\ \A d \in ResetCalls \ {c} : resetCalls'[d] = resetCalls[d]
      /\ Wrong' = Wrong + 1 /\ Admitted' = Admitted - 1 /\ Admitted' \in Nat
  BY <1>1, <1>2, <1>3, ResetMoves DEF At
<1>5. /\ guesses' \in [Codes -> Nat] /\ guesses'[code] = guesses[code] + 1
      /\ \A l \in Codes \ {code} : guesses'[l] = guesses[l]
  BY <1>1, <1>2
<1>6. ResetShape'
  BY <1>1, <1>2, <1>4, <1>5 DEF ResetShape
<1>7. ASSUME ~disturbed
      PROVE  OneRequest' /\ GuessesCounted' /\ GuessesLimited'
  <2>1. OneRequest /\ GuessesLimited /\ GuessesCounted
    BY <1>7 DEF ResetInv
  <2>2. OneRequest'
    <3>1. \A d \in ResetCalls : resetCalls'[d].step \in Requesting \/ At(d, "sent")' => resetCalls'[d] = resetCalls[d]
      BY <1>3, <1>4 DEF Requesting, At
    <3> QED
      BY <1>1, <2>1, <3>1 DEF OneRequest, At
  <2>3. Admitted \in Nat /\ Wrong \in Nat /\ Limit \in Nat /\ Admitted >= 1
    BY <1>4, ResetsTyped
  <2>4. guesses[code] <= attempts + Wrong /\ guesses[code] + Admitted <= Limit
    BY <1>1, <2>1 DEF GuessesCounted
  <2>5. /\ guesses[code] + 1 <= attempts + (Wrong + 1)
        /\ (guesses[code] + 1) + (Admitted - 1) <= Limit
        /\ guesses[code] + 1 <= Limit
    BY <1>2, <2>3, <2>4, OneMoreGuess
  <2>6. GuessesCounted'
    BY <1>1, <1>4, <1>5, <2>5 DEF GuessesCounted, Limit
  <2>7. GuessesLimited'
    BY <1>5, <2>1, <2>5 DEF GuessesLimited, Limit
  <2> QED
    BY <2>2, <2>6, <2>7
<1> QED
  BY <1>1, <1>6, <1>7 DEF ResetInv

\* The inductive invariant: GuessesBounded speaks of what was compared, so it takes
\* what was counted and what may still be compared.
THEOREM ResetInvariance == ResetSpec => []ResetInv
<1>1. ResetInit => ResetInv
  <2> SUFFICES ASSUME ResetInit
               PROVE  ResetInv
    OBVIOUS
  <2>1. \A c \in ResetCalls : resetCalls[c] = NoReset /\ resetCalls[c].step = "idle"
    BY DEF ResetInit, NoReset
  <2>2. ResetShape
    BY ResetCallsTyped DEF ResetInit, ResetShape
  <2>3. OneRequest
    BY <2>1 DEF OneRequest, Requesting, At
  <2>4. GuessesCounted /\ GuessesLimited
    BY ResetsTyped DEF ResetInit, GuessesCounted, GuessesLimited
  <2> QED
    BY <2>2, <2>3, <2>4 DEF ResetInv
<1>2. ResetInv /\ [ResetNext]_resetVars => ResetInv'
  <2> SUFFICES ASSUME ResetInv, [ResetNext]_resetVars
               PROVE  ResetInv'
    OBVIOUS
  <2>1. CASE CodeExpires \/ AttemptsExpire \/ RequestsExpire \/ UNCHANGED resetVars
    <3>1. /\ UNCHANGED <<drawn, resetCalls, guesses, disturbed>>
          /\ code' = None \/ (code' = code /\ attempts' = attempts)
          /\ attempts' \in Nat
      BY <2>1 DEF CodeExpires, AttemptsExpire, RequestsExpire, resetVars, ResetInv, ResetShape
    <3>2. ResetsAt("admitted")' = ResetsAt("admitted") /\ ResetsAt("wrong")' = ResetsAt("wrong")
      BY <3>1 DEF ResetsAt, At
    <3>3. ResetShape'
      BY <3>1 DEF ResetInv, ResetShape
    <3>4. OneRequest => OneRequest'
      BY <3>1 DEF OneRequest, At
    <3>5. GuessesCounted => GuessesCounted'
      BY <3>1, <3>2 DEF GuessesCounted, Admitted, Wrong, Limit
    <3>6. GuessesLimited => GuessesLimited'
      BY <3>1 DEF GuessesLimited, Limit
    <3> QED
      BY <3>1, <3>3, <3>4, <3>5, <3>6 DEF ResetInv
  <2> QED
    BY <2>1, CalmStepsKeep, SendCodeKeeps, ForgetAttemptsKeeps, ReadAttemptsKeeps, GuessWrongKeeps
    DEF ResetNext
<1> QED
  BY <1>1, <1>2, PTL DEF ResetSpec

\* However many requests run together, the guesses at a mailed code stay below the
\* attempts allowed and the requests there can be.
THEOREM GuessesStayBounded == ResetSpec => []GuessesBounded
<1>1. ResetInv => GuessesBounded
  BY DEF ResetInv, GuessesLimited, Limit, GuessesBounded
<1> QED
  BY <1>1, ResetInvariance, PTL

\* The counts in Redis, with what is about to be added to them.
Asked == Cardinality(ResetsAt("asked"))

ResetCounts ==
  /\ attempts + Admitted + Wrong <= Limit
  /\ requests \in Nat /\ requests + Asked <= MaxRequests - 1 + Cardinality(ResetCalls)

LEMMA AskedMoves ==
  ASSUME ResetShape, NEW c \in ResetCalls, NEW call \in ResetCall, Goto(c, call)
  PROVE  /\ Asked \in Nat /\ Asked' \in Nat /\ Asked' <= Cardinality(ResetCalls)
         /\ call.step # "asked" => Asked' <= Asked
         /\ At(c, "asked") /\ call.step # "asked" => Asked' = Asked - 1
<1>1. /\ resetCalls'[c] = call /\ \A d \in ResetCalls \ {c} : resetCalls'[d] = resetCalls[d]
  BY DEF ResetShape, Goto
<1>2. /\ ResetsAt("asked") \in SUBSET ResetCalls /\ ResetsAt("asked")' \in SUBSET ResetCalls
      /\ ResetsAt("asked") \ {c} = ResetsAt("asked")' \ {c}
      /\ c \in ResetsAt("asked") <=> At(c, "asked")
      /\ c \in ResetsAt("asked")' <=> call.step = "asked"
  BY <1>1 DEF ResetsAt, At
<1> HIDE DEF ResetsAt, At
<1>3. /\ Asked \in Nat /\ Asked' \in Nat /\ Asked' <= Cardinality(ResetCalls)
      /\ (At(c, "asked") <=> call.step = "asked") => Asked' = Asked
      /\ At(c, "asked") /\ call.step # "asked" => Asked' = Asked - 1
  BY <1>2, NoneIsNoCode, OneMoves DEF Asked
<1> QED
  BY <1>3

\* A request is let in while a count is below its maximum, and what it was let in
\* for is counted at most once.
LEMMA StepCounts ==
  ASSUME ResetShape, ResetCounts, NEW c \in ResetCalls, NEW call \in ResetCall, Goto(c, call),
         \/ attempts' = 0
         \/ /\ attempts' = attempts
            /\ \/ attempts < MaxAttempts
               \/ call.step \notin {"admitted", "wrong"}
               \/ At(c, "admitted") /\ call.step = "wrong"
         \/ attempts' = attempts + 1 /\ At(c, "wrong") /\ call.step \notin {"admitted", "wrong"},
         \/ requests' = 0
         \/ requests' = requests /\ (requests < MaxRequests \/ call.step # "asked")
         \/ requests' = requests + 1 /\ At(c, "asked") /\ call.step # "asked"
  PROVE  ResetCounts'
<1>1. /\ MaxAttempts \in Nat \ {0} /\ MaxRequests \in Nat \ {0} /\ Cardinality(ResetCalls) \in Nat
      /\ attempts \in Nat /\ requests \in Nat
      /\ Limit = MaxAttempts - 1 + Cardinality(ResetCalls) /\ Limit' = Limit
  BY ResetAssumption, ResetsTyped DEF ResetShape, ResetCounts, Limit
<1>2. /\ Admitted \in Nat /\ Wrong \in Nat /\ Admitted' \in Nat /\ Wrong' \in Nat
      /\ Admitted' + Wrong' <= Cardinality(ResetCalls)
  BY ResetsTyped, ResetMoves
<1>3. ASSUME call.step \notin {"admitted", "wrong"}
      PROVE  Admitted' <= Admitted /\ Wrong' <= Wrong /\ (At(c, "wrong") => Wrong' = Wrong - 1)
  BY <1>2, <1>3, ResetMoves
<1>4. ASSUME At(c, "admitted"), call.step = "wrong"
      PROVE  Admitted' = Admitted - 1 /\ Wrong' = Wrong + 1
  <2>1. ~At(c, "wrong")
    BY <1>4 DEF At
  <2> QED
    BY <1>4, <2>1, ResetMoves
<1>5. attempts + Admitted + Wrong <= Limit
  BY DEF ResetCounts
<1>6. attempts' + Admitted' + Wrong' <= Limit
  BY <1>1, <1>2, <1>3, <1>4, <1>5
<1>7. /\ Asked \in Nat /\ Asked' \in Nat /\ Asked' <= Cardinality(ResetCalls)
      /\ call.step # "asked" => Asked' <= Asked
      /\ At(c, "asked") /\ call.step # "asked" => Asked' = Asked - 1
  BY AskedMoves
<1>8. requests + Asked <= MaxRequests - 1 + Cardinality(ResetCalls)
  BY DEF ResetCounts
<1>9. requests' \in Nat /\ requests' + Asked' <= MaxRequests - 1 + Cardinality(ResetCalls)
  BY <1>1, <1>7, <1>8
<1> QED
  BY <1>1, <1>6, <1>9 DEF ResetCounts

LEMMA StepsCount ==
  ASSUME ResetShape, ResetCounts, NEW c \in ResetCalls,
         \/ AskRate(c) \/ CountRequest(c) \/ (\E k \in Codes : SendCode(c, k)) \/ ForgetAttempts(c)
         \/ ReadAttempts(c) \/ GuessWrong(c) \/ CountAttempt(c) \/ TakeCodeAway(c)
         \/ EnterCode(c) \/ DropCode(c) \/ DropAttempts(c) \/ DropRequests(c) \/ ResetCutOff(c)
  PROVE  ResetCounts'
<1>1. ASSUME NEW step \in Steps
      PROVE  [NoReset EXCEPT !.step = step] \in ResetCall /\ [NoReset EXCEPT !.step = step].step = step
  BY ResetCallsTyped
<1>2. {"asked", "counted", "sent", "admitted", "wrong", "last", "right", "dropped", "cleared"} \subseteq Steps
  BY DEF Steps, Requesting, Succeeding
<1>3. NoReset \in ResetCall /\ NoReset.step = "idle"
  BY ResetCallsTyped
<1>4. resetCalls[c] \in ResetCall /\ attempts \in Nat
  BY DEF ResetShape
<1>5. CASE AskRate(c)
  BY <1>1, <1>2, <1>5, StepCounts DEF AskRate
<1>6. CASE CountRequest(c)
  BY <1>1, <1>2, <1>6, StepCounts DEF CountRequest
<1>7. ASSUME NEW k \in Codes, SendCode(c, k)
      PROVE  ResetCounts'
  <2> DEFINE call == [NoReset EXCEPT !.step = "sent", !.stored = k]
  <2>1. call \in ResetCall /\ call.step = "sent"
    BY <1>2 DEF NoReset, ResetCall
  <2>2. Goto(c, call) /\ UNCHANGED <<attempts, requests>>
    BY <1>7 DEF SendCode
  <2> HIDE DEF call
  <2> QED
    BY <2>1, <2>2, StepCounts
<1>8. CASE ForgetAttempts(c)
  BY <1>3, <1>8, StepCounts DEF ForgetAttempts
<1>9. CASE ReadAttempts(c)
  <2> DEFINE call == [NoReset EXCEPT !.step = "admitted", !.attempts = attempts]
  <2>1. call \in ResetCall /\ call.step = "admitted"
    BY <1>2, <1>4 DEF NoReset, ResetCall
  <2>2. Goto(c, call) /\ attempts < MaxAttempts /\ UNCHANGED <<attempts, requests>>
    BY <1>9 DEF ReadAttempts
  <2> HIDE DEF call
  <2> QED
    BY <2>1, <2>2, StepCounts
<1>10. CASE GuessWrong(c)
  <2> DEFINE call == [resetCalls[c] EXCEPT !.step = "wrong"]
  <2>1. call \in ResetCall /\ call.step = "wrong"
    BY <1>2, <1>4 DEF ResetCall
  <2>2. Goto(c, call) /\ At(c, "admitted") /\ UNCHANGED <<attempts, requests>>
    BY <1>10 DEF GuessWrong
  <2> HIDE DEF call
  <2> QED
    BY <2>1, <2>2, StepCounts
<1>11. CASE CountAttempt(c)
  <2>1. PICK call \in {[NoReset EXCEPT !.step = "last"], NoReset} : Goto(c, call)
    BY <1>11, Zenon DEF CountAttempt
  <2>2. call \in ResetCall /\ call.step \notin {"admitted", "wrong", "asked"}
    BY <1>1, <1>2, <1>3, <2>1
  <2>3. attempts' = attempts + 1 /\ At(c, "wrong") /\ requests' = requests
    BY <1>11 DEF CountAttempt, Counted
  <2> QED
    BY <2>1, <2>2, <2>3, StepCounts
<1>12. CASE TakeCodeAway(c)
  BY <1>3, <1>12, StepCounts DEF TakeCodeAway
<1>13. CASE EnterCode(c)
  BY <1>1, <1>2, <1>13, StepCounts DEF EnterCode
<1>14. CASE DropCode(c)
  BY <1>1, <1>2, <1>14, StepCounts DEF DropCode
<1>15. CASE DropAttempts(c)
  BY <1>1, <1>2, <1>15, StepCounts DEF DropAttempts
<1>16. CASE DropRequests(c)
  BY <1>3, <1>16, StepCounts DEF DropRequests
<1>17. CASE ResetCutOff(c)
  BY <1>3, <1>17, StepCounts DEF ResetCutOff
<1> QED
  BY <1>5, <1>6, <1>7, <1>8, <1>9, <1>10, <1>11, <1>12, <1>13, <1>14, <1>15, <1>16, <1>17

\* The counts in Redis pass their limits by no more than the requests in flight,
\* although each is read before it is raised.
THEOREM ResetTyped == ResetSpec => []ResetTypeOK
<1>1. ResetInit => ResetCounts
  <2> SUFFICES ASSUME ResetInit
               PROVE  ResetCounts
    OBVIOUS
  <2>1. \A step \in {"asked", "admitted", "wrong"} : ResetsAt(step) = {}
    BY DEF ResetInit, ResetsAt, At, NoReset
  <2>2. Asked = 0 /\ Admitted = 0 /\ Wrong = 0
    BY <2>1, FS_EmptySet DEF Asked, Admitted, Wrong
  <2>3. /\ attempts = 0 /\ requests = 0 /\ Cardinality(ResetCalls) \in Nat
        /\ MaxRequests \in Nat \ {0} /\ Limit \in Nat
    BY ResetAssumption, ResetsTyped DEF ResetInit
  <2> QED
    BY <2>2, <2>3 DEF ResetCounts
<1>2. ResetInv /\ ResetCounts /\ [ResetNext]_resetVars => ResetCounts'
  <2> SUFFICES ASSUME ResetInv, ResetCounts, [ResetNext]_resetVars
               PROVE  ResetCounts'
    OBVIOUS
  <2>1. CASE CodeExpires \/ AttemptsExpire \/ RequestsExpire \/ UNCHANGED resetVars
    <3>1. /\ resetCalls' = resetCalls /\ attempts' \in {0, attempts} /\ requests' \in {0, requests}
      BY <2>1 DEF CodeExpires, AttemptsExpire, RequestsExpire, resetVars
    <3>2. \A step : ResetsAt(step)' = ResetsAt(step)
      BY <3>1 DEF ResetsAt, At
    <3>3. Asked' = Asked /\ Admitted' = Admitted /\ Wrong' = Wrong /\ Limit' = Limit
      BY <3>2 DEF Asked, Admitted, Wrong, Limit
    <3>4. /\ Admitted \in Nat /\ Wrong \in Nat /\ Limit \in Nat /\ attempts \in Nat
          /\ Cardinality(ResetCalls) \in Nat
      BY ResetsTyped DEF ResetInv, ResetShape
    <3>5. Asked \in Nat /\ MaxRequests \in Nat
      <4>1. ResetsAt("asked") \in SUBSET ResetCalls
        BY DEF ResetsAt
      <4> QED
        BY <4>1, ResetAssumption, FS_Subset, FS_CardinalityType DEF Asked
    <3>6. attempts' + Admitted + Wrong <= Limit
      <4>1. attempts + Admitted + Wrong <= Limit /\ (attempts' = 0 \/ attempts' = attempts)
        BY <3>1 DEF ResetCounts
      <4>2. ASSUME NEW x \in Nat, NEW y \in Nat, NEW z \in Nat, NEW limit \in Nat, x + y + z <= limit
            PROVE  0 + y + z <= limit
        BY <4>2
      <4> QED
        BY <3>4, <4>1, <4>2
    <3>7. requests' \in Nat /\ requests' + Asked <= MaxRequests - 1 + Cardinality(ResetCalls)
      <4>1. Asked <= Cardinality(ResetCalls)
        BY ResetAssumption, FS_Subset DEF Asked, ResetsAt
      <4>2. CASE requests' = 0
        BY <3>4, <3>5, <4>1, <4>2, ResetAssumption
      <4>3. CASE requests' = requests
        BY <4>3 DEF ResetCounts
      <4> QED
        BY <3>1, <4>2, <4>3
    <3> QED
      BY <3>3, <3>6, <3>7 DEF ResetCounts
  <2>2. ASSUME NEW c \in ResetCalls,
               \/ AskRate(c) \/ CountRequest(c) \/ (\E k \in Codes : SendCode(c, k)) \/ ForgetAttempts(c)
               \/ ReadAttempts(c) \/ GuessWrong(c) \/ CountAttempt(c) \/ TakeCodeAway(c)
               \/ EnterCode(c) \/ DropCode(c) \/ DropAttempts(c) \/ DropRequests(c) \/ ResetCutOff(c)
        PROVE  ResetCounts'
    <3>1. ResetShape
      BY DEF ResetInv
    <3> QED
      BY <2>2, <3>1, StepsCount
  <2> QED
    BY <2>1, <2>2 DEF ResetNext
<1>3. ResetInv /\ ResetCounts => ResetTypeOK
  <2> SUFFICES ASSUME ResetInv, ResetCounts
               PROVE  ResetTypeOK
    OBVIOUS
  <2>1. /\ Admitted \in Nat /\ Wrong \in Nat /\ Cardinality(ResetCalls) \in Nat
        /\ attempts \in Nat /\ requests \in Nat /\ MaxAttempts \in Nat /\ MaxRequests \in Nat
    BY ResetsTyped, ResetAssumption DEF ResetInv, ResetShape, ResetCounts
  <2>2. Asked \in Nat
    <3>1. ResetsAt("asked") \in SUBSET ResetCalls
      BY DEF ResetsAt
    <3> QED
      BY <3>1, ResetAssumption, FS_Subset, FS_CardinalityType DEF Asked
  <2>3. /\ attempts \in 0..MaxAttempts + Cardinality(ResetCalls)
        /\ requests \in 0..MaxRequests + Cardinality(ResetCalls)
    BY <2>1, <2>2 DEF ResetCounts, Limit
  <2>4. \A c \in ResetCalls : resetCalls[c].step \in Steps
    BY DEF ResetInv, ResetShape, ResetCall
  <2> QED
    BY <2>3, <2>4 DEF ResetInv, ResetShape, Steps, ResetTypeOK
<1> QED
  BY <1>1, <1>2, <1>3, ResetInvariance, PTL DEF ResetSpec

------------------------------------------------------------------------------
(* Accounts.                                                               *)

UserColumns == {"email", "role", "is_active", "password_hash"}

AccountsShape ==
  /\ DOMAIN users = UserIds
  /\ \A u \in UserIds : DOMAIN users[u] = UserColumns /\ users[u].is_active \in BOOLEAN
  /\ Existing \subseteq usedUsers /\ usedUsers \subseteq UserIds
  /\ orders \in [Orders -> UserIds \cup {None}]
  /\ DOMAIN accountCalls = AccountCalls

\* An edit of the user's own leaves is_active alone or takes it away.
OwnEdit(changes) == "is_active" \in DOMAIN changes => changes.is_active = FALSE

\* What a request means to do still fits what is there when it commits: the user of
\* a deletion cannot have come back, and the orders it has read are still theirs.
OpenAccountCall(c) ==
  \/ accountCalls[c] = NoRequest
  \/ accountCalls[c].op = "register"
  \/ /\ accountCalls[c].op \in {"edit", "toggle"} /\ accountCalls[c].id \in usedUsers
     /\ "is_active" \in DOMAIN accountCalls[c].changes => accountCalls[c].changes.is_active \in BOOLEAN
     /\ accountCalls[c].op = "edit" => OwnEdit(accountCalls[c].changes)
  \/ /\ accountCalls[c].op = "delete" /\ accountCalls[c].id \in usedUsers
     /\ accountCalls[c].orders \subseteq Orders
     /\ accountCalls[c].id \in Existing =>
          \A o \in accountCalls[c].orders : orders[o] = accountCalls[c].id

AccountsInv == AccountsShape /\ \A c \in AccountCalls : OpenAccountCall(c)

LEMMA OrmEdit ==
  ASSUME NEW row, NEW edited, DOMAIN row = UserColumns
  PROVE  /\ DOMAIN OrmChanges(row, edited) \subseteq UserColumns
         /\ \A x \in DOMAIN OrmChanges(row, edited) :
              OrmChanges(row, edited)[x] = edited[x] /\ edited[x] # row[x]
  BY DEF OrmChanges

LEMMA OrmFlushed ==
  ASSUME NEW row, NEW changes, DOMAIN row = UserColumns
  PROVE  /\ DOMAIN OrmFlush(row, changes) = UserColumns
         /\ OrmFlush(row, changes).is_active =
              IF "is_active" \in DOMAIN changes THEN changes.is_active ELSE row.is_active
  BY DEF OrmFlush, UserColumns

\* A request that has read its rows.
LEMMA RequestKeeps ==
  ASSUME AccountsInv, NEW c \in AccountCalls, NEW call, Request(c, call),
         \/ call.op = "register"
         \/ /\ call.op \in {"edit", "toggle"} /\ call.id \in Existing
            /\ "is_active" \in DOMAIN call.changes => call.changes.is_active \in BOOLEAN
            /\ call.op = "edit" => OwnEdit(call.changes)
         \/ /\ call.op = "delete" /\ call.id \in Existing
            /\ call.orders = {o \in Orders : orders[o] = call.id}
  PROVE  AccountsInv'
<1>1. /\ accountCalls' = [accountCalls EXCEPT ![c] = call]
      /\ UNCHANGED <<users, usedUsers, orders>>
  BY DEF Request
<1>2. /\ accountCalls'[c] = call
      /\ \A d \in AccountCalls \ {c} : accountCalls'[d] = accountCalls[d]
      /\ AccountsShape' /\ Existing' = Existing /\ Existing \subseteq usedUsers
  BY <1>1 DEF AccountsInv, AccountsShape, Existing
<1>3. OpenAccountCall(c)'
  BY <1>1, <1>2 DEF OpenAccountCall
<1>4. \A d \in AccountCalls \ {c} : OpenAccountCall(d)'
  BY <1>1, <1>2 DEF AccountsInv, OpenAccountCall
<1> QED
  BY <1>2, <1>3, <1>4 DEF AccountsInv

LEMMA EditsKeep ==
  ASSUME AccountsInv, NEW c \in AccountCalls, NEW u \in UserIds,
         ChangePassword(c, u) \/ DeleteAccount(c, u) \/ \E b \in BOOLEAN : ToggleUserStatus(c, u, b)
  PROVE  AccountsInv'
<1>1. DOMAIN users[u] = UserColumns /\ users[u].is_active \in BOOLEAN /\ "is_active" \in UserColumns
  BY DEF AccountsInv, AccountsShape, UserColumns
<1>2. CASE ChangePassword(c, u)
  <2> DEFINE edited == [users[u] EXCEPT !.password_hash = @ + 1]
  <2>1. u \in Existing /\ Request(c, [op |-> "edit", id |-> u, changes |-> OrmChanges(users[u], edited)])
    BY <1>2 DEF ChangePassword, EditUser
  <2>2. edited.is_active = users[u].is_active
    BY <1>1
  <2> HIDE DEF edited
  <2>3. "is_active" \notin DOMAIN OrmChanges(users[u], edited)
    BY <1>1, <2>2, OrmEdit
  <2> QED
    BY <2>1, <2>3, RequestKeeps DEF OwnEdit
<1>3. CASE DeleteAccount(c, u)
  <2> DEFINE edited == [users[u] EXCEPT !.is_active = FALSE]
  <2>1. u \in Existing /\ Request(c, [op |-> "edit", id |-> u, changes |-> OrmChanges(users[u], edited)])
    BY <1>3 DEF DeleteAccount, EditUser
  <2>2. edited.is_active = FALSE
    BY <1>1
  <2> HIDE DEF edited
  <2>3. OwnEdit(OrmChanges(users[u], edited))
    BY <1>1, <2>2, OrmEdit DEF OwnEdit
  <2> QED
    BY <2>1, <2>3, RequestKeeps DEF OwnEdit
<1>4. ASSUME NEW b \in BOOLEAN, ToggleUserStatus(c, u, b)
      PROVE  AccountsInv'
  <2> DEFINE edited == [users[u] EXCEPT !.is_active = b]
  <2>1. u \in Existing /\ Request(c, [op |-> "toggle", id |-> u, changes |-> OrmChanges(users[u], edited)])
    BY <1>4 DEF ToggleUserStatus, EditUser
  <2>2. edited.is_active \in BOOLEAN
    BY <1>1
  <2> HIDE DEF edited
  <2>3. "is_active" \in DOMAIN OrmChanges(users[u], edited) => OrmChanges(users[u], edited).is_active \in BOOLEAN
    BY <1>1, <2>2, OrmEdit
  <2> QED
    BY <2>1, <2>3, RequestKeeps
<1> QED
  BY <1>2, <1>3, <1>4

\* Steps in which nobody who is gone comes back, and no order changes hands.
LEMMA NobodyReturns ==
  ASSUME AccountsInv, AccountsShape',
         usedUsers \subseteq usedUsers', Existing' \cap usedUsers \subseteq Existing,
         \A o \in Orders : orders[o] # None /\ orders[o] \in Existing' => orders'[o] = orders[o],
         \A c \in AccountCalls : accountCalls'[c] \in {accountCalls[c], NoRequest}
  PROVE  AccountsInv'
<1>1. ASSUME NEW c \in AccountCalls
      PROVE  OpenAccountCall(c)'
  <2>1. OpenAccountCall(c) /\ accountCalls'[c] \in {accountCalls[c], NoRequest}
    BY DEF AccountsInv
  <2>2. CASE accountCalls[c].op = "delete" /\ accountCalls'[c] = accountCalls[c]
    <3>1. /\ accountCalls[c].id \in usedUsers /\ accountCalls[c].orders \subseteq Orders
          /\ accountCalls[c].id \in Existing =>
               \A o \in accountCalls[c].orders : orders[o] = accountCalls[c].id
      BY <2>1, <2>2 DEF OpenAccountCall, NoRequest
    <3>2. accountCalls[c].id # None
      BY <3>1, AccountsAssumption DEF AccountsInv, AccountsShape
    <3> QED
      BY <2>2, <3>1, <3>2 DEF OpenAccountCall
  <2>3. CASE accountCalls[c].op # "delete" \/ accountCalls'[c] = NoRequest
    BY <2>1, <2>3 DEF OpenAccountCall
  <2> QED
    BY <2>1, <2>2, <2>3
<1> QED
  BY <1>1 DEF AccountsInv

LEMMA OverFrees ==
  ASSUME AccountsShape, NEW c \in AccountCalls, Over(c)
  PROVE  /\ DOMAIN accountCalls' = AccountCalls /\ accountCalls'[c] = NoRequest
         /\ \A d \in AccountCalls : accountCalls'[d] \in {accountCalls[d], NoRequest}
  BY DEF AccountsShape, Over

\* What a commit does to the rows of the users.
LEMMA CommittedUser ==
  ASSUME AccountsInv, NEW c \in AccountCalls, CommitEdit(c)
  PROVE  /\ accountCalls[c].id \in Existing /\ accountCalls'[c] = NoRequest
         /\ \A u \in UserIds \ {accountCalls[c].id} : users'[u] = users[u]
         /\ DOMAIN users'[accountCalls[c].id] = UserColumns
         /\ users'[accountCalls[c].id].is_active \in BOOLEAN
         /\ users'[accountCalls[c].id].is_active /\ ~users[accountCalls[c].id].is_active =>
              accountCalls[c].op = "toggle"
         /\ AccountsInv'
<1> DEFINE u == accountCalls[c].id
           changes == accountCalls[c].changes
<1>1. /\ accountCalls[c].op \in {"edit", "toggle"} /\ u \in Existing
      /\ users' = [users EXCEPT ![u] = OrmFlush(@, changes)] /\ Over(c)
      /\ UNCHANGED <<usedUsers, orders>>
  BY DEF CommitEdit
<1>2. /\ u \in UserIds /\ DOMAIN users[u] = UserColumns /\ users[u].is_active \in BOOLEAN
      /\ AccountsShape /\ OpenAccountCall(c)
  BY <1>1 DEF AccountsInv, AccountsShape, Existing
<1>3. /\ "is_active" \in DOMAIN changes => changes.is_active \in BOOLEAN
      /\ accountCalls[c].op = "edit" => OwnEdit(changes)
  BY <1>1, <1>2 DEF OpenAccountCall, NoRequest
<1>4. /\ users'[u] = OrmFlush(users[u], changes)
      /\ \A v \in UserIds \ {u} : users'[v] = users[v]
      /\ DOMAIN users' = UserIds
  BY <1>1, <1>2 DEF AccountsShape
<1>5. /\ DOMAIN users'[u] = UserColumns
      /\ users'[u].is_active = IF "is_active" \in DOMAIN changes THEN changes.is_active ELSE users[u].is_active
  BY <1>2, <1>4, OrmFlushed
<1>6. users'[u].is_active \in BOOLEAN
  BY <1>2, <1>3, <1>5
<1>7. users'[u].is_active /\ ~users[u].is_active => accountCalls[c].op = "toggle"
  BY <1>1, <1>3, <1>5 DEF OwnEdit
<1>8. Existing' \subseteq Existing
  BY <1>1, <1>4 DEF Existing
<1>9. AccountsShape'
  <2>1. \A v \in UserIds : DOMAIN users'[v] = UserColumns /\ users'[v].is_active \in BOOLEAN
    BY <1>2, <1>4, <1>5, <1>6 DEF AccountsShape
  <2> QED
    BY <1>1, <1>2, <1>4, <1>8, <2>1, OverFrees DEF AccountsShape
<1>10. AccountsInv'
  BY <1>1, <1>2, <1>8, <1>9, OverFrees, NobodyReturns
<1> QED
  BY <1>1, <1>2, <1>4, <1>5, <1>6, <1>7, <1>10, OverFrees

\* The order rows go only where the user goes.
LEMMA CommittedDeletion ==
  ASSUME AccountsInv, NEW c \in AccountCalls, CommitDeleteUser(c)
  PROVE  /\ \A u \in UserIds : users'[u] = users[u] \/ ~users'[u].is_active
         /\ \A o \in Orders : orders[o] # None /\ orders'[o] = None =>
              orders[o] \in Existing /\ orders[o] \notin Existing'
         /\ AccountsInv'
<1> DEFINE u == accountCalls[c].id
<1>1. /\ accountCalls[c].op = "delete" /\ u \in Existing /\ Over(c) /\ UNCHANGED usedUsers
      /\ \/ users' = [users EXCEPT ![u].is_active = FALSE, ![u].email = u] /\ UNCHANGED orders
         \/ /\ users' = [users EXCEPT ![u] = NoUser]
            /\ orders' = [o \in Orders |-> IF o \in accountCalls[c].orders THEN None ELSE orders[o]]
  BY DEF CommitDeleteUser, Deactivated
<1>2. /\ u \in UserIds /\ DOMAIN users[u] = UserColumns /\ AccountsShape
      /\ accountCalls[c].orders \subseteq Orders
      /\ \A o \in accountCalls[c].orders : orders[o] = u
  BY <1>1 DEF AccountsInv, AccountsShape, Existing, OpenAccountCall, NoRequest
<1>3. /\ \A v \in UserIds \ {u} : users'[v] = users[v]
      /\ DOMAIN users' = UserIds
      /\ DOMAIN users'[u] = UserColumns /\ users'[u].is_active = FALSE
  <2>1. CASE users' = [users EXCEPT ![u].is_active = FALSE, ![u].email = u]
    BY <1>2, <2>1 DEF AccountsShape, UserColumns
  <2>2. CASE users' = [users EXCEPT ![u] = NoUser]
    BY <1>2, <2>2 DEF AccountsShape, UserColumns, NoUser
  <2> QED
    BY <1>1, <2>1, <2>2
<1>4. Existing' \subseteq Existing
  BY <1>1, <1>3 DEF Existing
<1>5. orders' \in [Orders -> UserIds \cup {None}]
  BY <1>1, <1>2 DEF AccountsShape
<1>6. orders' = orders \/ u \notin Existing'
  BY <1>1, <1>2 DEF AccountsShape, Existing
<1>7. \A o \in Orders : orders'[o] = orders[o] \/ (orders[o] = u /\ u \notin Existing')
  BY <1>1, <1>2, <1>6
<1>8. AccountsShape'
  <2>1. \A v \in UserIds : DOMAIN users'[v] = UserColumns /\ users'[v].is_active \in BOOLEAN
    BY <1>2, <1>3 DEF AccountsShape
  <2> QED
    BY <1>1, <1>2, <1>3, <1>4, <1>5, <2>1, OverFrees DEF AccountsShape
<1>9. AccountsInv'
  BY <1>1, <1>2, <1>4, <1>7, <1>8, OverFrees, NobodyReturns
<1> QED
  BY <1>1, <1>3, <1>7, <1>9

LEMMA CommitRegisterKeeps ==
  ASSUME AccountsInv, NEW c \in AccountCalls, NEW u \in UserIds, CommitRegister(c, u)
  PROVE  AccountsInv'
<1> DEFINE row == [email |-> accountCalls[c].email, role |-> accountCalls[c].role,
                   is_active |-> TRUE, password_hash |-> 1]
<1>1. /\ u \notin usedUsers /\ users' = [users EXCEPT ![u] = row]
      /\ usedUsers' = usedUsers \cup {u} /\ Over(c) /\ UNCHANGED orders
  BY DEF CommitRegister
<1>2. DOMAIN row = UserColumns /\ row.is_active = TRUE
  BY DEF UserColumns
<1> HIDE DEF row
<1>3. /\ users'[u] = row /\ \A v \in UserIds \ {u} : users'[v] = users[v]
      /\ DOMAIN users' = UserIds
  BY <1>1 DEF AccountsInv, AccountsShape
<1>4. Existing' \subseteq Existing \cup {u}
  BY <1>3 DEF Existing
<1>5. AccountsShape'
  <2>1. \A v \in UserIds : DOMAIN users'[v] = UserColumns /\ users'[v].is_active \in BOOLEAN
    BY <1>2, <1>3 DEF AccountsInv, AccountsShape
  <2> QED
    BY <1>1, <1>3, <1>4, <2>1, OverFrees DEF AccountsInv, AccountsShape
<1> QED
  BY <1>1, <1>4, <1>5, OverFrees, NobodyReturns DEF AccountsInv

\* The inductive invariant.
THEOREM AccountsInvariance == AccountsSpec => []AccountsInv
<1>1. AccountsInit => AccountsInv
  <2> SUFFICES ASSUME AccountsInit
               PROVE  AccountsInv
    OBVIOUS
  <2>1. DOMAIN NoUser = UserColumns /\ NoUser.is_active = FALSE
    BY DEF NoUser, UserColumns
  <2>2. Existing = {}
    BY DEF AccountsInit, Existing
  <2>3. \A c \in AccountCalls : accountCalls[c] = NoRequest
    BY DEF AccountsInit
  <2>4. AccountsShape
    BY <2>1, <2>2 DEF AccountsInit, AccountsShape
  <2> QED
    BY <2>3, <2>4 DEF AccountsInv, OpenAccountCall
<1>2. AccountsInv /\ [AccountsNext]_accountsVars => AccountsInv'
  <2> SUFFICES ASSUME AccountsInv, [AccountsNext]_accountsVars
               PROVE  AccountsInv'
    OBVIOUS
  <2>1. ASSUME NEW c \in AccountCalls, NEW a \in Addresses, NEW role \in {"customer", "mechanic"},
               Register(c, a, role) \/ OauthGoogle(c, a, role)
        PROVE  AccountsInv'
    BY <2>1, RequestKeeps DEF Register, OauthGoogle, SignsUp
  <2>2. ASSUME NEW c \in AccountCalls, NEW u \in UserIds, DeleteUser(c, u)
        PROVE  AccountsInv'
    BY <2>2, RequestKeeps DEF DeleteUser
  <2>3. ASSUME NEW c \in AccountCalls, AccountCallFails(c)
        PROVE  AccountsInv'
    <3>1. Over(c) /\ UNCHANGED <<users, usedUsers, orders>>
      BY <2>3 DEF AccountCallFails
    <3>2. AccountsShape' /\ Existing' = Existing
      BY <3>1, OverFrees DEF AccountsInv, AccountsShape, Existing
    <3> QED
      BY <3>1, <3>2, OverFrees, NobodyReturns DEF AccountsInv
  <2>4. ASSUME NEW u \in UserIds, NEW o \in Orders, PlaceOrder(u, o)
        PROVE  AccountsInv'
    <3>1. /\ orders[o] = None /\ orders' = [orders EXCEPT ![o] = u]
          /\ UNCHANGED <<users, usedUsers, accountCalls>>
      BY <2>4 DEF PlaceOrder
    <3>2. AccountsShape' /\ Existing' = Existing /\ \A p \in Orders : orders[p] # None => orders'[p] = orders[p]
      BY <3>1 DEF AccountsInv, AccountsShape, Existing
    <3> QED
      BY <3>1, <3>2, NobodyReturns
  <2>5. CASE UNCHANGED <<users, usedUsers, orders, accountCalls>>
    <3>1. AccountsShape' /\ Existing' = Existing
      BY <2>5 DEF AccountsInv, AccountsShape, Existing
    <3> QED
      BY <2>5, <3>1, NobodyReturns
  <2>6. UNCHANGED accountsVars \/ (\E u \in UserIds : UseApp(u)) =>
          UNCHANGED <<users, usedUsers, orders, accountCalls>>
    BY DEF accountsVars, UseApp
  <2> QED
    BY <2>1, <2>2, <2>3, <2>4, <2>5, <2>6, EditsKeep, CommitRegisterKeeps, CommittedUser,
       CommittedDeletion DEF AccountsNext, UserAsks, AdminAsks
<1> QED
  BY <1>1, <1>2, PTL DEF AccountsSpec

\* Orders outlive every deletion that only deactivates, for any number of users and
\* of deletions and other requests in flight.
THEOREM OrdersKept == AccountsSpec => OrdersGoWithUser
<1> DEFINE A == \A o \in Orders : orders[o] # None /\ orders'[o] = None =>
                  orders[o] \in Existing /\ orders[o] \notin Existing'
<1>1. AccountsInv /\ [AccountsNext]_accountsVars => [A]_accountsVars
  <2> SUFFICES ASSUME AccountsInv, AccountsNext
               PROVE  A
    OBVIOUS
  <2>1. ASSUME NEW u \in UserIds, NEW o \in Orders, PlaceOrder(u, o)
        PROVE  A
    BY <2>1, AccountsAssumption DEF PlaceOrder, AccountsInv, AccountsShape
  <2>2. \/ orders' = orders
        \/ \E c \in AccountCalls : CommitDeleteUser(c)
        \/ \E u \in UserIds, o \in Orders : PlaceOrder(u, o)
    BY DEF AccountsNext, UserAsks, AdminAsks, Register, OauthGoogle, SignsUp, ChangePassword,
           DeleteAccount, EditUser, DeleteUser, ToggleUserStatus, Request, CommitRegister,
           CommitEdit, AccountCallFails, UseApp
  <2> QED
    BY <2>1, <2>2, CommittedDeletion
<1> QED
  BY <1>1, AccountsInvariance, PTL DEF AccountsSpec, OrdersGoWithUser

\* Whatever a request had read, a disabled account comes back only by an admin.
THEOREM DisabledStaysDisabled == AccountsSpec => OnlyAdminReactivates
<1> DEFINE A == \A u \in Existing : ~users[u].is_active /\ users'[u].is_active =>
                  \E c \in AccountCalls :
                    accountCalls[c].op = "toggle" /\ accountCalls[c].id = u /\ accountCalls'[c] = NoRequest
<1>1. AccountsInv /\ [AccountsNext]_accountsVars => [A]_accountsVars
  <2> SUFFICES ASSUME AccountsInv, AccountsNext
               PROVE  A
    OBVIOUS
  <2>1. ASSUME NEW c \in AccountCalls, NEW u \in UserIds, CommitRegister(c, u)
        PROVE  A
    <3>1. u \notin Existing /\ \A v \in UserIds \ {u} : users'[v] = users[v]
      BY <2>1 DEF CommitRegister, AccountsInv, AccountsShape
    <3> QED
      BY <3>1 DEF Existing
  <2>2. ASSUME NEW c \in AccountCalls, CommitEdit(c)
        PROVE  A
    BY <2>2, CommittedUser DEF Existing
  <2>3. ASSUME NEW c \in AccountCalls, CommitDeleteUser(c)
        PROVE  A
    BY <2>3, CommittedDeletion DEF Existing
  <2>4. \/ users' = users
        \/ \E c \in AccountCalls : CommitEdit(c) \/ CommitDeleteUser(c) \/ \E u \in UserIds : CommitRegister(c, u)
    BY DEF AccountsNext, UserAsks, AdminAsks, Register, OauthGoogle, SignsUp, ChangePassword,
           DeleteAccount, EditUser, DeleteUser, ToggleUserStatus, Request, AccountCallFails,
           UseApp, PlaceOrder
  <2> QED
    BY <2>1, <2>2, <2>3, <2>4
<1> QED
  BY <1>1, AccountsInvariance, PTL DEF AccountsSpec, OnlyAdminReactivates

\* What a request is going to write is of the columns' types, and no request
\* changes an address or a role.
TypedRequest(call) ==
  /\ call.op \in {"idle", "register", "edit", "toggle", "delete"}
  /\ call.op = "register" => call.email \in Addresses /\ call.role \in {"customer", "mechanic"}
  /\ call.op \in {"edit", "toggle"} =>
       /\ DOMAIN call.changes \subseteq {"is_active", "password_hash"}
       /\ "password_hash" \in DOMAIN call.changes => call.changes["password_hash"] \in 1..MaxPasswords

\* A user has an address that people sign up with, or the one made of its own id.
TypedUser(u) ==
  /\ users[u] \in UserRow
  /\ users[u].email \in Addresses \cup {u}
  /\ users[u].role = "mechanic" => u \in profiles

AccountTypes ==
  /\ users = [u \in UserIds |-> users[u]]
  /\ \A u \in Existing : TypedUser(u)
  /\ \A u, v \in Existing : users[u].email = users[v].email => u = v
  /\ profiles \cup linked \subseteq Existing
  /\ \A c \in AccountCalls : TypedRequest(accountCalls[c])

LEMMA NoRequestTyped == TypedRequest(NoRequest)
  BY DEF TypedRequest, NoRequest

\* The columns of a row.
LEMMA UserRowColumns ==
  ASSUME NEW row \in UserRow
  PROVE  /\ DOMAIN row = UserColumns /\ row["email"] \in Addresses \cup UserIds
         /\ row["role"] \in {"customer", "mechanic"}
         /\ row["is_active"] \in BOOLEAN /\ row["password_hash"] \in 1..MaxPasswords
         /\ row # NoUser
<1>1. /\ DOMAIN row = UserColumns /\ row["email"] \in Addresses \cup UserIds
      /\ row["role"] \in {"customer", "mechanic"}
      /\ row["is_active"] \in BOOLEAN /\ row["password_hash"] \in 1..MaxPasswords
  BY DEF UserRow, UserColumns
<1>2. NoUser["password_hash"] = 0 /\ 0 \notin 1..MaxPasswords
  BY AccountsAssumption DEF NoUser
<1> QED
  BY <1>1, <1>2

LEMMA RowOfColumns ==
  ASSUME NEW row, row = [x \in UserColumns |-> row[x]], row["email"] \in Addresses \cup UserIds,
         row["role"] \in {"customer", "mechanic"},
         row["is_active"] \in BOOLEAN, row["password_hash"] \in 1..MaxPasswords
  PROVE  row \in UserRow
<1>1. row = [email |-> row["email"], role |-> row["role"], is_active |-> row["is_active"],
             password_hash |-> row["password_hash"]]
  BY DEF UserColumns
<1> QED
  BY <1>1 DEF UserRow

\* A request that has read its rows.
LEMMA RequestTyped ==
  ASSUME AccountsInv, AccountTypes, NEW c \in AccountCalls, NEW call, Request(c, call), TypedRequest(call)
  PROVE  AccountTypes'
<1>1. /\ \A d \in AccountCalls : accountCalls'[d] = IF d = c THEN call ELSE accountCalls[d]
      /\ UNCHANGED <<users, usedUsers, profiles, linked, orders>>
  BY DEF Request, AccountsInv, AccountsShape
<1> QED
  BY <1>1 DEF AccountTypes, TypedUser, Existing

LEMMA EditsTyped ==
  ASSUME AccountsInv, AccountTypes, NEW c \in AccountCalls, NEW u \in UserIds,
         ChangePassword(c, u) \/ DeleteAccount(c, u) \/ \E b \in BOOLEAN : ToggleUserStatus(c, u, b)
  PROVE  AccountTypes'
<1> DEFINE row == users[u]
<1>1. /\ row \in UserRow /\ DOMAIN row = UserColumns /\ row["password_hash"] \in 1..MaxPasswords
  <2>1. u \in Existing
    BY DEF ChangePassword, DeleteAccount, ToggleUserStatus
  <2> QED
    BY <2>1, UserRowColumns DEF AccountTypes, TypedUser
<1>2. ASSUME NEW op \in {"edit", "toggle"}, NEW edited, EditUser(c, op, u, edited),
             \A x \in UserColumns \ {"is_active", "password_hash"} : edited[x] = row[x],
             edited["password_hash"] \in 1..MaxPasswords
      PROVE  AccountTypes'
  <2> DEFINE changes == OrmChanges(row, edited)
             call == [op |-> op, id |-> u, changes |-> changes]
  <2>1. /\ DOMAIN changes \subseteq {"is_active", "password_hash"}
        /\ \A x \in DOMAIN changes : changes[x] = edited[x]
    BY <1>1, <1>2, OrmEdit
  <2>2. Request(c, call)
    BY <1>2 DEF EditUser
  <2>3. call.op = op /\ call.changes = changes
    OBVIOUS
  <2> HIDE DEF changes, call
  <2>4. TypedRequest(call)
    BY <1>2, <2>1, <2>3 DEF TypedRequest
  <2> QED
    BY <2>2, <2>4, RequestTyped
<1>3. CASE ChangePassword(c, u)
  <2> DEFINE edited == [row EXCEPT !.password_hash = @ + 1]
  <2>1. EditUser(c, "edit", u, edited) /\ row["password_hash"] < MaxPasswords
    BY <1>3 DEF ChangePassword
  <2>2. /\ \A x \in UserColumns \ {"is_active", "password_hash"} : edited[x] = row[x]
        /\ edited["password_hash"] = row["password_hash"] + 1
    BY <1>1 DEF UserColumns
  <2>3. edited["password_hash"] \in 1..MaxPasswords
    BY <1>1, <2>1, <2>2, AccountsAssumption
  <2> HIDE DEF edited
  <2> QED
    BY <1>2, <2>1, <2>2, <2>3
<1>4. ASSUME NEW op \in {"edit", "toggle"}, NEW b \in BOOLEAN, EditUser(c, op, u, [row EXCEPT !.is_active = b])
      PROVE  AccountTypes'
  <2> DEFINE edited == [row EXCEPT !.is_active = b]
  <2>1. /\ \A x \in UserColumns \ {"is_active", "password_hash"} : edited[x] = row[x]
        /\ edited["password_hash"] = row["password_hash"]
    BY <1>1 DEF UserColumns
  <2>2. EditUser(c, op, u, edited)
    BY <1>4
  <2> HIDE DEF edited
  <2> QED
    BY <1>1, <1>2, <2>1, <2>2
<1> QED
  BY <1>3, <1>4 DEF DeleteAccount, ToggleUserStatus

LEMMA CommitEditTyped ==
  ASSUME AccountsInv, AccountTypes, NEW c \in AccountCalls, CommitEdit(c)
  PROVE  AccountTypes'
<1> PICK u \in Existing : u = accountCalls[c].id
  BY DEF CommitEdit
<1> DEFINE changes == accountCalls[c].changes
<1>1. /\ accountCalls[c].op \in {"edit", "toggle"} /\ u \in UserIds
      /\ users' = [users EXCEPT ![u] = OrmFlush(users[u], changes)] /\ Over(c)
      /\ UNCHANGED <<usedUsers, profiles, linked, orders>>
  BY DEF CommitEdit, Existing
<1>2. TypedUser(u) /\ users[u] \in UserRow /\ DOMAIN users[u] = UserColumns
  BY <1>1, UserRowColumns DEF AccountTypes, TypedUser
<1>3. /\ DOMAIN changes \subseteq {"is_active", "password_hash"}
      /\ "password_hash" \in DOMAIN changes => changes["password_hash"] \in 1..MaxPasswords
      /\ "is_active" \in DOMAIN changes => changes["is_active"] \in BOOLEAN
  BY <1>1 DEF AccountTypes, TypedRequest, AccountsInv, OpenAccountCall, NoRequest
<1> HIDE DEF changes
<1>4. /\ users'[u] = OrmFlush(users[u], changes)
      /\ \A v \in UserIds \ {u} : users'[v] = users[v]
      /\ users' = [v \in UserIds |-> users'[v]]
  BY <1>1 DEF AccountTypes
<1>5. /\ users'[u] = [x \in UserColumns |-> users'[u][x]]
      /\ \A x \in UserColumns : users'[u][x] = IF x \in DOMAIN changes THEN changes[x] ELSE users[u][x]
  BY <1>2, <1>4 DEF OrmFlush
<1>6. /\ users'[u]["email"] = users[u]["email"] /\ users'[u]["role"] = users[u]["role"]
      /\ users'[u]["is_active"] \in BOOLEAN /\ users'[u]["password_hash"] \in 1..MaxPasswords
  BY <1>2, <1>3, <1>5, UserRowColumns DEF UserColumns
<1>7. users'[u] \in UserRow
  BY <1>2, <1>5, <1>6, RowOfColumns, UserRowColumns
<1>8. Existing' = Existing
  BY <1>1, <1>4, <1>7, UserRowColumns DEF Existing
<1>9. \A v \in Existing' : TypedUser(v)'
  <2>1. TypedUser(u)'
    BY <1>1, <1>2, <1>6, <1>7 DEF TypedUser
  <2>2. \A v \in Existing \ {u} : TypedUser(v)'
    BY <1>1, <1>4 DEF AccountTypes, TypedUser, Existing
  <2> QED
    BY <1>8, <2>1, <2>2
<1>10. \A v \in Existing : users'[v].email = users[v].email
  BY <1>4, <1>6 DEF Existing
<1>11. \A d \in AccountCalls : TypedRequest(accountCalls'[d])
  BY <1>1, NoRequestTyped, OverFrees DEF AccountsInv, AccountTypes
<1> QED
  BY <1>1, <1>4, <1>8, <1>9, <1>10, <1>11 DEF AccountTypes

LEMMA CommitDeletionTyped ==
  ASSUME AccountsInv, AccountTypes, NEW c \in AccountCalls, CommitDeleteUser(c)
  PROVE  AccountTypes'
<1> PICK u \in Existing : u = accountCalls[c].id
  BY DEF CommitDeleteUser
<1>1. /\ u \in UserIds /\ Over(c) /\ UNCHANGED <<usedUsers, profiles, linked>>
      /\ \/ users' = [users EXCEPT ![u].is_active = FALSE, ![u].email = u]
         \/ users' = [users EXCEPT ![u] = NoUser] /\ u \notin profiles \cup linked
  BY DEF CommitDeleteUser, Deactivated, Existing
<1>2. TypedUser(u) /\ users[u] \in UserRow /\ DOMAIN users[u] = UserColumns
      /\ users = [v \in UserIds |-> users[v]]
  BY <1>1, UserRowColumns DEF AccountTypes, TypedUser
<1>3. \A d \in AccountCalls : TypedRequest(accountCalls'[d])
  BY <1>1, NoRequestTyped, OverFrees DEF AccountsInv, AccountTypes
<1>4. CASE users' = [users EXCEPT ![u].is_active = FALSE, ![u].email = u]
  <2>1. /\ \A v \in UserIds \ {u} : users'[v] = users[v]
        /\ users' = [v \in UserIds |-> users'[v]]
        /\ users'[u] = [[users[u] EXCEPT !.is_active = FALSE] EXCEPT !.email = u]
    BY <1>1, <1>2, <1>4
  <2>2. /\ users'[u] \in UserRow /\ users'[u].email = u /\ users'[u].role = users[u].role
    <3> DEFINE row == users[u]
    <3>1. row \in UserRow
      BY <1>2
    <3>2. /\ [[row EXCEPT !.is_active = FALSE] EXCEPT !.email = u] \in UserRow
          /\ [[row EXCEPT !.is_active = FALSE] EXCEPT !.email = u].email = u
          /\ [[row EXCEPT !.is_active = FALSE] EXCEPT !.email = u].role = row.role
      <4> HIDE DEF row
      <4> QED
        BY <1>1, <3>1 DEF UserRow
    <3> QED
      BY <2>1, <3>2
  <2>3. Existing' = Existing
    BY <1>1, <2>1, <2>2, UserRowColumns DEF Existing
  <2>4. \A v \in Existing' : TypedUser(v)'
    <3>1. TypedUser(u)'
      BY <1>1, <1>2, <2>2 DEF TypedUser
    <3>2. \A v \in Existing \ {u} : TypedUser(v)'
      BY <1>1, <2>1 DEF AccountTypes, TypedUser, Existing
    <3> QED
      BY <2>3, <3>1, <3>2
  <2>5. \A v \in Existing \ {u} : users'[v].email = users[v].email /\ users'[v].email # u
    BY <1>1, <2>1, AccountsAssumption DEF AccountTypes, TypedUser, Existing
  <2>6. \A v, w \in Existing' : users'[v].email = users'[w].email => v = w
    BY <2>2, <2>3, <2>5 DEF AccountTypes
  <2> QED
    BY <1>1, <1>3, <2>1, <2>3, <2>4, <2>6 DEF AccountTypes
<1>5. CASE users' = [users EXCEPT ![u] = NoUser] /\ u \notin profiles \cup linked
  <2>1. /\ users'[u] = NoUser /\ \A v \in UserIds \ {u} : users'[v] = users[v]
        /\ users' = [v \in UserIds |-> users'[v]]
    BY <1>1, <1>2, <1>5
  <2>2. Existing' = Existing \ {u} /\ \A v \in Existing' : users'[v] = users[v]
    BY <2>1 DEF Existing
  <2>3. \A v \in Existing' : TypedUser(v)'
    BY <1>1, <2>2 DEF AccountTypes, TypedUser
  <2> QED
    BY <1>1, <1>3, <1>5, <2>1, <2>2, <2>3 DEF AccountTypes
<1> QED
  BY <1>1, <1>4, <1>5

LEMMA CommitRegisterTyped ==
  ASSUME AccountsInv, AccountTypes, NEW c \in AccountCalls, NEW u \in UserIds, CommitRegister(c, u)
  PROVE  AccountTypes'
<1> DEFINE call == accountCalls[c]
           row == [email |-> call.email, role |-> call.role, is_active |-> TRUE, password_hash |-> 1]
<1>1. /\ call.op = "register" /\ u \notin usedUsers /\ users' = [users EXCEPT ![u] = row]
      /\ \A v \in Existing : users[v].email # call.email
      /\ profiles' = profiles \cup {v \in {u} : call.role # "customer"}
      /\ Over(c) /\ UNCHANGED <<linked, orders>>
  BY DEF CommitRegister, WithProfile
<1>2. call.email \in Addresses /\ call.role \in {"customer", "mechanic"}
  BY <1>1 DEF AccountTypes, TypedRequest
<1>3. row \in UserRow /\ row.email = call.email /\ row.role = call.role
  BY <1>2, AccountsAssumption DEF UserRow
<1> HIDE DEF row
<1>4. /\ users'[u] = row /\ \A v \in UserIds \ {u} : users'[v] = users[v]
      /\ users' = [v \in UserIds |-> users'[v]]
      /\ u \notin Existing
  BY <1>1 DEF AccountTypes, AccountsInv, AccountsShape
<1>5. Existing' = Existing \cup {u} /\ \A v \in Existing : users'[v] = users[v]
  BY <1>3, <1>4, UserRowColumns DEF Existing
<1>6. \A v \in Existing' : TypedUser(v)'
  <2>1. TypedUser(u)'
    BY <1>1, <1>2, <1>3, <1>4 DEF TypedUser
  <2>2. \A v \in Existing : TypedUser(v)'
    BY <1>1, <1>5 DEF AccountTypes, TypedUser
  <2> QED
    BY <1>5, <2>1, <2>2
<1>7. \A v, w \in Existing' : users'[v].email = users'[w].email => v = w
  BY <1>1, <1>3, <1>4, <1>5 DEF AccountTypes
<1>8. \A d \in AccountCalls : TypedRequest(accountCalls'[d])
  BY <1>1, NoRequestTyped, OverFrees DEF AccountsInv, AccountTypes
<1>9. profiles' \cup linked' \subseteq Existing'
  BY <1>1, <1>5 DEF AccountTypes
<1> QED
  BY <1>4, <1>6, <1>7, <1>8, <1>9 DEF AccountTypes

\* Whatever registrations, edits and deletions overlap: no two users share an
\* address, no provider is without its profile and no profile without its user.
THEOREM AccountsTyped == AccountsSpec => []AccountsTypeOK
<1>1. AccountsInit => AccountTypes
  BY NoRequestTyped DEF AccountsInit, AccountTypes, Existing
<1>2. AccountsInv /\ AccountTypes /\ [AccountsNext]_accountsVars => AccountTypes'
  <2> SUFFICES ASSUME AccountsInv, AccountTypes, [AccountsNext]_accountsVars
               PROVE  AccountTypes'
    OBVIOUS
  <2>1. ASSUME NEW c \in AccountCalls, NEW a \in Addresses, NEW role \in {"customer", "mechanic"},
               Register(c, a, role) \/ OauthGoogle(c, a, role)
        PROVE  AccountTypes'
    BY <2>1, RequestTyped DEF Register, OauthGoogle, SignsUp, TypedRequest
  <2>2. ASSUME NEW c \in AccountCalls, NEW u \in UserIds, DeleteUser(c, u)
        PROVE  AccountTypes'
    BY <2>2, RequestTyped DEF DeleteUser, TypedRequest
  <2>3. ASSUME NEW c \in AccountCalls, AccountCallFails(c)
        PROVE  AccountTypes'
    <3>1. Over(c) /\ UNCHANGED <<users, profiles, linked>>
      BY <2>3 DEF AccountCallFails
    <3>2. \A d \in AccountCalls : TypedRequest(accountCalls'[d])
      BY <3>1, NoRequestTyped, OverFrees DEF AccountsInv, AccountTypes
    <3> QED
      BY <3>1, <3>2 DEF AccountTypes, TypedUser, Existing
  <2>4. CASE (\E u \in UserIds : UseApp(u) \/ \E o \in Orders : PlaceOrder(u, o)) \/ UNCHANGED accountsVars
    <3>1. /\ UNCHANGED <<users, profiles, accountCalls>>
          /\ linked' = linked \/ \E u \in Existing : linked' = linked \cup {u}
      BY <2>4 DEF UseApp, PlaceOrder, accountsVars
    <3> QED
      BY <3>1 DEF AccountTypes, TypedUser, Existing
  <2> QED
    BY <2>1, <2>2, <2>3, <2>4, EditsTyped, CommitRegisterTyped, CommitEditTyped, CommitDeletionTyped
    DEF AccountsNext, UserAsks, AdminAsks
<1>3. AccountsInv /\ AccountTypes => AccountsTypeOK
  <2> SUFFICES ASSUME AccountsInv, AccountTypes
               PROVE  AccountsTypeOK
    OBVIOUS
  <2>1. \A u \in UserIds : users[u] = NoUser \/ users[u] \in UserRow
    BY DEF AccountTypes, TypedUser, Existing
  <2>2. users \in [UserIds -> UserRow \cup {NoUser}]
    BY <2>1 DEF AccountTypes
  <2> QED
    BY <2>2 DEF AccountsInv, AccountsShape, AccountTypes, TypedUser, TypedRequest, AccountsTypeOK
<1> QED
  BY <1>1, <1>2, <1>3, AccountsInvariance, PTL DEF AccountsSpec

=============================================================================
