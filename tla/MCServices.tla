----------------------------- MODULE MCServices -----------------------------
(***************************************************************************)
(* The services around the jobs, the marketplace among them, for TLC.      *)
(* They share no state and call nothing of each other, so a run is in one  *)
(* of them, with the others at rest: that visits every state of each.      *)
(***************************************************************************)
EXTENDS Providers, Reviews, Matching, Accounts, Sessions, PasswordReset, Chat, Records,
        DeviceTokens, Disputes, Logins, Listings, Cart, Fitments, TLC

CONSTANTS seller1, seller2, admin, key1, key2

\* Somebody everything speaks for, and then one thing against each.
Fit == [verified |-> TRUE, available |-> TRUE, penalized |-> FALSE, is_active |-> TRUE,
        distance |-> 1, rating |-> 5, skills |-> {"tires"}]
MCCandidates ==
  {Fit,
   [Fit EXCEPT !.verified = FALSE], [Fit EXCEPT !.available = FALSE],
   [Fit EXCEPT !.penalized = TRUE], [Fit EXCEPT !.is_active = FALSE],
   [Fit EXCEPT !.distance = 30],
   [Fit EXCEPT !.distance = 3, !.rating = 0, !.skills = {"tires", "oil"}],
   [Fit EXCEPT !.distance = 2, !.rating = 1, !.skills = {}]}
MCTags == {"flat_tire", "tires", "other", None}

\* Two sellers whose stores have one name, as nothing forbids.
MCDisplayName == [u \in {seller1, seller2, admin} |-> IF u = admin THEN "HQ" ELSE "Spares"]
MCForm == [k \in {key1, key2} |->
             IF k = key1 THEN [seller |-> seller1, category |-> "spare-parts"]
             ELSE [seller |-> seller2, category |-> None]]

VARIABLE part

\* The product and vendor of an old listing are any: their ids are interchangeable.
MCInit ==
  /\ part \in {"providers", "reviews", "matching", "accounts",
               "sessions", "reset", "chat", "records", "devices",
               "disputes", "logins", "listings", "cart", "fitments"}
  /\ (part # "fitments" => fitments = {})                          /\ FitmentsInit
  /\ (part # "providers" => unseen = {})                           /\ ProvidersInit
  /\ (part # "sessions" => redisUp = TRUE)                         /\ SessionsInit
  /\ (part # "chat" => assigned = CHOOSE h \in Helpers : TRUE)     /\ ChatInit
  /\ (part # "records" => kind = "settings")                       /\ RecordsInit
  /\ (part # "listings" => usedIds = {})                           /\ ListingsInit
  /\ usedIds \subseteq {CHOOSE p \in ProductIds : TRUE}
  /\ \A v \in VendorIds : vendors[v] # None => v = CHOOSE w \in VendorIds : TRUE
  /\ ReviewsInit /\ AccountsInit /\ ResetInit /\ DeviceTokensInit /\ DisputesInit
  /\ LoginsInit /\ CartInit
  /\ (part # "matching" => table = << >> /\ database = "sqlite")   /\ MatchingInit

MCNext ==
  /\ UNCHANGED part
  /\ \/ part = "providers" /\ ProvidersNext
     \/ part = "reviews"   /\ ReviewsNext
     \/ part = "matching"  /\ MatchingNext
     \/ part = "accounts"  /\ AccountsNext
     \/ part = "sessions"  /\ SessionsNext
     \/ part = "reset"     /\ ResetNext
     \/ part = "chat"      /\ ChatNext
     \/ part = "records"   /\ RecordsNext
     \/ part = "devices"   /\ DeviceTokensNext
     \/ part = "disputes"  /\ DisputesNext
     \/ part = "logins"    /\ LoginsNext
     \/ part = "listings"  /\ ListingsNext
     \/ part = "cart"      /\ CartNext
     \/ part = "fitments"  /\ FitmentsNext
  /\ part # "providers" => UNCHANGED providersVars
  /\ part # "reviews"   => UNCHANGED reviewsVars
  /\ part # "matching"  => UNCHANGED matchingVars
  /\ part # "accounts"  => UNCHANGED accountsVars
  /\ part # "sessions"  => UNCHANGED sessionsVars
  /\ part # "reset"     => UNCHANGED resetVars
  /\ part # "chat"      => UNCHANGED chatVars
  /\ part # "records"   => UNCHANGED recordsVars
  /\ part # "devices"   => UNCHANGED deviceTokensVars
  /\ part # "disputes"  => UNCHANGED disputesVars
  /\ part # "logins"    => UNCHANGED loginsVars
  /\ part # "listings"  => UNCHANGED listingsVars
  /\ part # "cart"      => UNCHANGED cartVars
  /\ part # "fitments"  => UNCHANGED fitmentsVars

MCSpec ==
  /\ MCInit
  /\ [][MCNext]_<<part, providersVars, reviewsVars, matchingVars, accountsVars,
                  sessionsVars, resetVars, chatVars, recordsVars, deviceTokensVars,
                  disputesVars, loginsVars, listingsVars, cartVars, fitmentsVars>>

\* The types of all parts.
ServicesTypeOK ==
  /\ ProvidersTypeOK /\ ReviewsTypeOK /\ MatchingTypeOK /\ AccountsTypeOK
  /\ SessionsTypeOK /\ ResetTypeOK /\ ChatTypeOK /\ RecordsTypeOK
  /\ DeviceTokensTypeOK /\ DisputesTypeOK /\ LoginsTypeOK
  /\ ListingsTypeOK /\ CartTypeOK /\ FitmentsTypeOK

\* The requests of all services are called alike.
MCSymmetry ==
  UNION {Permutations(s) : s \in {AccountCalls, SocketIds}}

=============================================================================
