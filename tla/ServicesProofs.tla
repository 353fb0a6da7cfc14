--------------------------- MODULE ServicesProofs ---------------------------
(***************************************************************************)
(* Theorems about the services around a job, each for any number of        *)
(* requests, rows and providers: Reviews (RatingExact), Providers          *)
(* (AdminDecisionsStand, ReviewsTakeEffect), DeviceTokens                  *)
(* (LastWordCounts), Chat (ChatAgrees) and Matching (SearchComplete); and  *)
(* about all services as MCServices puts them together: each is what it is *)
(* alone, and the types of all are kept (ServicesTypeOK).                  *)
(***************************************************************************)
EXTENDS MCServices, MarketplaceProofs, AuthProofs, RecordsProofs, DisputesProofs, FiniteSetTheorems, TLAPS

------------------------------------------------------------------------------
(* Reviews.                                                                *)

ReviewCall ==
  [step : {"idle", "checked", "averaged"}, job : ReviewJobs \cup {None},
   averaged : SUBSET ReviewIds, id : ReviewIds \cup {None}, alone : BOOLEAN]

\* A request that has been alone so far is alone, and its average is of what is
\* stored and of its own review.
ExactCall(c) ==
  /\ reviewCalls[c].step # "idle" => reviewCalls[c].job \in ReviewJobs
  /\ reviewCalls[c].step = "averaged" => /\ reviewCalls[c].id \in ReviewIds
                                         /\ reviewCalls[c].job \notin deletedJobs
  /\ reviewCalls[c].step = "idle" => reviewCalls[c] = NoReview
  /\ reviewCalls[c].step # "idle" /\ reviewCalls[c].alone =>
       /\ \A d \in ReviewCalls \ {c} : reviewCalls[d] = NoReview
       /\ reviewCalls[c].step = "averaged" =>
            reviewCalls[c].averaged = Stored \cup {reviewCalls[c].id}

AloneIsExact == \A c \in ReviewCalls : ExactCall(c)

ReviewsInv ==
  /\ reviews \in [ReviewIds -> ReviewJobs \cup {None}]
  /\ reviewCalls \in [ReviewCalls -> ReviewCall]
  /\ AloneIsExact
  /\ RatingExact

LEMMA CheckReviewKeeps ==
  ASSUME ReviewsInv, NEW c \in ReviewCalls, NEW j \in ReviewJobs, CheckReview(c, j)
  PROVE  ReviewsInv'
<1> DEFINE alone == \A d \in ReviewCalls : reviewCalls[d] = NoReview
<1>1. /\ reviewCalls' = [d \in ReviewCalls |->
           IF d = c THEN [NoReview EXCEPT !.step = "checked", !.job = j, !.alone = alone]
           ELSE [reviewCalls[d] EXCEPT !.alone = @ /\ reviewCalls[d] = NoReview]]
      /\ UNCHANGED <<reviews, deletedJobs, rating, withdrawn, overtaken>>
      /\ reviewCalls[c] = NoReview
  BY DEF CheckReview
<1>2. alone \in BOOLEAN
  OBVIOUS
<1>3. alone => \A d \in ReviewCalls : reviewCalls[d] = NoReview
  OBVIOUS
<1> HIDE DEF alone
<1>4. reviewCalls'[c] = [step |-> "checked", job |-> j, averaged |-> {}, id |-> None, alone |-> alone]
  BY <1>1 DEF NoReview
<1>5. ASSUME NEW d \in ReviewCalls \ {c}
      PROVE  /\ reviewCalls'[d] \in ReviewCall
             /\ reviewCalls[d] = NoReview => reviewCalls'[d] = NoReview
             /\ reviewCalls'[d].step = reviewCalls[d].step
             /\ reviewCalls'[d].job = reviewCalls[d].job
             /\ reviewCalls'[d].id = reviewCalls[d].id
             /\ reviewCalls[d] # NoReview => ~reviewCalls'[d].alone
  BY <1>1 DEF ReviewsInv, ReviewCall, NoReview
<1>6. reviewCalls'[c] \in ReviewCall
  BY <1>2, <1>4 DEF ReviewCall
<1>7. reviewCalls' \in [ReviewCalls -> ReviewCall]
  BY <1>1, <1>5, <1>6
<1>8. ASSUME NEW d \in ReviewCalls
      PROVE  ExactCall(d)'
  <2>1. CASE d = c
    BY <1>3, <1>4, <1>5, <2>1 DEF ExactCall
  <2>2. CASE d # c
    <3>1. ExactCall(d) /\ (reviewCalls[d].step # "idle" => reviewCalls[d] # NoReview)
      BY DEF ReviewsInv, AloneIsExact, NoReview
    <3>2. deletedJobs' = deletedJobs
      BY <1>1
    <3> QED
      BY <1>5, <2>2, <3>1, <3>2 DEF ExactCall
  <2> QED
    BY <2>1, <2>2
<1> QED
  BY <1>1, <1>7, <1>8 DEF ReviewsInv, AloneIsExact, RatingExact, Stored, UsedReviews

LEMMA AverageKeeps ==
  ASSUME ReviewsInv, NEW c \in ReviewCalls, NEW i \in ReviewIds, AverageReviews(c, i)
  PROVE  ReviewsInv'
<1>1. /\ reviewCalls' = [reviewCalls EXCEPT ![c].step = "averaged", ![c].averaged = Averaged(i), ![c].id = i]
      /\ UNCHANGED <<reviews, deletedJobs, rating, withdrawn, overtaken>>
      /\ reviewCalls[c].step = "checked" /\ reviewCalls[c].job \notin deletedJobs
  BY DEF AverageReviews
<1>2. /\ reviewCalls'[c] = [step |-> "averaged", job |-> reviewCalls[c].job,
                            averaged |-> Stored \cup {i}, id |-> i,
                            alone |-> reviewCalls[c].alone]
      /\ \A d \in ReviewCalls \ {c} : reviewCalls'[d] = reviewCalls[d]
  BY <1>1 DEF ReviewsInv, ReviewCall, Averaged
<1>3. reviewCalls'[c] \in ReviewCall
  BY <1>2 DEF ReviewsInv, ReviewCall, Stored, UsedReviews
<1>4. reviewCalls' \in [ReviewCalls -> ReviewCall]
  BY <1>1, <1>2, <1>3 DEF ReviewsInv
<1>5. ASSUME NEW d \in ReviewCalls
      PROVE  ExactCall(d)'
  <2>1. ExactCall(c) /\ ExactCall(d)
    BY DEF ReviewsInv, AloneIsExact
  <2>2. Stored' = Stored
    BY <1>1 DEF Stored, UsedReviews
  <2>3. CASE d = c
    <3>1. /\ reviewCalls'[c].step = "averaged" /\ reviewCalls'[c].id = i
          /\ reviewCalls'[c].job = reviewCalls[c].job
          /\ reviewCalls'[c].alone = reviewCalls[c].alone
          /\ reviewCalls'[c].averaged = Stored \cup {i}
      BY <1>2
    <3>2. reviewCalls[c].job \in ReviewJobs /\ reviewCalls[c].job \notin deletedJobs'
      BY <1>1, <2>1 DEF ExactCall
    <3>3. reviewCalls[c].alone => \A e \in ReviewCalls \ {c} : reviewCalls'[e] = NoReview
      BY <1>1, <1>2, <2>1 DEF ExactCall
    <3>4. ExactCall(c)'
      BY <2>2, <3>1, <3>2, <3>3 DEF ExactCall
    <3> QED
      BY <2>3, <3>4
  <2>4. CASE d # c
    <3>1. reviewCalls[c] # NoReview /\ deletedJobs' = deletedJobs
      BY <1>1 DEF NoReview
    <3>2. reviewCalls'[d] = reviewCalls[d] /\ (reviewCalls[d].step # "idle" => ~reviewCalls[d].alone)
      BY <1>2, <2>1, <2>4, <3>1 DEF ExactCall
    <3> QED
      BY <1>2, <2>1, <2>4, <3>1, <3>2 DEF ExactCall, NoReview
  <2> QED
    BY <2>3, <2>4
<1> QED
  BY <1>1, <1>4, <1>5 DEF ReviewsInv, AloneIsExact, RatingExact, Stored, UsedReviews

LEMMA CommitReviewKeeps ==
  ASSUME ReviewsInv, NEW c \in ReviewCalls, CommitReview(c)
  PROVE  ReviewsInv'
<1> DEFINE call == reviewCalls[c]
<1>1. /\ call.step = "averaged" /\ call \in ReviewCall /\ call.id \in ReviewIds /\ call.job \in ReviewJobs
      /\ reviews' = [reviews EXCEPT ![call.id] = call.job]
      /\ call.job \notin deletedJobs /\ deletedJobs' = deletedJobs
      /\ rating' = call.averaged /\ withdrawn' = {} /\ overtaken' = ~call.alone
      /\ reviewCalls' = [reviewCalls EXCEPT ![c] = NoReview]
  BY DEF CommitReview, ReviewsInv, AloneIsExact, ExactCall
<1>2. Stored' = Stored \cup {call.id}
  BY <1>1, ReviewsAssumption DEF ReviewsInv, Stored, UsedReviews
<1>3. RatingExact'
  BY <1>1, <1>2 DEF ReviewsInv, AloneIsExact, ExactCall, RatingExact
<1>4. AloneIsExact'
  BY <1>1 DEF ReviewsInv, AloneIsExact, ExactCall, NoReview
<1>5. reviews' \in [ReviewIds -> ReviewJobs \cup {None}]
  BY <1>1 DEF ReviewsInv
<1>6. reviewCalls' \in [ReviewCalls -> ReviewCall]
  BY <1>1 DEF ReviewsInv, ReviewCall, NoReview
<1> QED
  BY <1>3, <1>4, <1>5, <1>6 DEF ReviewsInv

\* A job that goes takes its reviews out of what is stored, and puts them into what
\* the rating counts besides; an average that counted one of them is not alone.
LEMMA DeleteJobKeepsReviews ==
  ASSUME ReviewsInv, NEW j \in ReviewJobs, DeleteJob(j)
  PROVE  ReviewsInv'
<1> DEFINE gone == {i \in Stored : reviews[i] = j}
<1>1. /\ \A c \in ReviewCalls : reviewCalls[c].step = "averaged" => reviewCalls[c].job # j
      /\ deletedJobs' = deletedJobs \cup {j} /\ withdrawn' = withdrawn \cup gone
      /\ reviewCalls' = [c \in ReviewCalls |->
           [reviewCalls[c] EXCEPT !.alone = @ /\ reviewCalls[c].averaged \cap gone = {}]]
      /\ UNCHANGED <<reviews, rating, overtaken>>
  BY DEF DeleteJob
<1>2. Stored' = Stored \ gone /\ gone \subseteq Stored
  BY <1>1 DEF Stored, UsedReviews
<1> HIDE DEF gone
<1>3. RatingExact'
  BY <1>1, <1>2 DEF ReviewsInv, RatingExact
<1>4. ASSUME NEW c \in ReviewCalls
      PROVE  /\ reviewCalls'[c] \in ReviewCall
             /\ reviewCalls'[c].step = reviewCalls[c].step /\ reviewCalls'[c].job = reviewCalls[c].job
             /\ reviewCalls'[c].id = reviewCalls[c].id
             /\ reviewCalls'[c].averaged = reviewCalls[c].averaged
             /\ reviewCalls'[c].alone => reviewCalls[c].alone /\ reviewCalls[c].averaged \cap gone = {}
             /\ reviewCalls[c] = NoReview => reviewCalls'[c] = NoReview
  <2>1. reviewCalls[c] \in ReviewCall
    BY DEF ReviewsInv
  <2> DEFINE old == reviewCalls[c]
             alone == old.alone /\ old.averaged \cap gone = {}
  <2>2. alone \in BOOLEAN /\ (alone => old.alone /\ old.averaged \cap gone = {})
        /\ (old.alone /\ old.averaged = {} => alone = TRUE)
    OBVIOUS
  <2>3. reviewCalls'[c] = [old EXCEPT !.alone = alone]
    BY <1>1
  <2> HIDE DEF alone
  <2>4. reviewCalls'[c] = [step |-> old.step, job |-> old.job, averaged |-> old.averaged,
                          id |-> old.id, alone |-> alone]
    BY <2>1, <2>3 DEF ReviewCall
  <2>5. old = NoReview => reviewCalls'[c] = NoReview
    BY <2>2, <2>4 DEF NoReview
  <2>6. /\ old.step \in {"idle", "checked", "averaged"} /\ old.job \in ReviewJobs \cup {None}
        /\ old.averaged \in SUBSET ReviewIds /\ old.id \in ReviewIds \cup {None}
    BY <2>1 DEF ReviewCall
  <2> HIDE DEF old
  <2>7. reviewCalls'[c] \in ReviewCall
    BY <2>2, <2>4, <2>6 DEF ReviewCall
  <2> QED
    BY <2>2, <2>4, <2>5, <2>7 DEF old
<1>5. reviewCalls' \in [ReviewCalls -> ReviewCall]
  BY <1>1, <1>4
<1>6. ASSUME NEW c \in ReviewCalls
      PROVE  ExactCall(c)'
  <2>1. ExactCall(c)
    BY DEF ReviewsInv, AloneIsExact
  <2>2. ASSUME reviewCalls'[c].step = "averaged", reviewCalls'[c].alone
        PROVE  reviewCalls'[c].averaged = Stored' \cup {reviewCalls'[c].id}
    <3>1. reviewCalls[c].averaged = Stored \cup {reviewCalls[c].id} /\ reviewCalls[c].averaged \cap gone = {}
      BY <1>4, <2>1, <2>2 DEF ExactCall
    <3>2. gone = {}
      BY <1>2, <3>1
    <3> QED
      BY <1>2, <1>4, <3>1, <3>2
  <2>3. reviewCalls'[c].step # "idle" /\ reviewCalls'[c].alone =>
          \A d \in ReviewCalls \ {c} : reviewCalls'[d] = NoReview
    BY <1>4, <2>1 DEF ExactCall
  <2>4. reviewCalls'[c].step = "averaged" => reviewCalls'[c].job \notin deletedJobs'
    BY <1>1, <1>4, <2>1 DEF ExactCall
  <2> QED
    BY <1>4, <2>1, <2>2, <2>3, <2>4 DEF ExactCall
<1> QED
  BY <1>1, <1>3, <1>5, <1>6 DEF ReviewsInv, AloneIsExact

\* The inductive invariant: AloneIsExact is what makes a commit right. Without it
\* an average could be stale although its request thinks that it ran alone.
THEOREM ReviewsInvariance == ReviewsSpec => []ReviewsInv
<1>1. ReviewsInit => ReviewsInv
  BY DEF ReviewsInit, ReviewsInv, AloneIsExact, ExactCall, RatingExact, Stored, UsedReviews, ReviewCall, NoReview
<1>2. ReviewsInv /\ [ReviewsNext]_reviewsVars => ReviewsInv'
  <2> SUFFICES ASSUME ReviewsInv, [ReviewsNext]_reviewsVars
               PROVE  ReviewsInv'
    OBVIOUS
  <2>1. ASSUME NEW c \in ReviewCalls, ReviewFails(c)
        PROVE  ReviewsInv'
    BY <2>1 DEF ReviewFails, ReviewsInv, AloneIsExact, ExactCall, RatingExact, Stored, UsedReviews, ReviewCall, NoReview
  <2>2. CASE UNCHANGED reviewsVars
    BY <2>2 DEF reviewsVars, ReviewsInv, AloneIsExact, ExactCall, RatingExact, Stored, UsedReviews
  <2> QED
    BY <2>1, <2>2, CheckReviewKeeps, AverageKeeps, CommitReviewKeeps, DeleteJobKeepsReviews DEF ReviewsNext
<1> QED
  BY <1>1, <1>2, PTL DEF ReviewsSpec

\* The rating of a provider is the average of its reviews, and of those that went
\* with their job since, unless the last review overlapped with another or with such
\* a deletion, whatever order requests read, average and commit in.
THEOREM RatingIsExact == ReviewsSpec => []RatingExact
<1>1. ReviewsInv => RatingExact
  BY DEF ReviewsInv
<1> QED
  BY <1>1, ReviewsInvariance, PTL

\* An average is of reviews that have been stored by the time it is committed: a
\* review's own row comes with its average.
AveragesStored ==
  /\ rating \cup withdrawn \subseteq UsedReviews /\ deletedJobs \subseteq ReviewJobs
  /\ \A c \in ReviewCalls :
       reviewCalls[c].step = "averaged" => reviewCalls[c].averaged \subseteq UsedReviews \cup {reviewCalls[c].id}
  /\ overtaken \in BOOLEAN

LEMMA CommitReviewStores ==
  ASSUME ReviewsInv, AveragesStored, NEW c \in ReviewCalls, CommitReview(c)
  PROVE  AveragesStored'
<1> DEFINE call == reviewCalls[c]
<1>1. /\ call.step = "averaged" /\ reviews' = [reviews EXCEPT ![call.id] = call.job]
      /\ rating' = call.averaged /\ withdrawn' = {} /\ overtaken' = ~call.alone
      /\ reviewCalls' = [reviewCalls EXCEPT ![c] = NoReview] /\ deletedJobs' = deletedJobs
  BY DEF CommitReview
<1>2. call.id \in ReviewIds /\ call.job \in ReviewJobs /\ call.alone \in BOOLEAN
  BY <1>1 DEF ReviewsInv, AloneIsExact, ExactCall, ReviewCall
<1>3. UsedReviews' = UsedReviews \cup {call.id}
  BY <1>1, <1>2, ReviewsAssumption DEF ReviewsInv, UsedReviews
<1>4. rating' \cup withdrawn' \subseteq UsedReviews'
  BY <1>1, <1>3 DEF AveragesStored
<1>5. /\ reviewCalls'[c] = NoReview /\ NoReview.step = "idle"
      /\ \A d \in ReviewCalls \ {c} : reviewCalls'[d] = reviewCalls[d]
  BY <1>1 DEF ReviewsInv, NoReview
<1>6. overtaken' \in BOOLEAN /\ deletedJobs' = deletedJobs
  BY <1>1, <1>2
<1> QED
  BY <1>3, <1>4, <1>5, <1>6 DEF AveragesStored

LEMMA AverageStores ==
  ASSUME ReviewsInv, AveragesStored, NEW c \in ReviewCalls, NEW i \in ReviewIds, AverageReviews(c, i)
  PROVE  AveragesStored'
<1>1. /\ reviewCalls' = [reviewCalls EXCEPT ![c].step = "averaged", ![c].averaged = Averaged(i), ![c].id = i]
      /\ UNCHANGED <<reviews, deletedJobs, rating, withdrawn, overtaken>>
  BY DEF AverageReviews
<1>2. reviewCalls[c] \in ReviewCall
  BY DEF ReviewsInv
<1>3. /\ reviewCalls'[c].averaged = Stored \cup {i} /\ reviewCalls'[c].id = i
      /\ \A d \in ReviewCalls \ {c} : reviewCalls'[d] = reviewCalls[d]
  BY <1>1, <1>2 DEF ReviewsInv, ReviewCall, Averaged
<1> QED
  BY <1>1, <1>3 DEF AveragesStored, Stored, UsedReviews

LEMMA CheckReviewStores ==
  ASSUME ReviewsInv, AveragesStored, NEW c \in ReviewCalls, NEW j \in ReviewJobs, CheckReview(c, j)
  PROVE  AveragesStored'
<1>1. /\ reviewCalls'[c].step = "checked" /\ UNCHANGED <<reviews, deletedJobs, rating, withdrawn, overtaken>>
      /\ \A d \in ReviewCalls \ {c} : /\ reviewCalls'[d].step = reviewCalls[d].step
                                     /\ reviewCalls'[d].averaged = reviewCalls[d].averaged
                                     /\ reviewCalls'[d].id = reviewCalls[d].id
  BY DEF CheckReview, NoReview, ReviewsInv, ReviewCall
<1> QED
  BY <1>1 DEF AveragesStored, UsedReviews

\* The rating is an average of reviews that are there, or were.
THEOREM ReviewsTyped == ReviewsSpec => []ReviewsTypeOK
<1>1. ReviewsInit => AveragesStored
  <2>1. NoReview.step = "idle"
    BY DEF NoReview
  <2> QED
    BY <2>1 DEF ReviewsInit, AveragesStored
<1>2. ReviewsInv /\ AveragesStored /\ [ReviewsNext]_reviewsVars => AveragesStored'
  <2> SUFFICES ASSUME ReviewsInv, AveragesStored, [ReviewsNext]_reviewsVars
               PROVE  AveragesStored'
    OBVIOUS
  <2>1. ASSUME NEW c \in ReviewCalls, ReviewFails(c)
        PROVE  AveragesStored'
    BY <2>1 DEF ReviewFails, ReviewsInv, AveragesStored, UsedReviews, NoReview
  <2>3. ASSUME NEW j \in ReviewJobs, DeleteJob(j)
        PROVE  AveragesStored'
    <3>1. /\ deletedJobs' = deletedJobs \cup {j} /\ withdrawn' \subseteq withdrawn \cup Stored
          /\ UNCHANGED <<reviews, rating, overtaken>>
          /\ \A c \in ReviewCalls : /\ reviewCalls'[c].step = reviewCalls[c].step
                                     /\ reviewCalls'[c].averaged = reviewCalls[c].averaged
                                     /\ reviewCalls'[c].id = reviewCalls[c].id
      BY <2>3 DEF DeleteJob, ReviewsInv, ReviewCall
    <3> QED
      BY <3>1 DEF AveragesStored, UsedReviews, Stored
  <2>2. CASE UNCHANGED reviewsVars
    BY <2>2 DEF reviewsVars, AveragesStored, UsedReviews
  <2> QED
    BY <2>1, <2>2, <2>3, CheckReviewStores, AverageStores, CommitReviewStores DEF ReviewsNext
<1>3. ReviewsInv /\ AveragesStored => ReviewsTypeOK
  BY DEF ReviewsInv, ReviewCall, AveragesStored, ReviewsTypeOK
<1> QED
  BY <1>1, <1>2, <1>3, ReviewsInvariance, PTL DEF ReviewsSpec

------------------------------------------------------------------------------
(* Providers.                                                              *)

ProviderColumns == {"verified", "kyc_status", "kyc_note", "penalized", "available"}

\* What the row of p will be if the request commits now.
Wanted(call) == OrmFlush(providers[call.id], call.changes)

\* Whatever row it has read, a request that is no decision does not write the
\* verification, and nobody takes a penalty back.
Respects(call) ==
  /\ call.op \notin Decisions => "verified" \notin DOMAIN call.changes
  /\ "penalized" \in DOMAIN call.changes => call.changes["penalized"] = TRUE
  /\ "verified" \in DOMAIN call.changes => call.changes["verified"] \in BOOLEAN
  /\ "kyc_status" \in DOMAIN call.changes => call.changes["kyc_status"] \in KycStatus

\* A request that nobody has come in between with will do to the row as it is now
\* what it has decided on the row it read.
Timely(call) ==
  /\ call.op = "approve" => Wanted(call)["verified"] = TRUE
  /\ call.op = "reject"  => Wanted(call)["verified"] = FALSE
  /\ call.op = "profile" => Wanted(call)["kyc_status"] \in {"submitted", "verified"}
  /\ call.op \in {"toggle", "penalize", "verify"} => "kyc_status" \notin DOMAIN call.changes

OpenRequest(call) ==
  /\ call.op \in Decisions \cup {"toggle", "profile", "penalize"}
  /\ call.id \in Providers
  /\ Respects(call)

\* crossed names the provider of every two requests in flight.
Alone(c) ==
  providerCalls[c].id \in Providers \ crossed =>
    /\ Timely(providerCalls[c])
    /\ \A d \in ProviderCalls \ {c} : providerCalls[d].id # providerCalls[c].id

ProvidersShape ==
  /\ \A p \in Providers : DOMAIN providers[p] = ProviderColumns /\ providers[p].kyc_status \in KycStatus
  /\ granted = [p \in Providers |-> granted[p]]
  /\ providers = [p \in Providers |-> providers[p]]
  /\ providerCalls = [c \in ProviderCalls |-> providerCalls[c]]

ProvidersInv ==
  /\ ProvidersShape
  /\ \A c \in ProviderCalls :
       (providerCalls[c] = Resting \/ OpenRequest(providerCalls[c])) /\ Alone(c)
  /\ ReviewsTakeEffect

\* A request at rest is about no provider.
LEMMA RestingApart == Resting.id \notin Providers
BY ProvidersAssumption DEF Resting

\* A handler may put in flight an edit of the row it has read that is within its
\* rights.
LEMMA EditKeeps ==
  ASSUME ProvidersInv, NEW c \in ProviderCalls, NEW p \in Providers, NEW edited,
         NEW op \in Decisions \cup {"toggle", "profile", "penalize"}, Edit(c, op, p, edited),
         op \notin Decisions => edited["verified"] = providers[p]["verified"],
         edited["penalized"] = providers[p]["penalized"] \/ edited["penalized"] = TRUE,
         edited["verified"] = providers[p]["verified"] \/ edited["verified"] \in BOOLEAN,
         edited["kyc_status"] \in KycStatus,
         op = "approve" => edited["verified"] = TRUE,
         op = "reject"  => edited["verified"] = FALSE,
         op = "profile" => edited["kyc_status"] \in {"submitted", "verified"},
         op \in {"toggle", "penalize", "verify"} =>
           edited["kyc_status"] = providers[p]["kyc_status"]
  PROVE  ProvidersInv'
<1> DEFINE ch == OrmChanges(providers[p], edited)
           call == [op |-> op, id |-> p, changes |-> ch]
<1>1. /\ providerCalls' = [providerCalls EXCEPT ![c] = call]
      /\ crossed' = crossed \cup {q \in {p} : \E d \in ProviderCalls : providerCalls[d].id = q}
      /\ providers' = providers /\ granted' = granted /\ unseen' = unseen
  BY DEF Edit
<1>2. /\ DOMAIN ch = {x \in ProviderColumns : edited[x] # providers[p][x]}
      /\ \A x \in DOMAIN ch : ch[x] = edited[x]
      /\ \A x \in ProviderColumns : OrmFlush(providers[p], ch)[x] = edited[x]
  <2>1. DOMAIN providers[p] = ProviderColumns
    BY DEF ProvidersInv, ProvidersShape
  <2> QED
    BY <2>1 DEF OrmChanges, OrmFlush
<1>3. call.op = op /\ call.id = p /\ call.changes = ch
  OBVIOUS
<1> HIDE DEF call, ch
<1>4. OpenRequest(call)
  BY <1>2, <1>3 DEF OpenRequest, Respects, ProviderColumns
<1>5. Timely(call)
  BY <1>2, <1>3 DEF Timely, Wanted, ProviderColumns
<1>6. providerCalls'[c] = call /\ \A d \in ProviderCalls \ {c} : providerCalls'[d] = providerCalls[d]
  BY <1>1 DEF ProvidersInv, ProvidersShape
<1>7. ASSUME NEW d \in ProviderCalls
      PROVE  (providerCalls[d] = Resting \/ OpenRequest(providerCalls[d]))'
  BY <1>4, <1>6 DEF ProvidersInv, OpenRequest, Respects
<1>8. ASSUME NEW d \in ProviderCalls, providerCalls'[d].id \in Providers \ crossed'
      PROVE  /\ Timely(providerCalls[d])'
             /\ \A e \in ProviderCalls \ {d} : providerCalls'[e].id # providerCalls'[d].id
  <2>1. CASE d = c
    <3>1. Timely(providerCalls[d])'
      BY <1>1, <1>5, <1>6, <2>1 DEF Timely, Wanted
    <3> QED
      BY <1>1, <1>3, <1>6, <1>8, <2>1, <3>1
  <2>2. CASE d # c
    <3>1. /\ Timely(providerCalls[d])
          /\ \A e \in ProviderCalls \ {d} : providerCalls[e].id # providerCalls[d].id
      BY <1>1, <1>6, <1>8, <2>2 DEF ProvidersInv, Alone
    <3>2. Timely(providerCalls[d])'
      BY <1>1, <1>6, <2>2, <3>1 DEF Timely, Wanted
    <3>3. p # providerCalls[d].id
      BY <1>1, <1>6, <1>8, <2>2
    <3> QED
      BY <1>3, <1>6, <2>2, <3>1, <3>2, <3>3
  <2> QED
    BY <2>1, <2>2
<1>9. ProvidersShape'
  BY <1>1 DEF ProvidersInv, ProvidersShape
<1>10. ReviewsTakeEffect'
  BY <1>1 DEF ProvidersInv, ReviewsTakeEffect, Queue
<1> QED
  BY <1>7, <1>8, <1>9, <1>10 DEF ProvidersInv, Alone

\* Every handler edits the row it has read within what EditKeeps asks for.
LEMMA HandlersKeep ==
  ASSUME ProvidersInv, NEW c \in ProviderCalls, NEW p \in Providers,
         \/ \E available \in BOOLEAN : ToggleAvailability(c, p, available)
         \/ UploadPhotos(c, p)
         \/ AdminDecides(c, p)
  PROVE  ProvidersInv'
<1> DEFINE row == providers[p]
<1>1. DOMAIN row = ProviderColumns /\ row["kyc_status"] \in KycStatus
  BY DEF ProvidersInv, ProvidersShape
<1> HIDE DEF row
<1>2. ASSUME NEW available \in BOOLEAN, ToggleAvailability(c, p, available)
      PROVE  ProvidersInv'
  <2>1. Edit(c, "toggle", p, [row EXCEPT !.available = available])
    BY <1>2 DEF ToggleAvailability, row
  <2> QED
    BY <1>1, <2>1, EditKeeps DEF ProviderColumns, Decisions, row
<1>3. CASE UploadPhotos(c, p)
  <2> DEFINE edited == IF row.kyc_status \in {"pending", "rejected"}
                       THEN [row EXCEPT !.kyc_status = "submitted", !.kyc_note = None]
                       ELSE row
  <2>1. Edit(c, "profile", p, edited)
    BY <1>3 DEF UploadPhotos, row
  <2>2. /\ edited["verified"] = row["verified"] /\ edited["penalized"] = row["penalized"]
        /\ edited["kyc_status"] \in {"submitted", "verified"}
    BY <1>1 DEF ProviderColumns, KycStatus
  <2> HIDE DEF edited
  <2>3. edited["kyc_status"] \in KycStatus
    BY <2>2 DEF KycStatus
  <2> QED
    BY <2>1, <2>2, <2>3, EditKeeps DEF Decisions, row
<1>4. ASSUME NEW verified \in BOOLEAN, Verify(c, p, verified)
      PROVE  ProvidersInv'
  <2>1. Edit(c, "verify", p, [row EXCEPT !.verified = verified])
    BY <1>4 DEF Verify, row
  <2> QED
    BY <1>1, <2>1, EditKeeps DEF ProviderColumns, Decisions, row
<1>5. ASSUME NEW note, Approve(c, p, note)
      PROVE  ProvidersInv'
  <2> DEFINE edited == [row EXCEPT !.kyc_status = "verified", !.verified = TRUE, !.kyc_note = note]
  <2>1. Edit(c, "approve", p, edited)
    BY <1>5 DEF Approve, row
  <2>2. /\ edited["verified"] = TRUE /\ edited["penalized"] = row["penalized"]
        /\ edited["kyc_status"] \in KycStatus
    BY <1>1 DEF ProviderColumns, KycStatus
  <2> HIDE DEF edited
  <2> QED
    BY <2>1, <2>2, EditKeeps DEF Decisions, row
<1>6. ASSUME NEW note, Reject(c, p, note)
      PROVE  ProvidersInv'
  <2> DEFINE edited == [row EXCEPT !.kyc_status = "rejected", !.verified = FALSE, !.kyc_note = note]
  <2>1. Edit(c, "reject", p, edited)
    BY <1>6 DEF Reject, row
  <2>2. /\ edited["verified"] = FALSE /\ edited["penalized"] = row["penalized"]
        /\ edited["kyc_status"] \in KycStatus
    BY <1>1 DEF ProviderColumns, KycStatus
  <2> HIDE DEF edited
  <2> QED
    BY <2>1, <2>2, EditKeeps DEF Decisions, row
<1>7. CASE Penalize(c, p)
  <2>1. Edit(c, "penalize", p, [row EXCEPT !.penalized = TRUE])
    BY <1>7 DEF Penalize, row
  <2> QED
    BY <1>1, <2>1, EditKeeps DEF ProviderColumns, Decisions, row
<1> QED
  BY <1>2, <1>3, <1>4, <1>5, <1>6, <1>7 DEF AdminDecides

\* The row after a commit.
LEMMA CommittedRow ==
  ASSUME ProvidersInv, NEW c \in ProviderCalls, CommitProvider(c)
  PROVE  LET call == providerCalls[c]
             p    == call.id
             ch   == call.changes
         IN  /\ OpenRequest(call) /\ Alone(c) /\ p \in Providers
             /\ DOMAIN providers'[p] = ProviderColumns
             /\ \A x \in ProviderColumns :
                  providers'[p][x] = IF x \in DOMAIN ch THEN ch[x] ELSE providers[p][x]
             /\ providers'[p] = Wanted(call)
             /\ providers' = [q \in Providers |-> providers'[q]]
             /\ \A q \in Providers \ {p} : providers'[q] = providers[q]
             /\ providerCalls' = [d \in ProviderCalls |-> IF d = c THEN Resting ELSE providerCalls[d]]
             /\ crossed' = crossed
<1> DEFINE call == providerCalls[c]
           p    == call.id
           ch   == call.changes
<1>1. OpenRequest(call) /\ Alone(c)
  BY DEF CommitProvider, ProvidersInv
<1>2. p \in Providers
  BY <1>1 DEF OpenRequest
<1>3. providers' = [providers EXCEPT ![p] = OrmFlush(providers[p], ch)] /\ crossed' = crossed
  BY DEF CommitProvider
<1>4. providers = [q \in Providers |-> providers[q]] /\ DOMAIN providers[p] = ProviderColumns
  BY <1>2 DEF ProvidersInv, ProvidersShape
<1>5. providerCalls' = [d \in ProviderCalls |-> IF d = c THEN Resting ELSE providerCalls[d]]
  BY DEF CommitProvider, ProvidersInv, ProvidersShape
<1> HIDE DEF ch, p
<1>6. providers'[p] = OrmFlush(providers[p], ch)
  BY <1>2, <1>3, <1>4
<1>7. /\ DOMAIN providers'[p] = ProviderColumns
      /\ \A x \in ProviderColumns :
           providers'[p][x] = IF x \in DOMAIN ch THEN ch[x] ELSE providers[p][x]
  BY <1>4, <1>6 DEF OrmFlush
<1>8. /\ providers' = [q \in Providers |-> providers'[q]]
      /\ \A q \in Providers \ {p} : providers'[q] = providers[q]
  BY <1>3, <1>4
<1> QED
  BY <1>1, <1>2, <1>3, <1>5, <1>6, <1>7, <1>8 DEF p, ch, Wanted

LEMMA CommitProviderKeeps ==
  ASSUME ProvidersInv, NEW c \in ProviderCalls, CommitProvider(c)
  PROVE  ProvidersInv'
<1> DEFINE call == providerCalls[c]
           p    == call.id
           ch   == call.changes
<1>1. /\ OpenRequest(call) /\ Alone(c) /\ p \in Providers
      /\ DOMAIN providers'[p] = ProviderColumns
      /\ \A x \in ProviderColumns :
           providers'[p][x] = IF x \in DOMAIN ch THEN ch[x] ELSE providers[p][x]
      /\ providers'[p] = Wanted(call)
      /\ providers' = [q \in Providers |-> providers'[q]]
      /\ \A q \in Providers \ {p} : providers'[q] = providers[q]
      /\ providerCalls' = [d \in ProviderCalls |-> IF d = c THEN Resting ELSE providerCalls[d]]
      /\ crossed' = crossed
  BY CommittedRow
<1>2. granted' = [granted EXCEPT ![p] =
        CASE call.op = "approve" -> TRUE
          [] call.op = "reject"  -> FALSE
          [] call.op = "verify" /\ "verified" \in DOMAIN ch -> ch.verified
          [] OTHER -> @]
  BY DEF CommitProvider
<1>3. unseen' = CASE call.op = "profile" -> unseen \cup {p}
                  [] call.op \in {"approve", "reject"} -> unseen \ {p}
                  [] OTHER -> unseen
  BY DEF CommitProvider
<1>4. providers'[p].kyc_status \in KycStatus
  BY <1>1 DEF OpenRequest, Respects, ProvidersInv, ProvidersShape, ProviderColumns
<1>5. ProvidersShape'
  BY <1>1, <1>2, <1>4 DEF ProvidersInv, ProvidersShape
<1>6. ASSUME NEW d \in ProviderCalls
      PROVE  (providerCalls[d] = Resting \/ OpenRequest(providerCalls[d]))'
  BY <1>1 DEF ProvidersInv, OpenRequest, Respects
<1>7. ASSUME NEW d \in ProviderCalls
      PROVE  Alone(d)'
  <2>1. CASE d = c
    <3>1. providerCalls'[d] = Resting
      BY <1>1, <2>1
    <3> QED
      BY <3>1, <1>1, RestingApart DEF Alone
  <2>2. CASE d # c
    BY <1>1, <2>2, RestingApart DEF ProvidersInv, Alone, Timely, Wanted
  <2> QED
    BY <2>1, <2>2
<1>8. ReviewsTakeEffect'
  <2> SUFFICES ASSUME NEW q \in Providers \ crossed
               PROVE  /\ providers'[q].verified = granted'[q]
                      /\ q \in unseen' => \/ providers'[q].kyc_status \in {"pending", "submitted"}
                                          \/ providers'[q].kyc_status = "verified"
    BY <1>1 DEF ReviewsTakeEffect, Queue
  <2>1. /\ providers[q].verified = granted[q]
        /\ q \in unseen => \/ providers[q].kyc_status \in {"pending", "submitted"}
                           \/ providers[q].kyc_status = "verified"
    BY DEF ProvidersInv, ReviewsTakeEffect, Queue
  <2>2. CASE q # p
    BY <1>1, <1>2, <1>3, <2>1, <2>2 DEF ProvidersInv, ProvidersShape
  <2>3. CASE q = p
    <3>1. Timely(call) /\ Respects(call)
          /\ call.op \in {"approve", "reject", "verify", "toggle", "profile", "penalize"}
      BY <1>1, <2>3 DEF Alone, OpenRequest, Decisions
    <3>2. granted'[p] = CASE call.op = "approve" -> TRUE
                          [] call.op = "reject"  -> FALSE
                          [] call.op = "verify" /\ "verified" \in DOMAIN ch -> ch.verified
                          [] OTHER -> granted[p]
      BY <1>1, <1>2 DEF ProvidersInv, ProvidersShape
    <3>3. /\ providers'[p]["verified"] =
               IF "verified" \in DOMAIN ch THEN ch["verified"] ELSE providers[p]["verified"]
          /\ providers'[p]["kyc_status"] =
               IF "kyc_status" \in DOMAIN ch THEN ch["kyc_status"] ELSE providers[p]["kyc_status"]
      BY <1>1 DEF ProviderColumns
    <3> HIDE DEF ch, p
    <3>4. providers'[p].verified = granted'[p]
      BY <1>1, <2>1, <2>3, <3>1, <3>2, <3>3 DEF Timely, Respects, Decisions, ch
    <3>5. p \in unseen' => \/ providers'[p].kyc_status \in {"pending", "submitted"}
                           \/ providers'[p].kyc_status = "verified"
      BY <1>1, <1>3, <2>1, <2>3, <3>1, <3>3 DEF Timely, ch
    <3> QED
      BY <2>3, <3>4, <3>5
  <2> QED
    BY <2>2, <2>3
<1> QED
  BY <1>5, <1>6, <1>7, <1>8 DEF ProvidersInv

\* The inductive invariant. crossed alone does not do: a request that is not about
\* to be crossed must also still mean what it meant when it read the row (Timely).
THEOREM ProvidersInvariance == ProvidersSpec => []ProvidersInv
<1>1. ProvidersInit => ProvidersInv
  <2> SUFFICES ASSUME ProvidersInit
               PROVE  ProvidersInv
    OBVIOUS
  <2>1. ASSUME NEW p \in Providers
        PROVE  /\ DOMAIN providers[p] = ProviderColumns
               /\ providers[p].verified = AutoVerify
               /\ providers[p].kyc_status \in {"pending", "submitted"}
    BY DEF ProvidersInit, Registered, NoProvider, ProviderColumns
  <2>2. ProvidersShape
    BY <2>1 DEF ProvidersInit, ProvidersShape, KycStatus
  <2>3. ReviewsTakeEffect
    BY <2>1 DEF ProvidersInit, ReviewsTakeEffect, Queue
  <2>4. \A c \in ProviderCalls : providerCalls[c] = Resting /\ Alone(c)
    BY RestingApart DEF ProvidersInit, Alone
  <2> QED
    BY <2>2, <2>3, <2>4 DEF ProvidersInv
<1>2. ProvidersInv /\ [ProvidersNext]_providersVars => ProvidersInv'
  <2> SUFFICES ASSUME ProvidersInv, [ProvidersNext]_providersVars
               PROVE  ProvidersInv'
    OBVIOUS
  <2>1. ASSUME NEW c \in ProviderCalls, ProviderCallFails(c)
        PROVE  ProvidersInv'
    <3>1. /\ providerCalls' = [providerCalls EXCEPT ![c] = Resting]
          /\ UNCHANGED <<providers, granted, unseen, crossed>>
      BY <2>1 DEF ProviderCallFails
    <3>2. \A d \in ProviderCalls :
            (providerCalls[d] = Resting \/ OpenRequest(providerCalls[d]))' /\ Alone(d)'
      BY <3>1, RestingApart DEF ProvidersInv, ProvidersShape, OpenRequest, Respects, Alone, Timely, Wanted
    <3> QED
      BY <3>1, <3>2 DEF ProvidersInv, ProvidersShape, ReviewsTakeEffect, Queue
  <2>2. CASE UNCHANGED providersVars
    BY <2>2 DEF providersVars, ProvidersInv, ProvidersShape, OpenRequest, Respects, Alone, Timely,
                Wanted, ReviewsTakeEffect, Queue
  <2> QED
    BY <2>1, <2>2, HandlersKeep, CommitProviderKeeps DEF ProvidersNext
<1> QED
  BY <1>1, <1>2, PTL DEF ProvidersSpec

\* A provider whose row two requests have not fought over is discoverable exactly
\* when the last decision said so, and its new photos wait in the queue.
THEOREM DecisionsTakeEffect == ProvidersSpec => []ReviewsTakeEffect
<1>1. ProvidersInv => ReviewsTakeEffect
  BY DEF ProvidersInv
<1> QED
  BY <1>1, ProvidersInvariance, PTL

\* Even where requests do overlap: what a provider's own request read before an
\* admin decided does not undo the decision when it commits.
THEOREM DecisionsStand == ProvidersSpec => AdminDecisionsStand
<1> DEFINE A == \A p \in Providers :
                  /\ providers'[p].verified # providers[p].verified =>
                       \E c \in ProviderCalls :
                         providerCalls[c].id = p /\ providerCalls[c].op \in Decisions /\ providerCalls'[c] = Resting
                  /\ providers[p].penalized => providers'[p].penalized
<1>1. ProvidersInv /\ [ProvidersNext]_providersVars => [A]_providersVars
  <2> SUFFICES ASSUME ProvidersInv, ProvidersNext
               PROVE  A
    OBVIOUS
  <2>1. ASSUME NEW c \in ProviderCalls, CommitProvider(c)
        PROVE  A
    <3>1. /\ OpenRequest(providerCalls[c]) /\ providerCalls'[c] = Resting
          /\ \A q \in Providers \ {providerCalls[c].id} : providers'[q] = providers[q]
          /\ \A x \in ProviderColumns :
               providers'[providerCalls[c].id][x] =
                 IF x \in DOMAIN providerCalls[c].changes THEN providerCalls[c].changes[x]
                 ELSE providers[providerCalls[c].id][x]
      BY <2>1, CommittedRow
    <3> QED
      BY <3>1 DEF OpenRequest, Respects, ProviderColumns
  <2>2. providers' = providers \/ \E c \in ProviderCalls : CommitProvider(c)
    BY DEF ProvidersNext, ToggleAvailability, UploadPhotos, AdminDecides, Verify, Approve, Reject,
           Penalize, Edit, ProviderCallFails
  <2> QED
    BY <2>1, <2>2
<1> QED
  BY <1>1, ProvidersInvariance, PTL DEF ProvidersSpec, AdminDecisionsStand

\* What a request writes is of the columns' types.
TypedColumns(ch) ==
  /\ DOMAIN ch \subseteq ProviderColumns
  /\ \A x \in {"verified", "penalized", "available"} \cap DOMAIN ch : ch[x] \in BOOLEAN
  /\ "kyc_status" \in DOMAIN ch => ch["kyc_status"] \in KycStatus
  /\ "kyc_note" \in DOMAIN ch => ch["kyc_note"] \in {None, "reason"}

ProviderTypes ==
  /\ providers \in [Providers -> ProviderRow]
  /\ \A c \in ProviderCalls : TypedColumns(providerCalls[c].changes)
  /\ granted \in [Providers -> BOOLEAN]
  /\ unseen \subseteq Providers /\ crossed \subseteq Providers

LEMMA RowColumns ==
  ASSUME NEW row \in ProviderRow
  PROVE  /\ DOMAIN row = ProviderColumns
         /\ \A x \in {"verified", "penalized", "available"} : row[x] \in BOOLEAN
         /\ row["kyc_status"] \in KycStatus /\ row["kyc_note"] \in {None, "reason"}
  BY DEF ProviderRow, ProviderColumns

\* The handlers make rows out of rows.
LEMMA HandlersEditRows ==
  ASSUME ProviderTypes, NEW c \in ProviderCalls, NEW p \in Providers,
         \/ \E available \in BOOLEAN : ToggleAvailability(c, p, available)
         \/ UploadPhotos(c, p)
         \/ AdminDecides(c, p)
  PROVE  \E op, edited : edited \in ProviderRow /\ Edit(c, op, p, edited)
<1> DEFINE row == providers[p]
<1>1. row \in ProviderRow
  BY DEF ProviderTypes
<1>2. {"pending", "submitted", "verified", "rejected"} = KycStatus
  BY DEF KycStatus
<1>3. ASSUME NEW available \in BOOLEAN, ToggleAvailability(c, p, available)
      PROVE  \E op, edited : edited \in ProviderRow /\ Edit(c, op, p, edited)
  <2>1. [row EXCEPT !.available = available] \in ProviderRow
    BY <1>1 DEF ProviderRow
  <2> QED
    BY <1>3, <2>1 DEF ToggleAvailability
<1>4. ASSUME UploadPhotos(c, p)
      PROVE  \E op, edited : edited \in ProviderRow /\ Edit(c, op, p, edited)
  <2>1. [row EXCEPT !.kyc_status = "submitted", !.kyc_note = None] \in ProviderRow
    BY <1>1, <1>2 DEF ProviderRow
  <2> QED
    BY <1>1, <1>4, <2>1 DEF UploadPhotos
<1>5. ASSUME NEW verified \in BOOLEAN, Verify(c, p, verified)
      PROVE  \E op, edited : edited \in ProviderRow /\ Edit(c, op, p, edited)
  <2>1. [row EXCEPT !.verified = verified] \in ProviderRow
    BY <1>1 DEF ProviderRow
  <2> QED
    BY <1>5, <2>1 DEF Verify
<1>6. ASSUME NEW note \in {None, "reason"}, Approve(c, p, note) \/ Reject(c, p, note)
      PROVE  \E op, edited : edited \in ProviderRow /\ Edit(c, op, p, edited)
  <2>1. /\ [row EXCEPT !.kyc_status = "verified", !.verified = TRUE, !.kyc_note = note] \in ProviderRow
        /\ [row EXCEPT !.kyc_status = "rejected", !.verified = FALSE, !.kyc_note = note] \in ProviderRow
    BY <1>1, <1>2 DEF ProviderRow
  <2> QED
    BY <1>6, <2>1 DEF Approve, Reject
<1>7. ASSUME Penalize(c, p)
      PROVE  \E op, edited : edited \in ProviderRow /\ Edit(c, op, p, edited)
  <2>1. [row EXCEPT !.penalized = TRUE] \in ProviderRow
    BY <1>1 DEF ProviderRow
  <2> QED
    BY <1>7, <2>1 DEF Penalize
<1> QED
  BY <1>3, <1>4, <1>5, <1>6, <1>7 DEF AdminDecides

LEMMA EditTyped ==
  ASSUME ProviderTypes, ProvidersInv, NEW c \in ProviderCalls, NEW p \in Providers, NEW op, NEW edited,
         edited \in ProviderRow, Edit(c, op, p, edited)
  PROVE  ProviderTypes'
<1> DEFINE changes == OrmChanges(providers[p], edited)
           call == [op |-> op, id |-> p, changes |-> changes]
<1>1. /\ providerCalls' = [providerCalls EXCEPT ![c] = call]
      /\ crossed' \subseteq crossed \cup {p} /\ UNCHANGED <<providers, granted, unseen>>
  BY DEF Edit
<1>2. DOMAIN providers[p] = ProviderColumns
  BY RowColumns DEF ProviderTypes
<1>3. /\ DOMAIN changes = {x \in ProviderColumns : edited[x] # providers[p][x]}
      /\ \A x \in DOMAIN changes : changes[x] = edited[x]
  BY <1>2 DEF OrmChanges
<1> HIDE DEF changes
<1>4. TypedColumns(changes)
  BY <1>3, RowColumns DEF TypedColumns
<1>5. call.changes = changes
  OBVIOUS
<1> HIDE DEF call
<1>6. \A d \in ProviderCalls : providerCalls'[d] = IF d = c THEN call ELSE providerCalls[d]
  BY <1>1 DEF ProvidersInv, ProvidersShape
<1> QED
  BY <1>1, <1>4, <1>5, <1>6 DEF ProviderTypes

\* No request in flight, or at its end, has anything but columns to write.
LEMMA CommitProviderTyped ==
  ASSUME ProviderTypes, ProvidersInv, NEW c \in ProviderCalls, CommitProvider(c)
  PROVE  ProviderTypes'
<1> DEFINE call == providerCalls[c]
           p    == call.id
           ch   == call.changes
           row  == providers'[p]
<1>1. /\ OpenRequest(call) /\ p \in Providers /\ DOMAIN row = ProviderColumns
      /\ \A x \in ProviderColumns : row[x] = IF x \in DOMAIN ch THEN ch[x] ELSE providers[p][x]
      /\ row = Wanted(call)
      /\ providers' = [q \in Providers |-> providers'[q]]
      /\ \A q \in Providers \ {p} : providers'[q] = providers[q]
      /\ providerCalls' = [d \in ProviderCalls |-> IF d = c THEN Resting ELSE providerCalls[d]]
      /\ crossed' = crossed
  BY CommittedRow, Zenon
<1>2. TypedColumns(ch) /\ providers[p] \in ProviderRow
  BY <1>1 DEF ProviderTypes
<1>3. granted' = [granted EXCEPT ![p] =
       CASE call.op = "approve" -> TRUE
         [] call.op = "reject"  -> FALSE
         [] call.op = "verify" /\ "verified" \in DOMAIN ch -> ch.verified
         [] OTHER -> granted[p]]
  BY DEF CommitProvider
<1>4. unseen' \subseteq unseen \cup {p}
  BY DEF CommitProvider
<1>5. /\ \A x \in {"verified", "penalized", "available"} : row[x] \in BOOLEAN
      /\ row["kyc_status"] \in KycStatus /\ row["kyc_note"] \in {None, "reason"}
  <2> HIDE DEF row, ch, p
  <2> QED
    BY <1>1, <1>2, RowColumns DEF TypedColumns, ProviderColumns
<1>6. row \in ProviderRow
  <2>1. row = [verified |-> row["verified"], kyc_status |-> row["kyc_status"], kyc_note |-> row["kyc_note"],
               penalized |-> row["penalized"], available |-> row["available"]]
    <3>1. row = [x \in ProviderColumns |-> row[x]]
      BY <1>1 DEF Wanted, OrmFlush
    <3> HIDE DEF row
    <3> QED
      BY <3>1 DEF ProviderColumns
  <2> HIDE DEF row
  <2> QED
    BY <1>5, <2>1 DEF ProviderRow
<1>7. providers' \in [Providers -> ProviderRow]
  BY <1>1, <1>6 DEF ProviderTypes
<1>8. granted' \in [Providers -> BOOLEAN]
  <2> DEFINE g == CASE call.op = "approve" -> TRUE
                    [] call.op = "reject"  -> FALSE
                    [] call.op = "verify" /\ "verified" \in DOMAIN ch -> ch.verified
                    [] OTHER -> granted[p]
  <2>1. "verified" \in DOMAIN ch => ch.verified \in BOOLEAN
    BY <1>2 DEF TypedColumns
  <2>2. granted[p] \in BOOLEAN
    BY <1>1 DEF ProviderTypes
  <2>3. g \in BOOLEAN
    BY <2>1, <2>2
  <2>4. granted' = [granted EXCEPT ![p] = g]
    BY <1>3
  <2> HIDE DEF g
  <2> QED
    BY <2>3, <2>4 DEF ProviderTypes
<1>9. \A d \in ProviderCalls : TypedColumns(providerCalls'[d].changes)
  <2>1. DOMAIN Resting.changes = {}
    BY DEF Resting
  <2> QED
    BY <1>1, <2>1 DEF ProviderTypes, TypedColumns
<1> QED
  BY <1>1, <1>4, <1>7, <1>8, <1>9 DEF ProviderTypes

\* The rows stay rows of their tables, however requests that have read different
\* versions of one write it.
THEOREM ProvidersTyped == ProvidersSpec => []ProvidersTypeOK
<1>1. ProvidersInit => ProviderTypes
  <2> SUFFICES ASSUME ProvidersInit
               PROVE  ProviderTypes
    OBVIOUS
  <2>1. \A photos \in BOOLEAN : Registered(photos) \in ProviderRow
    BY ProvidersAssumption DEF Registered, NoProvider, ProviderRow, KycStatus
  <2>2. DOMAIN Resting.changes = {}
    BY DEF Resting
  <2>3. ASSUME NEW p \in Providers
        PROVE  Registered(p \in unseen) \in ProviderRow
    <3>1. (p \in unseen) \in BOOLEAN
      OBVIOUS
    <3> QED
      BY <2>1, <3>1, Zenon
  <2>4. providers \in [Providers -> ProviderRow]
    BY <2>3, Zenon DEF ProvidersInit
  <2> QED
    BY <2>2, <2>4, ProvidersAssumption DEF ProvidersInit, ProviderTypes, TypedColumns
<1>2. ProvidersInv /\ ProviderTypes /\ [ProvidersNext]_providersVars => ProviderTypes'
  <2> SUFFICES ASSUME ProvidersInv, ProviderTypes, [ProvidersNext]_providersVars
               PROVE  ProviderTypes'
    OBVIOUS
  <2>1. ASSUME NEW c \in ProviderCalls, ProviderCallFails(c)
        PROVE  ProviderTypes'
    <3>1. DOMAIN Resting.changes = {}
      BY DEF Resting
    <3> QED
      BY <2>1, <3>1 DEF ProviderCallFails, ProvidersInv, ProvidersShape, ProviderTypes, TypedColumns
  <2>2. CASE UNCHANGED providersVars
    BY <2>2 DEF providersVars, ProviderTypes
  <2>3. ASSUME NEW c \in ProviderCalls, NEW p \in Providers,
               \/ \E available \in BOOLEAN : ToggleAvailability(c, p, available)
               \/ UploadPhotos(c, p)
               \/ AdminDecides(c, p)
        PROVE  ProviderTypes'
    BY <2>3, HandlersEditRows, EditTyped
  <2> QED
    BY <2>1, <2>2, <2>3, CommitProviderTyped DEF ProvidersNext
<1>3. ProvidersInv /\ ProviderTypes => ProvidersTypeOK
  <2>1. DOMAIN NoProvider = ProviderColumns
    BY DEF NoProvider, ProviderColumns
  <2> QED
    BY <2>1 DEF ProvidersInv, OpenRequest, Resting, ProviderTypes, TypedColumns, ProvidersTypeOK
<1> QED
  BY <1>1, <1>2, <1>3, ProvidersInvariance, PTL DEF ProvidersSpec

------------------------------------------------------------------------------
(* DeviceTokens.                                                           *)

DeviceRow == [is_active : BOOLEAN, platform : {None, "android", "web"}]

CallHolds(c, t) == tokenCalls[c] # NoTokenCall /\ tokenCalls[c].token = t
BatchHolds(b, t) == t \in batches[b].todo \cup batches[b].refused

TokensShape ==
  /\ deviceTokens \in [PushTokens -> DeviceRow]
  /\ said \in [PushTokens -> BOOLEAN]
  /\ batches \in [Batches -> [running : BOOLEAN, todo : SUBSET PushTokens, refused : SUBSET PushTokens]]
  /\ DOMAIN tokenCalls = TokenCalls

\* What a request is going to write.
TokenChanges(changes) ==
  /\ DOMAIN changes \subseteq {"is_active", "platform"}
  /\ "is_active" \in DOMAIN changes => changes.is_active \in BOOLEAN
  /\ "platform" \in DOMAIN changes => changes.platform \in {None, "android", "web"}

\* A request holds a token; once its changes are on the row, the row says what the
\* request does, as long as nobody else has held the token meanwhile.
OpenTokenCall(c) ==
  /\ tokenCalls[c].op \in {"insert", "update"}
  /\ tokenCalls[c].token \in PushTokens
  /\ tokenCalls[c].says \in BOOLEAN
  /\ TokenChanges(tokenCalls[c].changes)
  /\ tokenCalls[c].token \notin crossing =>
       OrmFlush(deviceTokens[tokenCalls[c].token], tokenCalls[c].changes).is_active = tokenCalls[c].says

OneHolder(t) ==
  /\ \A c, d \in TokenCalls : CallHolds(c, t) /\ CallHolds(d, t) => c = d
  /\ \A a, b \in Batches : BatchHolds(a, t) /\ BatchHolds(b, t) => a = b
  /\ \A c \in TokenCalls, b \in Batches : ~(CallHolds(c, t) /\ BatchHolds(b, t))

DeviceTokensInv ==
  /\ TokensShape
  /\ \A c \in TokenCalls : tokenCalls[c] = NoTokenCall \/ OpenTokenCall(c)
  /\ \A t \in PushTokens \ crossing : OneHolder(t)
  /\ LastWordCounts

LEMMA TokenFlush ==
  ASSUME NEW row \in DeviceRow, NEW changes, TokenChanges(changes)
  PROVE  /\ OrmFlush(row, changes) \in DeviceRow
         /\ OrmFlush(row, changes).is_active =
              IF "is_active" \in DOMAIN changes THEN changes.is_active ELSE row.is_active
<1>1. DOMAIN row = {"is_active", "platform"}
  BY DEF DeviceRow
<1>2. OrmFlush(row, changes) =
        [x \in {"is_active", "platform"} |-> IF x \in DOMAIN changes THEN changes[x] ELSE row[x]]
  BY <1>1 DEF OrmFlush
<1>3. row.is_active \in BOOLEAN /\ row.platform \in {None, "android", "web"}
  BY DEF DeviceRow
<1>4. OrmFlush(row, changes) =
        [is_active |-> IF "is_active" \in DOMAIN changes THEN changes.is_active ELSE row.is_active,
         platform |-> IF "platform" \in DOMAIN changes THEN changes.platform ELSE row.platform]
  BY <1>2
<1> QED
  BY <1>3, <1>4 DEF TokenChanges, DeviceRow

\* What the unit of work finds changed turns the row that was read into the row
\* that was edited.
LEMMA TokenEdit ==
  ASSUME NEW row \in DeviceRow, NEW edited \in DeviceRow
  PROVE  /\ TokenChanges(OrmChanges(row, edited))
         /\ OrmFlush(row, OrmChanges(row, edited)).is_active = edited.is_active
<1> DEFINE changes == OrmChanges(row, edited)
<1>1. DOMAIN row = {"is_active", "platform"} /\ edited.is_active \in BOOLEAN
      /\ edited.platform \in {None, "android", "web"}
  BY DEF DeviceRow
<1>2. /\ DOMAIN changes = {x \in {"is_active", "platform"} : edited[x] # row[x]}
      /\ \A x \in DOMAIN changes : changes[x] = edited[x]
  BY <1>1 DEF OrmChanges
<1>3. TokenChanges(changes)
  BY <1>1, <1>2 DEF TokenChanges
<1> HIDE DEF changes
<1>4. OrmFlush(row, changes).is_active = edited.is_active
  BY <1>2, <1>3, TokenFlush
<1> QED
  BY <1>3, <1>4 DEF changes

LEMMA AskTokenKeeps ==
  ASSUME DeviceTokensInv, NEW c \in TokenCalls, NEW op \in {"insert", "update"}, NEW t \in PushTokens,
         NEW says \in BOOLEAN, NEW changes, AskToken(c, op, t, says, changes), TokenChanges(changes),
         OrmFlush(deviceTokens[t], changes).is_active = says
  PROVE  DeviceTokensInv'
<1>1. /\ tokenCalls[c] = NoTokenCall
      /\ tokenCalls' = [tokenCalls EXCEPT ![c] = [op |-> op, token |-> t, says |-> says, changes |-> changes]]
      /\ crossing' = crossing \cup ({t} \cap Held)
      /\ deviceTokens' = deviceTokens /\ batches' = batches /\ said' = said
  BY DEF AskToken
<1>2. /\ tokenCalls'[c] = [op |-> op, token |-> t, says |-> says, changes |-> changes]
      /\ \A d \in TokenCalls \ {c} : tokenCalls'[d] = tokenCalls[d]
      /\ TokensShape'
  BY <1>1 DEF DeviceTokensInv, TokensShape
<1>3. \A d \in TokenCalls : tokenCalls'[d] = NoTokenCall \/ OpenTokenCall(d)'
  <2>1. OpenTokenCall(c)'
    BY <1>1, <1>2 DEF OpenTokenCall
  <2>2. ASSUME NEW d \in TokenCalls \ {c}
        PROVE  tokenCalls'[d] = NoTokenCall \/ OpenTokenCall(d)'
    BY <1>1, <1>2 DEF DeviceTokensInv, OpenTokenCall
  <2> QED
    BY <2>1, <2>2
<1>4. \A u \in PushTokens \ crossing' : OneHolder(u)'
  <2> SUFFICES ASSUME NEW u \in PushTokens \ crossing'
               PROVE  OneHolder(u)'
    OBVIOUS
  <2>1. u \notin crossing /\ OneHolder(u)
    BY <1>1 DEF DeviceTokensInv
  <2>2. CASE u # t
    <3>1. \A d \in TokenCalls : CallHolds(d, u)' => CallHolds(d, u)
      BY <1>2, <2>2 DEF CallHolds
    <3> QED
      BY <1>1, <2>1, <3>1 DEF OneHolder, BatchHolds
  <2>3. CASE u = t
    <3>1. u \notin Held
      BY <1>1, <2>3
    <3>2. (\A d \in TokenCalls : ~CallHolds(d, u)) /\ (\A b \in Batches : ~BatchHolds(b, u))
      BY <3>1 DEF Held, CallHolds, BatchHolds
    <3> QED
      BY <1>1, <1>2, <3>2 DEF OneHolder, CallHolds, BatchHolds
  <2> QED
    BY <2>2, <2>3
<1>5. LastWordCounts'
  BY <1>1 DEF DeviceTokensInv, LastWordCounts
<1> QED
  BY <1>2, <1>3, <1>4, <1>5 DEF DeviceTokensInv

LEMMA TokenRequestsKeep ==
  ASSUME DeviceTokensInv, NEW c \in TokenCalls, NEW t \in PushTokens,
         \/ \E platform \in {"android", "web"} : RegisterDeviceToken(c, t, platform)
         \/ UnregisterDeviceToken(c, t)
  PROVE  DeviceTokensInv'
<1>1. deviceTokens[t] \in DeviceRow
  BY DEF DeviceTokensInv, TokensShape
<1>2. ASSUME NEW platform \in {"android", "web"}, RegisterDeviceToken(c, t, platform)
      PROVE  DeviceTokensInv'
  <2> DEFINE new == [is_active |-> TRUE, platform |-> platform]
  <2>1. CASE AskToken(c, "insert", t, TRUE, new)
    <3>1. TokenChanges(new) /\ DOMAIN new = {"is_active", "platform"} /\ new.is_active = TRUE
      BY DEF TokenChanges
    <3> HIDE DEF new
    <3>2. OrmFlush(deviceTokens[t], new).is_active = TRUE
      BY <1>1, <3>1, TokenFlush
    <3> QED
      BY <2>1, <3>1, <3>2, AskTokenKeeps
  <2>2. CASE AskToken(c, "update", t, TRUE, OrmChanges(deviceTokens[t], Refreshed(deviceTokens[t], platform)))
    <3> DEFINE edited == Refreshed(deviceTokens[t], platform)
    <3>1. edited \in DeviceRow /\ edited.is_active = TRUE
      BY <1>1 DEF Refreshed, DeviceRow
    <3> HIDE DEF edited
    <3> QED
      BY <1>1, <2>2, <3>1, TokenEdit, AskTokenKeeps DEF edited
  <2> QED
    BY <1>2, <2>1, <2>2 DEF RegisterDeviceToken
<1>3. ASSUME UnregisterDeviceToken(c, t)
      PROVE  DeviceTokensInv'
  <2> DEFINE edited == [deviceTokens[t] EXCEPT !.is_active = FALSE]
  <2>1. edited \in DeviceRow /\ edited.is_active = FALSE
    BY <1>1 DEF DeviceRow
  <2>2. AskToken(c, "update", t, FALSE, OrmChanges(deviceTokens[t], edited))
    BY <1>3 DEF UnregisterDeviceToken
  <2> HIDE DEF edited
  <2> QED
    BY <1>1, <2>1, <2>2, TokenEdit, AskTokenKeeps
<1> QED
  BY <1>2, <1>3

LEMMA CommitTokenKeeps ==
  ASSUME DeviceTokensInv, NEW c \in TokenCalls, CommitToken(c)
  PROVE  DeviceTokensInv'
<1> DEFINE t == tokenCalls[c].token
           changes == tokenCalls[c].changes
<1>1. /\ tokenCalls[c].op # "idle"
      /\ deviceTokens' = [deviceTokens EXCEPT ![t] = OrmFlush(@, changes)]
      /\ said' = [said EXCEPT ![t] = tokenCalls[c].says]
      /\ tokenCalls' = [tokenCalls EXCEPT ![c] = NoTokenCall]
      /\ batches' = batches /\ crossing' = crossing
  BY DEF CommitToken
<1>2. tokenCalls[c] # NoTokenCall /\ OpenTokenCall(c) /\ CallHolds(c, t)
  BY <1>1 DEF DeviceTokensInv, NoTokenCall, CallHolds
<1>3. /\ t \in PushTokens /\ tokenCalls[c].says \in BOOLEAN
      /\ OrmFlush(deviceTokens[t], changes) \in DeviceRow
  <2>1. t \in PushTokens /\ TokenChanges(changes) /\ tokenCalls[c].says \in BOOLEAN
    BY <1>2 DEF OpenTokenCall
  <2>2. deviceTokens[t] \in DeviceRow
    BY <2>1 DEF DeviceTokensInv, TokensShape
  <2> QED
    BY <2>1, <2>2, TokenFlush
<1>4. /\ deviceTokens'[t] = OrmFlush(deviceTokens[t], changes)
      /\ said'[t] = tokenCalls[c].says
      /\ \A u \in PushTokens \ {t} : deviceTokens'[u] = deviceTokens[u] /\ said'[u] = said[u]
      /\ tokenCalls'[c] = NoTokenCall
      /\ \A d \in TokenCalls \ {c} : tokenCalls'[d] = tokenCalls[d]
      /\ TokensShape'
  BY <1>1, <1>3 DEF DeviceTokensInv, TokensShape
<1>5. ASSUME NEW d \in TokenCalls
      PROVE  tokenCalls'[d] = NoTokenCall \/ OpenTokenCall(d)'
  <2>1. CASE d = c
    BY <1>4, <2>1
  <2>2. CASE tokenCalls[d] = NoTokenCall
    BY <1>4, <2>1, <2>2
  <2>3. CASE d # c /\ tokenCalls[d] # NoTokenCall
    <3>1. OpenTokenCall(d) /\ tokenCalls'[d] = tokenCalls[d]
      BY <1>4, <2>3 DEF DeviceTokensInv
    <3>2. tokenCalls[d].token \notin crossing => tokenCalls[d].token # t
      BY <1>2, <1>3, <2>3, <3>1 DEF DeviceTokensInv, OneHolder, CallHolds, OpenTokenCall
    <3> HIDE DEF t, changes
    <3> QED
      BY <1>1, <1>4, <3>1, <3>2 DEF OpenTokenCall
  <2> QED
    BY <2>1, <2>2, <2>3
<1>6. \A u \in PushTokens \ crossing' : OneHolder(u)'
  <2>1. \A u, d : d \in TokenCalls /\ CallHolds(d, u)' => CallHolds(d, u)
    BY <1>4 DEF CallHolds
  <2> QED
    BY <1>1, <2>1 DEF DeviceTokensInv, OneHolder, BatchHolds
<1>7. LastWordCounts'
  BY <1>1, <1>2, <1>4 DEF DeviceTokensInv, LastWordCounts, OpenTokenCall
<1> QED
  BY <1>4, <1>5, <1>6, <1>7 DEF DeviceTokensInv

\* Steps after which nobody holds a token who did not before and no row is other.
LEMMA LettingGoKeeps ==
  ASSUME DeviceTokensInv, TokensShape', UNCHANGED <<deviceTokens, said, crossing>>,
         \A c \in TokenCalls : tokenCalls'[c] \in {tokenCalls[c], NoTokenCall},
         \A b \in Batches, t \in PushTokens : BatchHolds(b, t)' => BatchHolds(b, t)
  PROVE  DeviceTokensInv'
<1>1. \A c \in TokenCalls : tokenCalls'[c] = NoTokenCall \/ OpenTokenCall(c)'
  BY DEF DeviceTokensInv, OpenTokenCall
<1>2. \A c \in TokenCalls, t \in PushTokens : CallHolds(c, t)' => CallHolds(c, t)
  BY DEF CallHolds
<1>3. \A t \in PushTokens \ crossing' : OneHolder(t)'
  BY <1>2 DEF DeviceTokensInv, OneHolder
<1> QED
  BY <1>1, <1>3 DEF DeviceTokensInv, LastWordCounts

LEMMA LoadTokensKeeps ==
  ASSUME DeviceTokensInv, NEW b \in Batches, LoadTokens(b)
  PROVE  DeviceTokensInv'
<1> DEFINE active == {t \in PushTokens : deviceTokens[t].is_active}
<1>1. /\ batches' = [batches EXCEPT ![b] = [running |-> TRUE, todo |-> active, refused |-> {}]]
      /\ crossing' = crossing \cup (active \cap Held)
      /\ deviceTokens' = deviceTokens /\ tokenCalls' = tokenCalls /\ said' = said
  BY DEF LoadTokens
<1>2. TokensShape' /\ \A a \in Batches \ {b} : batches'[a] = batches[a]
  BY <1>1 DEF DeviceTokensInv, TokensShape
<1>3. batches'[b].todo \cup batches'[b].refused = active
  BY <1>1 DEF DeviceTokensInv, TokensShape
<1>4. \A c \in TokenCalls : tokenCalls'[c] = NoTokenCall \/ OpenTokenCall(c)'
  BY <1>1 DEF DeviceTokensInv, OpenTokenCall
<1>5. ASSUME NEW t \in PushTokens \ crossing'
      PROVE  OneHolder(t)'
  <2> HIDE DEF active
  <2>1. OneHolder(t) /\ ~(t \in active /\ t \in Held)
    BY <1>1 DEF DeviceTokensInv
  <2>2. CASE t \in active
    <3>1. (\A d \in TokenCalls : ~CallHolds(d, t)) /\ (\A a \in Batches : ~BatchHolds(a, t))
      BY <2>1, <2>2 DEF Held, CallHolds, BatchHolds
    <3> QED
      BY <1>1, <1>2, <3>1 DEF OneHolder, CallHolds, BatchHolds
  <2>3. CASE t \notin active
    <3>1. \A a \in Batches : BatchHolds(a, t)' => BatchHolds(a, t)
      BY <1>2, <1>3, <2>3 DEF BatchHolds
    <3> QED
      BY <1>1, <2>1, <3>1 DEF OneHolder, CallHolds
  <2> QED
    BY <2>2, <2>3
<1> QED
  BY <1>1, <1>2, <1>4, <1>5 DEF DeviceTokensInv, LastWordCounts

LEMMA CommitBatchKeeps ==
  ASSUME DeviceTokensInv, NEW b \in Batches, CommitBatch(b)
  PROVE  DeviceTokensInv'
<1>1. /\ deviceTokens' = [t \in PushTokens |->
           IF t \in batches[b].refused THEN [deviceTokens[t] EXCEPT !.is_active = FALSE] ELSE deviceTokens[t]]
      /\ said' = [t \in PushTokens |-> said[t] /\ t \notin batches[b].refused]
      /\ batches' = [batches EXCEPT ![b] = Asleep]
      /\ tokenCalls' = tokenCalls /\ crossing' = crossing
  BY DEF CommitBatch
<1>2. \A t \in PushTokens \ batches[b].refused : deviceTokens'[t] = deviceTokens[t] /\ said'[t] = said[t]
  BY <1>1 DEF DeviceTokensInv, TokensShape
<1>3. \A t \in batches[b].refused \cap PushTokens :
        deviceTokens'[t].is_active = FALSE /\ said'[t] = FALSE /\ deviceTokens'[t] \in DeviceRow
  <2> SUFFICES ASSUME NEW t \in batches[b].refused \cap PushTokens
               PROVE  deviceTokens'[t].is_active = FALSE /\ said'[t] = FALSE /\ deviceTokens'[t] \in DeviceRow
    OBVIOUS
  <2>1. deviceTokens'[t] = [deviceTokens[t] EXCEPT !.is_active = FALSE] /\ said'[t] = FALSE
    BY <1>1
  <2>2. deviceTokens[t] \in DeviceRow
    BY DEF DeviceTokensInv, TokensShape
  <2> QED
    BY <2>1, <2>2 DEF DeviceRow
<1>4. TokensShape'
  <2>1. deviceTokens' \in [PushTokens -> DeviceRow]
    BY <1>1, <1>2, <1>3 DEF DeviceTokensInv, TokensShape
  <2>2. said' \in [PushTokens -> BOOLEAN]
    BY <1>1
  <2> QED
    BY <1>1, <2>1, <2>2 DEF DeviceTokensInv, TokensShape, Asleep
<1>5. ASSUME NEW c \in TokenCalls
      PROVE  tokenCalls'[c] = NoTokenCall \/ OpenTokenCall(c)'
  <2> SUFFICES ASSUME tokenCalls[c] # NoTokenCall
               PROVE  OpenTokenCall(c)'
    BY <1>1
  <2>1. OpenTokenCall(c)
    BY DEF DeviceTokensInv
  <2>2. tokenCalls[c].token \notin crossing => tokenCalls[c].token \notin batches[b].refused
    BY <2>1 DEF DeviceTokensInv, OneHolder, CallHolds, BatchHolds, OpenTokenCall
  <2> QED
    BY <1>1, <1>2, <2>1, <2>2 DEF OpenTokenCall
<1>6. \A t \in PushTokens \ crossing' : OneHolder(t)'
  <2>1. \A a \in Batches, t \in PushTokens : BatchHolds(a, t)' => BatchHolds(a, t)
    BY <1>1 DEF BatchHolds, Asleep, DeviceTokensInv, TokensShape
  <2> QED
    BY <1>1, <2>1 DEF DeviceTokensInv, OneHolder, CallHolds
<1>7. LastWordCounts'
  BY <1>1, <1>2, <1>3 DEF DeviceTokensInv, LastWordCounts
<1> QED
  BY <1>4, <1>5, <1>6, <1>7 DEF DeviceTokensInv

\* The inductive invariant: a token that two have not held at the same time has at
\* most one holder, and what a request is about to write comes out as it says.
THEOREM DeviceTokensInvariance == DeviceTokensSpec => []DeviceTokensInv
<1>1. DeviceTokensInit => DeviceTokensInv
  <2> SUFFICES ASSUME DeviceTokensInit
               PROVE  DeviceTokensInv
    OBVIOUS
  <2>1. TokensShape
    BY DEF DeviceTokensInit, TokensShape, DeviceRow, NoToken, Asleep
  <2>2. \A c \in TokenCalls : tokenCalls[c] = NoTokenCall
    BY DEF DeviceTokensInit
  <2>3. \A b \in Batches, t \in PushTokens : ~BatchHolds(b, t)
    BY DEF DeviceTokensInit, BatchHolds, Asleep
  <2>4. LastWordCounts
    BY DEF DeviceTokensInit, LastWordCounts, NoToken
  <2> QED
    BY <2>1, <2>2, <2>3, <2>4 DEF DeviceTokensInv, OneHolder, CallHolds
<1>2. DeviceTokensInv /\ [DeviceTokensNext]_deviceTokensVars => DeviceTokensInv'
  <2> SUFFICES ASSUME DeviceTokensInv, [DeviceTokensNext]_deviceTokensVars
               PROVE  DeviceTokensInv'
    OBVIOUS
  <2>1. ASSUME NEW c \in TokenCalls, TokenCallFails(c)
        PROVE  DeviceTokensInv'
    <3>1. /\ tokenCalls' = [tokenCalls EXCEPT ![c] = NoTokenCall]
          /\ UNCHANGED <<deviceTokens, batches, said, crossing>>
      BY <2>1 DEF TokenCallFails
    <3> QED
      BY <3>1, LettingGoKeeps DEF DeviceTokensInv, TokensShape, BatchHolds
  <2>2. ASSUME NEW b \in Batches, NEW t \in PushTokens, SendNewOfferPush(b, t)
        PROVE  DeviceTokensInv'
    <3>1. /\ t \in batches[b].todo
          /\ \/ batches' = [batches EXCEPT ![b].todo = @ \ {t}]
             \/ batches' = [batches EXCEPT ![b].todo = @ \ {t}, ![b].refused = @ \cup {t}]
          /\ UNCHANGED <<deviceTokens, tokenCalls, said, crossing>>
      BY <2>2 DEF SendNewOfferPush
    <3>2. TokensShape' /\ \A a \in Batches, u \in PushTokens : BatchHolds(a, u)' => BatchHolds(a, u)
      BY <3>1 DEF DeviceTokensInv, TokensShape, BatchHolds
    <3> QED
      BY <3>1, <3>2, LettingGoKeeps
  <2>3. ASSUME NEW b \in Batches, BatchFails(b)
        PROVE  DeviceTokensInv'
    <3>1. /\ batches' = [batches EXCEPT ![b] = Asleep]
          /\ UNCHANGED <<deviceTokens, tokenCalls, said, crossing>>
      BY <2>3 DEF BatchFails
    <3>2. TokensShape' /\ \A a \in Batches, u \in PushTokens : BatchHolds(a, u)' => BatchHolds(a, u)
      BY <3>1 DEF DeviceTokensInv, TokensShape, BatchHolds, Asleep
    <3> QED
      BY <3>1, <3>2, LettingGoKeeps
  <2>4. CASE UNCHANGED <<deviceTokens, tokenCalls, batches, said, crossing>>
    BY <2>4, LettingGoKeeps DEF DeviceTokensInv, TokensShape, BatchHolds
  <2>5. UNCHANGED deviceTokensVars \/ (\E t \in PushTokens : Uninstall(t)) =>
          UNCHANGED <<deviceTokens, tokenCalls, batches, said, crossing>>
    BY DEF deviceTokensVars, Uninstall
  <2> QED
    BY <2>1, <2>2, <2>3, <2>4, <2>5, TokenRequestsKeep, CommitTokenKeeps, LoadTokensKeeps,
       CommitBatchKeeps DEF DeviceTokensNext
<1> QED
  BY <1>1, <1>2, PTL DEF DeviceTokensSpec

\* The last word on a token counts, for any number of tokens, requests and push
\* tasks, and whatever failed in between.
THEOREM LastWordHolds == DeviceTokensSpec => []LastWordCounts
<1>1. DeviceTokensInv => LastWordCounts
  BY DEF DeviceTokensInv
<1> QED
  BY <1>1, DeviceTokensInvariance, PTL

\* A token that has had a row keeps one, and only an insert makes one of none.
PlatformRow == [is_active : BOOLEAN, platform : {"android", "web"}]

TypedTokenCall(call) ==
  call # NoTokenCall =>
    /\ call.op = "insert" => "platform" \in DOMAIN call.changes
    /\ call.op = "update" => deviceTokens[call.token] \in PlatformRow
    /\ "platform" \in DOMAIN call.changes => call.changes.platform \in {"android", "web"}

TypedBatch(batch) ==
  /\ batch.todo \cap batch.refused = {}
  /\ ~batch.running => batch = Asleep

TokenTypes ==
  /\ \A t \in PushTokens : deviceTokens[t] = NoToken \/ deviceTokens[t] \in PlatformRow
  /\ \A c \in TokenCalls : TypedTokenCall(tokenCalls[c])
  /\ \A b \in Batches : TypedBatch(batches[b])
  /\ uninstalled \subseteq PushTokens /\ crossing \subseteq PushTokens

LEMMA AskTokenTyped ==
  ASSUME DeviceTokensInv, TokenTypes, NEW c \in TokenCalls, NEW op \in {"insert", "update"},
         NEW t \in PushTokens, NEW says, NEW changes, AskToken(c, op, t, says, changes),
         op = "insert" => "platform" \in DOMAIN changes,
         op = "update" => deviceTokens[t] \in PlatformRow,
         "platform" \in DOMAIN changes => changes.platform \in {"android", "web"}
  PROVE  TokenTypes'
<1> DEFINE call == [op |-> op, token |-> t, says |-> says, changes |-> changes]
<1>1. /\ tokenCalls' = [tokenCalls EXCEPT ![c] = call]
      /\ crossing' \subseteq crossing \cup {t}
      /\ UNCHANGED <<deviceTokens, batches, uninstalled, said>>
  BY DEF AskToken
<1>2. call.op = op /\ call.token = t /\ call.changes = changes
  OBVIOUS
<1> HIDE DEF call
<1>3. \A d \in TokenCalls : tokenCalls'[d] = IF d = c THEN call ELSE tokenCalls[d]
  BY <1>1 DEF DeviceTokensInv, TokensShape
<1> QED
  BY <1>1, <1>2, <1>3 DEF TokenTypes, TypedTokenCall

LEMMA TokenRequestsTyped ==
  ASSUME DeviceTokensInv, TokenTypes, NEW c \in TokenCalls, NEW t \in PushTokens,
         \/ \E platform \in {"android", "web"} : RegisterDeviceToken(c, t, platform)
         \/ UnregisterDeviceToken(c, t)
  PROVE  TokenTypes'
<1> DEFINE row == deviceTokens[t]
<1>1. row = NoToken \/ row \in PlatformRow
  BY DEF TokenTypes
<1>2. ASSUME NEW edited, row \in PlatformRow, "platform" \in DOMAIN OrmChanges(row, edited)
      PROVE  OrmChanges(row, edited).platform = edited.platform
  BY <1>2 DEF OrmChanges, PlatformRow
<1>3. ASSUME NEW platform \in {"android", "web"}, RegisterDeviceToken(c, t, platform)
      PROVE  TokenTypes'
  <2>1. CASE row = NoToken
    <3> DEFINE new == [is_active |-> TRUE, platform |-> platform]
    <3>1. "platform" \in DOMAIN new /\ new.platform = platform
      OBVIOUS
    <3>2. AskToken(c, "insert", t, TRUE, new)
      BY <1>3, <2>1 DEF RegisterDeviceToken
    <3> HIDE DEF new
    <3> QED
      BY <3>1, <3>2, AskTokenTyped
  <2>2. CASE row # NoToken
    <3> DEFINE edited == Refreshed(row, platform)
    <3>1. row \in PlatformRow
      BY <1>1, <2>2
    <3>2. edited.platform = platform
      BY <3>1 DEF Refreshed, PlatformRow
    <3>3. AskToken(c, "update", t, TRUE, OrmChanges(row, edited))
      BY <1>3, <2>2 DEF RegisterDeviceToken
    <3> HIDE DEF edited, row
    <3> QED
      BY <1>2, <3>1, <3>2, <3>3, AskTokenTyped DEF row
  <2> QED
    BY <2>1, <2>2
<1>4. ASSUME UnregisterDeviceToken(c, t)
      PROVE  TokenTypes'
  <2> DEFINE edited == [row EXCEPT !.is_active = FALSE]
  <2>1. row \in PlatformRow /\ AskToken(c, "update", t, FALSE, OrmChanges(row, edited))
    BY <1>1, <1>4 DEF UnregisterDeviceToken
  <2>2. edited.platform = row.platform /\ row.platform \in {"android", "web"}
    BY <2>1 DEF PlatformRow
  <2> HIDE DEF edited, row
  <2> QED
    BY <1>2, <2>1, <2>2, AskTokenTyped DEF row
<1> QED
  BY <1>3, <1>4

LEMMA CommitTokenTyped ==
  ASSUME DeviceTokensInv, TokenTypes, NEW c \in TokenCalls, CommitToken(c)
  PROVE  TokenTypes'
<1> DEFINE call == tokenCalls[c]
           t == call.token
           row == OrmFlush(deviceTokens[t], call.changes)
<1>1. /\ call.op # "idle"
      /\ deviceTokens' = [deviceTokens EXCEPT ![t] = row]
      /\ tokenCalls' = [tokenCalls EXCEPT ![c] = NoTokenCall]
      /\ UNCHANGED <<batches, uninstalled, crossing>>
  BY DEF CommitToken
<1>2. call # NoTokenCall /\ OpenTokenCall(c)
  BY <1>1 DEF DeviceTokensInv, NoTokenCall
<1>3. t \in PushTokens /\ TokenChanges(call.changes) /\ deviceTokens[t] \in DeviceRow /\ call.op \in {"insert", "update"}
  BY <1>2 DEF OpenTokenCall, DeviceTokensInv, TokensShape
<1>4. TypedTokenCall(call)
  BY DEF TokenTypes
<1>5. /\ row \in DeviceRow
      /\ row.platform = IF "platform" \in DOMAIN call.changes THEN call.changes.platform ELSE deviceTokens[t].platform
  BY <1>3, TokenFlush DEF OrmFlush, DeviceRow
<1> HIDE DEF row
<1>6. row \in PlatformRow
  <2>1. row.platform \in {"android", "web"}
    BY <1>2, <1>3, <1>4, <1>5 DEF TypedTokenCall, PlatformRow
  <2> QED
    BY <1>5, <2>1 DEF DeviceRow, PlatformRow
<1>7. /\ deviceTokens'[t] \in PlatformRow
      /\ \A u \in PushTokens \ {t} : deviceTokens'[u] = deviceTokens[u]
  BY <1>1, <1>3, <1>6 DEF DeviceTokensInv, TokensShape
<1>8. \A d \in TokenCalls : tokenCalls'[d] = IF d = c THEN NoTokenCall ELSE tokenCalls[d]
  BY <1>1 DEF DeviceTokensInv, TokensShape
<1> HIDE DEF t
<1>9. \A d \in TokenCalls : TypedTokenCall(tokenCalls[d])'
  <2> SUFFICES ASSUME NEW d \in TokenCalls, d # c, tokenCalls[d] # NoTokenCall
               PROVE  TypedTokenCall(tokenCalls[d])'
    BY <1>8 DEF TypedTokenCall
  <2>1. tokenCalls[d].token \in PushTokens /\ TypedTokenCall(tokenCalls[d])
    BY DEF DeviceTokensInv, OpenTokenCall, TokenTypes
  <2> QED
    BY <1>7, <1>8, <2>1 DEF TypedTokenCall
<1> QED
  BY <1>1, <1>7, <1>9 DEF TokenTypes

LEMMA BatchesTyped ==
  ASSUME DeviceTokensInv, TokenTypes, NEW b \in Batches,
         \/ LoadTokens(b) \/ CommitBatch(b) \/ BatchFails(b)
         \/ \E t \in PushTokens : SendNewOfferPush(b, t)
  PROVE  TokenTypes'
<1>1. \A batch : TypedBatch(Asleep) /\ TypedBatch([running |-> TRUE, todo |-> batch, refused |-> {}])
  BY DEF TypedBatch, Asleep
<1>2. /\ batches \in [Batches -> [running : BOOLEAN, todo : SUBSET PushTokens, refused : SUBSET PushTokens]]
      /\ TypedBatch(batches[b])
  BY DEF DeviceTokensInv, TokensShape, TokenTypes
<1>3. ASSUME NEW batch, batches' = [batches EXCEPT ![b] = batch], TypedBatch(batch)
      PROVE  \A a \in Batches : TypedBatch(batches'[a])
  BY <1>2, <1>3 DEF TokenTypes
<1>4. CASE LoadTokens(b)
  <2> DEFINE active == {t \in PushTokens : deviceTokens[t].is_active}
             batch == [running |-> TRUE, todo |-> active, refused |-> {}]
  <2>1. /\ batches' = [batches EXCEPT ![b] = batch]
        /\ crossing' \subseteq PushTokens
        /\ UNCHANGED <<deviceTokens, tokenCalls, uninstalled, said>>
    BY <1>4 DEF LoadTokens, TokenTypes
  <2>2. TypedBatch(batch)
    BY <1>1
  <2> HIDE DEF batch
  <2> QED
    BY <1>3, <2>1, <2>2 DEF TokenTypes, TypedTokenCall
<1>5. CASE BatchFails(b)
  BY <1>1, <1>3, <1>5 DEF BatchFails, TokenTypes, TypedTokenCall
<1>6. ASSUME NEW t \in PushTokens, SendNewOfferPush(b, t)
      PROVE  TokenTypes'
  <2>1. t \in batches[b].todo /\ UNCHANGED <<deviceTokens, tokenCalls, uninstalled, said, crossing>>
    BY <1>6 DEF SendNewOfferPush
  <2>2. batches[b].running
    BY <1>2, <2>1 DEF TypedBatch, Asleep
  <2>3. \A a \in Batches : TypedBatch(batches'[a])
    BY <1>2, <1>6, <2>1, <2>2 DEF SendNewOfferPush, TypedBatch, TokenTypes
  <2> QED
    BY <2>1, <2>3 DEF TokenTypes, TypedTokenCall
<1>7. CASE CommitBatch(b)
  <2>1. /\ batches' = [batches EXCEPT ![b] = Asleep]
        /\ deviceTokens' = [t \in PushTokens |->
             IF t \in batches[b].refused THEN [deviceTokens[t] EXCEPT !.is_active = FALSE] ELSE deviceTokens[t]]
        /\ UNCHANGED <<tokenCalls, uninstalled, crossing>>
    BY <1>7 DEF CommitBatch
  <2>2. ASSUME NEW row
        PROVE  /\ row = NoToken => [row EXCEPT !.is_active = FALSE] = NoToken
               /\ row \in PlatformRow => [row EXCEPT !.is_active = FALSE] \in PlatformRow
    <3>1. ASSUME row = NoToken
          PROVE  [row EXCEPT !.is_active = FALSE] = NoToken
      <4> DEFINE new == [row EXCEPT !.is_active = FALSE]
      <4>1. /\ DOMAIN row = {"is_active", "platform"} /\ row = [x \in {"is_active", "platform"} |-> row[x]]
            /\ row["is_active"] = FALSE
        BY <3>1 DEF NoToken
      <4>2. new = [x \in {"is_active", "platform"} |-> IF x = "is_active" THEN FALSE ELSE row[x]]
        BY <4>1
      <4>3. \A x \in {"is_active", "platform"} : (IF x = "is_active" THEN FALSE ELSE row[x]) = row[x]
        BY <4>1
      <4>4. new = row
        BY <4>1, <4>2, <4>3, Zenon
      <4> QED
        BY <3>1, <4>4
    <3>2. row \in PlatformRow => [row EXCEPT !.is_active = FALSE] \in PlatformRow
      BY DEF PlatformRow
    <3> QED
      BY <3>1, <3>2
  <2>3. \A t \in PushTokens : /\ deviceTokens[t] = NoToken => deviceTokens'[t] = NoToken
                              /\ deviceTokens[t] \in PlatformRow => deviceTokens'[t] \in PlatformRow
    BY <2>1, <2>2
  <2>4. ASSUME NEW c \in TokenCalls
        PROVE  TypedTokenCall(tokenCalls[c])'
    <3>1. tokenCalls[c] # NoTokenCall => tokenCalls[c].token \in PushTokens
      BY DEF DeviceTokensInv, OpenTokenCall
    <3> QED
      BY <2>1, <2>3, <3>1 DEF TokenTypes, TypedTokenCall
  <2> QED
    BY <1>1, <1>3, <2>1, <2>3, <2>4 DEF TokenTypes
<1> QED
  BY <1>4, <1>5, <1>6, <1>7

\* The rows of the tokens, the requests and the push tasks keep their types.
THEOREM DeviceTokensTyped == DeviceTokensSpec => []DeviceTokensTypeOK
<1>1. DeviceTokensInit => TokenTypes
  BY DEF DeviceTokensInit, TokenTypes, TypedTokenCall, TypedBatch, Asleep
<1>2. DeviceTokensInv /\ TokenTypes /\ [DeviceTokensNext]_deviceTokensVars => TokenTypes'
  <2> SUFFICES ASSUME DeviceTokensInv, TokenTypes, [DeviceTokensNext]_deviceTokensVars
               PROVE  TokenTypes'
    OBVIOUS
  <2>1. ASSUME NEW c \in TokenCalls, TokenCallFails(c)
        PROVE  TokenTypes'
    <3>1. /\ \A d \in TokenCalls : tokenCalls'[d] \in {tokenCalls[d], NoTokenCall}
          /\ UNCHANGED <<deviceTokens, batches, uninstalled, said, crossing>>
      BY <2>1 DEF TokenCallFails, DeviceTokensInv, TokensShape
    <3> QED
      BY <3>1 DEF TokenTypes, TypedTokenCall
  <2>2. CASE (\E t \in PushTokens : Uninstall(t)) \/ UNCHANGED deviceTokensVars
    BY <2>2 DEF Uninstall, deviceTokensVars, TokenTypes, TypedTokenCall
  <2> QED
    BY <2>1, <2>2, TokenRequestsTyped, CommitTokenTyped, BatchesTyped DEF DeviceTokensNext
<1>3. DeviceTokensInv /\ TokenTypes => DeviceTokensTypeOK
  <2> SUFFICES ASSUME DeviceTokensInv, TokenTypes
               PROVE  DeviceTokensTypeOK
    OBVIOUS
  <2>1. deviceTokens \in [PushTokens -> {NoToken} \cup PlatformRow]
    BY DEF DeviceTokensInv, TokensShape, TokenTypes
  <2>2. \A c \in TokenCalls : tokenCalls[c].op \in {"idle", "insert", "update"}
    BY DEF DeviceTokensInv, OpenTokenCall, NoTokenCall
  <2>3. \A b \in Batches : batches[b].todo \cup batches[b].refused \subseteq PushTokens
    BY DEF DeviceTokensInv, TokensShape
  <2> QED
    BY <2>1, <2>2, <2>3 DEF DeviceTokensInv, TokensShape, TokenTypes, TypedBatch, PlatformRow, DeviceTokensTypeOK
<1> QED
  BY <1>1, <1>2, <1>3, DeviceTokensInvariance, PTL DEF DeviceTokensSpec

------------------------------------------------------------------------------
(* Chat.                                                                   *)

Handler ==
  [at : 0..3, message : Messages \cup {None}, provider : Helpers \cup {None},
   copied : BOOLEAN, to : SUBSET SocketIds, broken : SUBSET SocketIds]

ChatShape ==
  /\ chat \subseteq Messages
  /\ owner \in [SocketIds -> Talkers \cup {None}]
  /\ handlers \in [SocketIds -> Handler]
  /\ shown \in [SocketIds -> SUBSET Messages]
  /\ addressed \in [Messages -> SUBSET Talkers]
  /\ assigned \in Helpers

\* A live socket is in the map, so that what is sent to its user reaches it.
LiveIsRegistered ==
  /\ registered \cup dead \cup caughtUp \subseteq Connected
  /\ Connected \ dead \subseteq registered

Watching(u) == {s \in caughtUp \ dead : owner[s] = u}

\* Only sockets that are open are still to be sent to, only dead ones have failed.
Sending(s) ==
  /\ handlers[s].copied => handlers[s].at >= 2
  /\ handlers[s].to # {} => handlers[s].copied
  /\ handlers[s].to \cup handlers[s].broken \subseteq Connected
  /\ handlers[s].broken \subseteq dead

\* How far the handler of s has come with its message: once the sockets of a party
\* are copied, each client of it that has the history shows the message or is still
\* to be sent to.
OnItsWay(s) ==
  handlers[s].at > 0 =>
    /\ s \in Connected /\ handlers[s].message \in Messages /\ handlers[s].provider \in Helpers
    /\ handlers[s].at >= 2 => handlers[s].message \in chat
    /\ handlers[s].at = 3 => \A r \in Watching(Customer) : handlers[s].message \in shown[r]
    /\ handlers[s].copied =>
         \A r \in Watching(Recipient(s)) : handlers[s].message \in shown[r] \/ r \in handlers[s].to

OnRecord ==
  /\ \A s \in SocketIds : shown[s] \subseteq chat
  /\ \A m \in Messages : addressed[m] # {} => m \in chat

Informed == \A m \in Messages : \A u \in addressed[m] : \A s \in Watching(u) : m \in shown[s]

ChatInv ==
  /\ ChatShape
  /\ LiveIsRegistered
  /\ \A s \in SocketIds : Sending(s) /\ OnItsWay(s)
  /\ OnRecord
  /\ Informed

LEMMA ChatInvAgrees == ChatInv => ChatAgrees
  BY DEF ChatInv, ChatShape, OnRecord, Informed, Watching, ChatAgrees, Connected

LEMMA RecipientTalks ==
  ASSUME ChatInv, NEW s \in SocketIds, handlers[s].at > 0
  PROVE  /\ Recipient(s) \in Talkers
         /\ handlers[s].at = 2 => Recipient(s) = Customer
         /\ handlers[s].at = 3 => Recipient(s) = handlers[s].provider
BY DEF Recipient, StageOf, Stages, Talkers, ChatInv, OnItsWay

\* Steps that leave the messages and their handlers alone, but for the sockets that
\* are closed, put nothing new under the eyes of a client and let no client that was
\* not watching watch.
LEMMA QuietStepKeeps ==
  ASSUME ChatInv, ChatShape', LiveIsRegistered', UNCHANGED <<chat, addressed>>,
         dead \cap Connected' \subseteq dead',
         \A s \in SocketIds :
           \/ handlers'[s] = Receiving
           \/ /\ s \in Connected => s \in Connected'
              /\ handlers'[s].at = handlers[s].at /\ handlers'[s].message = handlers[s].message
              /\ handlers'[s].provider = handlers[s].provider /\ handlers'[s].copied = handlers[s].copied
              /\ handlers'[s].to = handlers[s].to \cap Connected'
              /\ handlers'[s].broken = handlers[s].broken \cap Connected',
         \A s \in SocketIds : shown'[s] \subseteq chat,
         \A u \in Talkers : \A s \in Watching(u)' : s \in Watching(u) /\ shown'[s] = shown[s]
  PROVE  ChatInv'
<1>1. ASSUME NEW s \in SocketIds
      PROVE  Sending(s)' /\ OnItsWay(s)'
  <2>1. CASE handlers'[s] = Receiving
    BY <2>1 DEF Sending, OnItsWay, Receiving, Beginning
  <2>2. CASE handlers'[s] # Receiving
    <3>1. /\ s \in Connected => s \in Connected'
          /\ handlers'[s].at = handlers[s].at /\ handlers'[s].message = handlers[s].message
          /\ handlers'[s].provider = handlers[s].provider /\ handlers'[s].copied = handlers[s].copied
          /\ handlers'[s].to = handlers[s].to \cap Connected'
          /\ handlers'[s].broken = handlers[s].broken \cap Connected'
      BY <2>2
    <3>2. Sending(s) /\ OnItsWay(s) /\ handlers[s] \in Handler /\ handlers'[s] \in Handler
      BY DEF ChatInv, ChatShape
    <3>3. Sending(s)'
      BY <3>1, <3>2 DEF Sending
    <3>4. Recipient(s)' = Recipient(s) /\ Customer \in Talkers
      BY <3>1 DEF Recipient, StageOf, Talkers
    <3>5. handlers[s].at > 0 => Recipient(s) \in Talkers
      BY RecipientTalks
    <3>6. \A u \in Talkers : Watching(u)' \subseteq Connected'
      BY DEF Watching, LiveIsRegistered
    <3>7. ASSUME handlers[s].at > 0, handlers[s].copied, NEW r \in Watching(Recipient(s))'
          PROVE  handlers[s].message \in shown'[r] \/ r \in handlers'[s].to
      <4>1. PICK u \in Talkers : u = Recipient(s) /\ u = Recipient(s)'
        BY <3>4, <3>5, <3>7
      <4>2. r \in Watching(u)'
        BY <3>7, <4>1 DEF Watching
      <4>3. r \in Watching(u) /\ shown'[r] = shown[r] /\ r \in Connected'
        BY <3>6, <4>2
      <4> QED
        BY <3>1, <3>2, <3>7, <4>1, <4>3 DEF OnItsWay
    <3>8. \A r \in Watching(Customer)' : r \in Watching(Customer) /\ shown'[r] = shown[r]
      BY <3>4 DEF Watching
    <3> QED
      BY <3>1, <3>2, <3>3, <3>7, <3>8 DEF OnItsWay
  <2> QED
    BY <2>1, <2>2
<1>2. OnRecord' /\ Informed'
  BY DEF ChatInv, OnRecord, Informed, ChatShape
<1> QED
  BY <1>1, <1>2 DEF ChatInv

\* Handlers that stay as they are, while no socket is closed.
LEMMA HandlersStay ==
  ASSUME ChatInv, handlers' = handlers, Connected \subseteq Connected'
  PROVE  \A s \in SocketIds :
           /\ s \in Connected => s \in Connected'
           /\ handlers'[s].at = handlers[s].at /\ handlers'[s].message = handlers[s].message
           /\ handlers'[s].provider = handlers[s].provider /\ handlers'[s].copied = handlers[s].copied
           /\ handlers'[s].to = handlers[s].to \cap Connected'
           /\ handlers'[s].broken = handlers[s].broken \cap Connected'
BY DEF ChatInv, Sending

LEMMA ConnectionsKeep ==
  ASSUME ChatInv, NEW s \in SocketIds,
         (\E u \in Talkers : Connect(s, u)) \/ ClientDies(s)
  PROVE  ChatInv'
<1>1. ASSUME NEW u \in Talkers, Connect(s, u)
      PROVE  ChatInv'
  <2>1. /\ s \notin Connected /\ owner' = [owner EXCEPT ![s] = u] /\ registered' = registered \cup {s}
        /\ UNCHANGED <<assigned, chat, dead, handlers, caughtUp, shown, addressed>>
    BY <1>1 DEF Connect
  <2>2. ChatShape' /\ owner'[s] = u /\ \A r \in SocketIds \ {s} : owner'[r] = owner[r]
    BY <2>1 DEF ChatInv, ChatShape
  <2>3. u # None
    BY ChatAssumption
  <2>4. Connected' = Connected \cup {s}
    BY <2>2, <2>3 DEF Connected
  <2>5. LiveIsRegistered'
    BY <2>1, <2>4 DEF ChatInv, LiveIsRegistered
  <2>6. \A v \in Talkers : \A r \in Watching(v)' : r \in Watching(v)
    BY <2>1, <2>2 DEF ChatInv, LiveIsRegistered, Watching, Connected
  <2> QED
    BY <2>1, <2>2, <2>4, <2>5, <2>6, HandlersStay, QuietStepKeeps DEF ChatInv, OnRecord
<1>2. ASSUME ClientDies(s)
      PROVE  ChatInv'
  <2>1. /\ s \in Connected /\ dead' = dead \cup {s} /\ caughtUp' = caughtUp \ {s}
        /\ shown' = [shown EXCEPT ![s] = {}]
        /\ UNCHANGED <<assigned, chat, owner, registered, handlers, addressed>>
    BY <1>2 DEF ClientDies
  <2>2. /\ ChatShape' /\ Connected' = Connected
        /\ shown'[s] = {} /\ \A r \in SocketIds \ {s} : shown'[r] = shown[r]
    BY <2>1 DEF ChatInv, ChatShape, Connected
  <2>3. /\ LiveIsRegistered'
        /\ \A v \in Talkers : \A r \in Watching(v)' : r \in Watching(v) /\ r \in SocketIds \ {s}
    BY <2>1, <2>2 DEF ChatInv, LiveIsRegistered, Watching, Connected
  <2> QED
    BY <2>1, <2>2, <2>3, HandlersStay, QuietStepKeeps DEF ChatInv, OnRecord
<1> QED
  BY <1>1, <1>2

LEMMA ClosedKeeps ==
  ASSUME ChatInv, NEW S \in SUBSET SocketIds, Closed(S)
  PROVE  ChatInv'
<1>1. /\ owner' = [s \in SocketIds |-> IF s \in S THEN None ELSE owner[s]]
      /\ registered' = registered \ S /\ dead' = dead \ S /\ caughtUp' = caughtUp \ S
      /\ handlers' = [s \in SocketIds |->
           IF s \in S THEN Receiving ELSE [handlers[s] EXCEPT !.to = @ \ S, !.broken = @ \ S]]
      /\ shown' = [s \in SocketIds |-> IF s \in S THEN {} ELSE shown[s]]
      /\ UNCHANGED <<assigned, chat, addressed>>
  BY DEF Closed
<1>2. /\ \A s \in S : owner'[s] = None /\ handlers'[s] = Receiving /\ shown'[s] = {}
      /\ \A s \in SocketIds \ S : owner'[s] = owner[s] /\ shown'[s] = shown[s]
  BY <1>1
<1>3. ASSUME NEW s \in SocketIds \ S
      PROVE  /\ handlers'[s] \in Handler
             /\ handlers'[s].at = handlers[s].at /\ handlers'[s].message = handlers[s].message
             /\ handlers'[s].provider = handlers[s].provider /\ handlers'[s].copied = handlers[s].copied
             /\ handlers'[s].to = handlers[s].to \ S /\ handlers'[s].broken = handlers[s].broken \ S
  <2>1. handlers[s] \in Handler /\ handlers'[s] = [handlers[s] EXCEPT !.to = @ \ S, !.broken = @ \ S]
    BY <1>1 DEF ChatInv, ChatShape
  <2> QED
    BY <2>1 DEF Handler
<1>4. Receiving \in Handler
  BY DEF Receiving, Beginning, Handler
<1>5. ChatShape'
  <2>1. handlers' \in [SocketIds -> Handler]
    BY <1>1, <1>2, <1>3, <1>4
  <2> QED
    BY <1>1, <2>1 DEF ChatInv, ChatShape
<1>6. Connected' = Connected \ S
  BY <1>2 DEF Connected
<1>7. LiveIsRegistered' /\ dead \cap Connected' \subseteq dead'
  BY <1>1, <1>6 DEF ChatInv, LiveIsRegistered
<1>8. \A u \in Talkers : \A s \in Watching(u)' : s \in Watching(u) /\ shown'[s] = shown[s]
  <2>1. caughtUp \subseteq SocketIds
    BY DEF ChatInv, LiveIsRegistered, Connected
  <2> QED
    BY <1>1, <1>2, <2>1 DEF Watching
<1>9. \A s \in SocketIds : shown'[s] \subseteq chat
  BY <1>2 DEF ChatInv, OnRecord
<1>10. ASSUME NEW s \in SocketIds \ S
       PROVE  /\ handlers'[s].to = handlers[s].to \cap Connected'
              /\ handlers'[s].broken = handlers[s].broken \cap Connected'
  BY <1>3, <1>6 DEF ChatInv, Sending
<1> QED
  BY <1>1, <1>2, <1>3, <1>5, <1>6, <1>7, <1>8, <1>9, <1>10, QuietStepKeeps

LEMMA FetchHistoryKeeps ==
  ASSUME ChatInv, NEW s \in SocketIds, FetchHistory(s)
  PROVE  ChatInv'
<1>1. /\ s \in Connected
      /\ shown' = [shown EXCEPT ![s] = @ \cup chat]
      /\ caughtUp' = caughtUp \cup {s}
      /\ UNCHANGED <<assigned, chat, owner, registered, dead, handlers, addressed>>
  BY DEF FetchHistory
<1>2. /\ ChatShape' /\ Connected' = Connected
      /\ shown'[s] = shown[s] \cup chat
      /\ \A r \in SocketIds \ {s} : shown'[r] = shown[r]
  BY <1>1 DEF ChatInv, ChatShape, Connected
<1>3. LiveIsRegistered'
  BY <1>1, <1>2 DEF ChatInv, LiveIsRegistered
<1>4. \A u : \A r \in Watching(u)' :
        r \in SocketIds /\ ((r \in Watching(u) /\ shown[r] \subseteq shown'[r]) \/ chat \subseteq shown'[r])
  BY <1>1, <1>2, <1>3 DEF ChatInv, Watching, LiveIsRegistered, Connected
<1>5. ASSUME NEW r \in SocketIds
      PROVE  Sending(r)' /\ OnItsWay(r)'
  <2>1. Sending(r)' /\ Recipient(r)' = Recipient(r)
    BY <1>1, <1>2 DEF ChatInv, Sending, Recipient, StageOf
  <2>2. OnItsWay(r) /\ Sending(r)
    BY DEF ChatInv
  <2>3. ASSUME handlers[r].at > 0, handlers[r].copied, NEW w \in Watching(Recipient(r))'
        PROVE  handlers[r].message \in shown'[w] \/ w \in handlers[r].to
    <3>1. PICK u : u = Recipient(r) /\ u = Recipient(r)'
      BY <2>1
    <3>2. w \in Watching(u)'
      BY <2>3, <3>1 DEF Watching
    <3> QED
      BY <1>4, <2>2, <2>3, <3>1, <3>2 DEF OnItsWay, Sending
  <2> QED
    BY <1>1, <1>2, <1>4, <2>1, <2>2, <2>3 DEF OnItsWay
<1>6. OnRecord' /\ Informed'
  BY <1>1, <1>2, <1>4 DEF ChatInv, OnRecord, Informed
<1> QED
  BY <1>2, <1>3, <1>5, <1>6 DEF ChatInv

\* A handler's own step: the messages only gain, nobody comes or goes.
LEMMA OthersGoOn ==
  ASSUME ChatInv, NEW s \in SocketIds, UNCHANGED <<owner, dead, caughtUp>>, chat \subseteq chat',
         \A r \in SocketIds : shown[r] \subseteq shown'[r]
  PROVE  \A r \in SocketIds \ {s} : handlers'[r] = handlers[r] => Sending(r)' /\ OnItsWay(r)'
<1> SUFFICES ASSUME NEW r \in SocketIds \ {s}, handlers'[r] = handlers[r]
             PROVE  Sending(r)' /\ OnItsWay(r)'
  OBVIOUS
<1>1. Sending(r) /\ OnItsWay(r) /\ Connected' = Connected
  BY DEF ChatInv, Connected
<1>2. Recipient(r)' = Recipient(r)
  BY DEF Recipient, StageOf
<1>3. /\ Watching(Customer)' = Watching(Customer) /\ Watching(Recipient(r))' = Watching(Recipient(r))
      /\ \A u : Watching(u) \subseteq SocketIds
  BY <1>2 DEF Watching, ChatInv, LiveIsRegistered, Connected
<1>4. Sending(r)'
  BY <1>1 DEF Sending
<1> QED
  BY <1>1, <1>3, <1>4 DEF OnItsWay

LEMMA ReceiveMessageKeeps ==
  ASSUME ChatInv, NEW s \in SocketIds, NEW m \in Messages, ReceiveMessage(s, m)
  PROVE  ChatInv'
<1> DEFINE h == Beginning(1, m, assigned)
<1>1. /\ s \in Connected /\ handlers' = [handlers EXCEPT ![s] = h]
      /\ UNCHANGED <<assigned, chat, owner, registered, dead, caughtUp, shown, addressed>>
  BY DEF ReceiveMessage
<1>2. /\ h \in Handler
      /\ h.at = 1 /\ h.message = m /\ h.provider = assigned /\ ~h.copied /\ h.to = {} /\ h.broken = {}
  BY DEF ChatInv, ChatShape, Handler, Beginning
<1> HIDE DEF h
<1>3. /\ ChatShape' /\ LiveIsRegistered' /\ OnRecord' /\ Informed'
      /\ Connected' = Connected /\ \A u : Watching(u)' = Watching(u)
      /\ handlers'[s] = h
      /\ \A r \in SocketIds \ {s} : handlers'[r] = handlers[r]
  BY <1>1, <1>2 DEF ChatInv, ChatShape, LiveIsRegistered, OnRecord, Informed, Connected, Watching
<1>4. Sending(s)' /\ OnItsWay(s)'
  BY <1>1, <1>2, <1>3 DEF Sending, OnItsWay, ChatInv, ChatShape
<1>5. \A r \in SocketIds \ {s} : Sending(r)' /\ OnItsWay(r)'
  BY <1>1, <1>3, OthersGoOn DEF ChatInv
<1> QED
  BY <1>3, <1>4, <1>5 DEF ChatInv

\* The handler moves on to the next party, or is done.
LEMMA NextStageMoves ==
  ASSUME ChatInv, NEW s \in SocketIds, handlers[s].at > 0, NextStage(s)
  PROVE  /\ handlers' \in [SocketIds -> Handler]
         /\ \A r \in SocketIds \ {s} : handlers'[r] = handlers[r]
         /\ handlers[s].at = 3 =>
              /\ handlers'[s] = Receiving
              /\ addressed' = [addressed EXCEPT ![handlers[s].message] = {Customer, handlers[s].provider}]
         /\ handlers[s].at # 3 =>
              /\ handlers'[s].at = handlers[s].at + 1 /\ handlers'[s].message = handlers[s].message
              /\ handlers'[s].provider = handlers[s].provider
              /\ ~handlers'[s].copied /\ handlers'[s].to = {} /\ handlers'[s].broken = {}
              /\ addressed' = addressed
<1>1. handlers \in [SocketIds -> Handler] /\ handlers[s] \in Handler /\ Receiving \in Handler
  BY DEF ChatInv, ChatShape, Receiving, Beginning, Handler
<1>2. CASE handlers[s].at = 3
  BY <1>1, <1>2 DEF NextStage
<1>3. CASE handlers[s].at # 3
  <2> DEFINE h == Beginning(handlers[s].at + 1, handlers[s].message, handlers[s].provider)
  <2>1. handlers' = [handlers EXCEPT ![s] = h] /\ addressed' = addressed
    BY <1>3 DEF NextStage
  <2>2. /\ h.at = handlers[s].at + 1 /\ h.message = handlers[s].message
        /\ h.provider = handlers[s].provider /\ ~h.copied /\ h.to = {} /\ h.broken = {}
    BY DEF Beginning
  <2>3. h \in Handler
    BY <1>1, <1>3 DEF Handler, Beginning
  <2> HIDE DEF h
  <2> QED
    BY <1>1, <1>3, <2>1, <2>2, <2>3
<1> QED
  BY <1>2, <1>3

LEMMA StoreMessageKeeps ==
  ASSUME ChatInv, NEW s \in SocketIds, StoreMessage(s)
  PROVE  ChatInv'
<1> DEFINE m == handlers[s].message
<1>1. /\ chat' = chat \cup {m} /\ NextStage(s) /\ handlers[s].at > 0 /\ Stages[handlers[s].at] = "store"
      /\ UNCHANGED <<assigned, owner, registered, dead, caughtUp, shown>>
  BY DEF StoreMessage, StageOf, ChatInv, ChatShape, Handler, Sending
<1>2. /\ handlers[s].at = 1 /\ m \in Messages /\ handlers[s].provider \in Helpers /\ s \in Connected
  BY <1>1 DEF ChatInv, ChatShape, Handler, Stages, OnItsWay
<1>3. /\ handlers' \in [SocketIds -> Handler] /\ addressed' = addressed
      /\ \A r \in SocketIds \ {s} : handlers'[r] = handlers[r]
      /\ handlers'[s].at = 2 /\ handlers'[s].message = m /\ handlers'[s].provider = handlers[s].provider
      /\ ~handlers'[s].copied /\ handlers'[s].to = {} /\ handlers'[s].broken = {}
  BY <1>1, <1>2, NextStageMoves
<1> HIDE DEF m
<1>4. ChatShape' /\ LiveIsRegistered' /\ Connected' = Connected /\ \A u : Watching(u)' = Watching(u)
  BY <1>1, <1>2, <1>3 DEF ChatInv, ChatShape, LiveIsRegistered, Connected, Watching
<1>5. Sending(s)' /\ OnItsWay(s)'
  BY <1>1, <1>2, <1>3, <1>4 DEF Sending, OnItsWay
<1>6. \A r \in SocketIds \ {s} : Sending(r)' /\ OnItsWay(r)'
  BY <1>1, <1>3, OthersGoOn DEF ChatInv
<1>7. OnRecord' /\ Informed'
  BY <1>1, <1>3, <1>4 DEF ChatInv, OnRecord, Informed
<1> QED
  BY <1>4, <1>5, <1>6, <1>7 DEF ChatInv

\* Every live client of the party is in the copy.
LEMMA CopySocketsKeeps ==
  ASSUME ChatInv, NEW s \in SocketIds, CopySockets(s)
  PROVE  ChatInv'
<1> DEFINE to == {d \in registered : owner[d] = Recipient(s)}
           h == [handlers[s] EXCEPT !.copied = TRUE, !.to = to]
<1>1. /\ handlers' = [handlers EXCEPT ![s] = h] /\ handlers[s].at > 0 /\ Stages[handlers[s].at] # "store"
      /\ ~handlers[s].copied
      /\ UNCHANGED <<assigned, chat, owner, registered, dead, caughtUp, shown, addressed>>
  BY DEF CopySockets, StageOf, ChatInv, ChatShape, Handler, Sending
<1>2. handlers[s] \in Handler /\ handlers[s].at >= 2
  BY <1>1 DEF ChatInv, ChatShape, Handler, Stages
<1>3. to \subseteq Connected /\ Connected \subseteq SocketIds
  BY DEF ChatInv, LiveIsRegistered, Connected
<1>4. \A u : Watching(u) \subseteq registered
  BY DEF ChatInv, LiveIsRegistered, Watching
<1>5. Watching(Recipient(s)) \subseteq to
  BY <1>4 DEF Watching
<1> HIDE DEF to
<1>6. /\ h.at = handlers[s].at /\ h.message = handlers[s].message /\ h.provider = handlers[s].provider
      /\ h.copied /\ h.to = to /\ h.broken = handlers[s].broken
  BY <1>2 DEF Handler
<1>7. h \in Handler
  BY <1>2, <1>3 DEF Handler
<1> HIDE DEF h
<1>8. /\ ChatShape' /\ LiveIsRegistered' /\ OnRecord' /\ Informed'
      /\ Connected' = Connected /\ \A u : Watching(u)' = Watching(u)
      /\ handlers'[s] = h
      /\ \A r \in SocketIds \ {s} : handlers'[r] = handlers[r]
  BY <1>1, <1>7 DEF ChatInv, ChatShape, LiveIsRegistered, OnRecord, Informed, Connected, Watching
<1>9. Sending(s)'
  BY <1>1, <1>2, <1>3, <1>6, <1>8 DEF Sending, ChatInv
<1>10. OnItsWay(s)'
  <2>1. Recipient(s)' = Recipient(s)
    BY <1>6, <1>8 DEF Recipient, StageOf
  <2>2. Watching(Recipient(s))' \subseteq to
    BY <1>1, <1>5, <2>1 DEF Watching
  <2>3. OnItsWay(s)
    BY DEF ChatInv
  <2> QED
    BY <1>1, <1>6, <1>8, <2>2, <2>3 DEF OnItsWay
<1>11. \A r \in SocketIds \ {s} : Sending(r)' /\ OnItsWay(r)'
  BY <1>1, <1>8, OthersGoOn DEF ChatInv
<1> QED
  BY <1>8, <1>9, <1>10, <1>11 DEF ChatInv

\* A socket that leaves the copy shows the message, or was dead.
LEMMA SendCopyKeeps ==
  ASSUME ChatInv, NEW s \in SocketIds, NEW d \in SocketIds, SendCopy(s, d)
  PROVE  ChatInv'
<1> DEFINE m == handlers[s].message
           h == [handlers[s] EXCEPT !.to = @ \ {d}, !.broken = @ \cup ({d} \cap dead)]
<1>1. /\ d \in handlers[s].to /\ handlers' = [handlers EXCEPT ![s] = h]
      /\ shown' = IF d \in dead THEN shown ELSE [shown EXCEPT ![d] = @ \cup {m}]
      /\ UNCHANGED <<assigned, chat, owner, registered, dead, caughtUp, addressed>>
  BY DEF SendCopy
<1>2. /\ handlers[s] \in Handler /\ handlers[s].copied /\ handlers[s].at >= 2 /\ handlers[s].at > 0
      /\ handlers[s].to \cup handlers[s].broken \subseteq Connected /\ handlers[s].broken \subseteq dead
      /\ Connected \subseteq SocketIds
  <2>1. handlers[s] \in Handler /\ Sending(s) /\ Connected \subseteq SocketIds
    BY DEF ChatInv, ChatShape, Connected
  <2>2. handlers[s].at \in 0..3
    BY <2>1 DEF Handler
  <2> QED
    BY <1>1, <2>1, <2>2 DEF Sending
<1>3. OnItsWay(s) /\ m \in Messages /\ m \in chat
  BY <1>2 DEF ChatInv, OnItsWay
<1>4. /\ h.at = handlers[s].at /\ h.message = m /\ h.provider = handlers[s].provider
      /\ h.copied /\ h.to = handlers[s].to \ {d} /\ h.broken = handlers[s].broken \cup ({d} \cap dead)
  BY <1>2 DEF Handler
<1>5. h \in Handler
  BY <1>2 DEF Handler
<1> HIDE DEF h, m
<1>6. /\ shown' \in [SocketIds -> SUBSET Messages]
      /\ \A r \in SocketIds : shown[r] \subseteq shown'[r] /\ shown'[r] \subseteq shown[r] \cup {m}
      /\ d \notin dead => m \in shown'[d]
  BY <1>1, <1>3 DEF ChatInv, ChatShape
<1>7. /\ ChatShape' /\ LiveIsRegistered' /\ Connected' = Connected /\ \A u : Watching(u)' = Watching(u)
      /\ handlers'[s] = h /\ \A r \in SocketIds \ {s} : handlers'[r] = handlers[r]
      /\ \A u : Watching(u) \subseteq SocketIds \ dead
  BY <1>1, <1>5, <1>6 DEF ChatInv, ChatShape, LiveIsRegistered, Connected, Watching
<1>8. OnRecord' /\ Informed'
  BY <1>1, <1>3, <1>6, <1>7 DEF ChatInv, OnRecord, Informed
<1>9. Sending(s)'
  BY <1>1, <1>2, <1>4, <1>7 DEF Sending
<1>10. OnItsWay(s)'
  <2>1. Recipient(s)' = Recipient(s)
    BY <1>4, <1>7 DEF Recipient, StageOf
  <2>2. ASSUME NEW r \in Watching(Recipient(s))'
        PROVE  m \in shown'[r] \/ r \in handlers[s].to \ {d}
    <3>1. r \in Watching(Recipient(s)) /\ r \in SocketIds \ dead
      BY <1>1, <1>7, <2>1, <2>2 DEF Watching
    <3>2. m \in shown[r] \/ r \in handlers[s].to
      BY <1>2, <1>3, <3>1 DEF OnItsWay, m
    <3> QED
      BY <1>6, <3>1, <3>2
  <2>3. handlers[s].at = 3 => \A r \in Watching(Customer)' : m \in shown'[r]
    BY <1>2, <1>3, <1>6, <1>7 DEF OnItsWay, m
  <2> QED
    BY <1>1, <1>2, <1>3, <1>4, <1>7, <2>2, <2>3 DEF OnItsWay
<1>11. \A r \in SocketIds \ {s} : Sending(r)' /\ OnItsWay(r)'
  BY <1>1, <1>6, <1>7, OthersGoOn DEF ChatInv
<1> QED
  BY <1>7, <1>8, <1>9, <1>10, <1>11 DEF ChatInv

\* With the copy used up all of the party's clients show the message.
LEMMA RemoveBrokenKeeps ==
  ASSUME ChatInv, NEW s \in SocketIds, RemoveBroken(s)
  PROVE  ChatInv'
<1> DEFINE m == handlers[s].message
           k == handlers[s].at
           p == handlers[s].provider
<1>1. /\ handlers[s].copied /\ handlers[s].to = {} /\ registered' = registered \ handlers[s].broken
      /\ NextStage(s) /\ UNCHANGED <<assigned, chat, owner, dead, caughtUp, shown>>
  BY DEF RemoveBroken
<1>2. k \in {2, 3} /\ k > 0 /\ handlers[s].broken \subseteq dead
  BY <1>1 DEF ChatInv, ChatShape, Handler, Sending
<1>3. /\ OnItsWay(s) /\ m \in Messages /\ m \in chat /\ p \in Helpers /\ s \in Connected
      /\ k = 2 => Recipient(s) = Customer
      /\ k = 3 => Recipient(s) = p
  BY <1>2, RecipientTalks DEF ChatInv, OnItsWay
<1>4. /\ k = 2 => \A r \in Watching(Customer) : m \in shown[r]
      /\ k = 3 => \A r \in Watching(p) \cup Watching(Customer) : m \in shown[r]
  BY <1>1, <1>2, <1>3 DEF OnItsWay
<1>5. /\ handlers' \in [SocketIds -> Handler]
      /\ \A r \in SocketIds \ {s} : handlers'[r] = handlers[r]
      /\ k = 3 => handlers'[s] = Receiving /\ addressed' = [addressed EXCEPT ![m] = {Customer, p}]
      /\ k = 2 => /\ handlers'[s].at = 3 /\ handlers'[s].message = m /\ handlers'[s].provider = p
                  /\ ~handlers'[s].copied /\ handlers'[s].to = {} /\ handlers'[s].broken = {}
                  /\ addressed' = addressed
  BY <1>1, <1>2, NextStageMoves
<1> HIDE DEF m, k, p
<1>6. /\ addressed' \in [Messages -> SUBSET Talkers]
      /\ \A x \in Messages : \/ addressed'[x] = addressed[x]
                             \/ k = 3 /\ x = m /\ addressed'[x] = {Customer, p}
  BY <1>2, <1>3, <1>5 DEF ChatInv, ChatShape, Talkers
<1>7. ChatShape' /\ LiveIsRegistered' /\ Connected' = Connected /\ \A u : Watching(u)' = Watching(u)
  BY <1>1, <1>2, <1>5, <1>6 DEF ChatInv, ChatShape, LiveIsRegistered, Connected, Watching
<1>8. OnRecord' /\ Informed'
  BY <1>1, <1>3, <1>4, <1>6, <1>7 DEF ChatInv, OnRecord, Informed
<1>9. Sending(s)' /\ OnItsWay(s)'
  <2>1. CASE k = 2
    BY <1>1, <1>3, <1>4, <1>5, <1>7, <2>1 DEF Sending, OnItsWay
  <2>2. CASE k = 3
    BY <1>5, <2>2 DEF Sending, OnItsWay, Receiving, Beginning
  <2> QED
    BY <1>2, <2>1, <2>2
<1>10. \A r \in SocketIds \ {s} : Sending(r)' /\ OnItsWay(r)'
  BY <1>1, <1>5, OthersGoOn DEF ChatInv
<1> QED
  BY <1>7, <1>8, <1>9, <1>10 DEF ChatInv

\* The inductive invariant: ChatAgrees speaks only of messages that are through, so
\* it takes that one whose handler has reached the provider is on record and shown
\* to the customer, that between the copy and the last send nobody falls between
\* those who show it and those still to be sent to, and that the map misses no live
\* socket.
THEOREM ChatInvariance == ChatSpec => []ChatInv
<1>1. ChatInit => ChatInv
  BY DEF ChatInit, ChatInv, ChatShape, LiveIsRegistered, Connected, Sending, OnItsWay, OnRecord, Informed,
         Watching, Receiving, Beginning, Handler
<1>2. ChatInv /\ [ChatNext]_chatVars => ChatInv'
  <2> SUFFICES ASSUME ChatInv, [ChatNext]_chatVars
               PROVE  ChatInv'
    OBVIOUS
  <2>1. CASE Reassign \/ UNCHANGED chatVars
    <3>1. /\ UNCHANGED <<chat, owner, registered, dead, handlers, caughtUp, shown, addressed>>
          /\ assigned' \in Helpers
      BY <2>1 DEF Reassign, chatVars, ChatInv, ChatShape
    <3>2. /\ ChatShape' /\ LiveIsRegistered' /\ Connected' = Connected
          /\ \A u \in Talkers : \A s \in Watching(u)' : s \in Watching(u) /\ shown'[s] = shown[s]
      BY <3>1 DEF ChatInv, ChatShape, LiveIsRegistered, Connected, Watching
    <3> QED
      BY <3>1, <3>2, HandlersStay, QuietStepKeeps DEF ChatInv, OnRecord
  <2>2. ASSUME ServerRestarts \/ \E s \in SocketIds : Disconnect(s)
        PROVE  ChatInv'
    <3>1. \E S \in SUBSET SocketIds : Closed(S)
      BY <2>2 DEF ServerRestarts, Disconnect
    <3> QED
      BY <3>1, ClosedKeeps
  <2> QED
    BY <2>1, <2>2, ConnectionsKeep, FetchHistoryKeeps, ReceiveMessageKeeps, StoreMessageKeeps, CopySocketsKeeps,
       SendCopyKeeps, RemoveBrokenKeeps DEF ChatNext
<1> QED
  BY <1>1, <1>2, PTL DEF ChatSpec

\* The sockets, their handlers and the record keep their types.
THEOREM ChatTyped == ChatSpec => []ChatTypeOK
<1>1. ChatInv => ChatTypeOK
  <2> SUFFICES ASSUME ChatInv
               PROVE  ChatTypeOK
    OBVIOUS
  <2>1. ASSUME NEW s \in SocketIds
        PROVE  /\ handlers[s].at \in 0..3 /\ (handlers[s].at > 0 => s \in Connected)
               /\ handlers[s].to \cup handlers[s].broken \subseteq Connected
               /\ shown[s] \subseteq Messages
    BY DEF ChatInv, ChatShape, Handler, Sending, OnItsWay
  <2> QED
    BY <2>1 DEF ChatInv, ChatShape, LiveIsRegistered, ChatTypeOK
<1> QED
  BY <1>1, ChatInvariance, PTL

\* For any number of sockets, messages and helpers: a client that has fetched the
\* history misses nothing that was for its user, and sees nothing off the record,
\* whoever came, went or died between the copy of the sockets and the last send.
THEOREM HistoryAndSocketsAgree == ChatSpec => []ChatAgrees
<1> QED
  BY ChatInvariance, ChatInvAgrees, PTL

------------------------------------------------------------------------------
(* Matching.                                                               *)

\* Sorting a set of rows leaves nobody out and takes nobody twice.
LEMMA RankedHasAll ==
  ASSUME NEW trade, NEW S, IsFiniteSet(S), NEW s \in Ranked(trade, S)
  PROVE  /\ s \in Seq(S) /\ Len(s) = Cardinality(S) /\ Cardinality(S) \in Nat
         /\ Range(s) = S
         /\ BestFirst(trade, s)
<1> DEFINE D == 1..Cardinality(S)
<1>1. Cardinality(S) \in Nat
  BY FS_CardinalityType
<1>2. /\ s \in [D -> S] /\ \A i, j \in D : i # j => s[i] # s[j]
      /\ BestFirst(trade, s)
  BY DEF Ranked, SetToSeqs
<1>3. IsFiniteSet(D) /\ Cardinality(D) = Cardinality(S)
  BY <1>1, FS_Interval
<1>4. s \in Injection(D, S)
  BY <1>2 DEF Injection, IsInjective
<1>5. s \in Surjection(D, S)
  BY <1>3, <1>4, FS_Injection
<1>6. Range(s) = S
  BY <1>2, <1>5 DEF Range, Surjection
<1> QED
  BY <1>1, <1>2, <1>6

\* The first of a ranking are ranked.
LEMMA FirstOfRanked ==
  ASSUME NEW trade, NEW S, NEW s \in Seq(S), BestFirst(trade, s), NEW n \in 0..Len(s)
  PROVE  LET first == SubSeq(s, 1, n) IN
         /\ first \in Seq(S) /\ Len(first) = n
         /\ BestFirst(trade, first)
<1>1. /\ SubSeq(s, 1, n) \in Seq(S) /\ Len(SubSeq(s, 1, n)) = n
      /\ \A i \in 1..n : SubSeq(s, 1, n)[i] = s[i]
  OBVIOUS
<1>2. DOMAIN SubSeq(s, 1, n) = 1..n /\ 1..n \subseteq DOMAIN s
  BY <1>1
<1> QED
  BY <1>1, <1>2 DEF BestFirst

\* The gates, the filter and the radius say what Suits says of a row.
LEMMA SuitsIsGated ==
  ASSUME NEW trade \in {"mechanic", "garage"}, NEW tag, table' = table, table \in [DOMAIN table -> Candidates],
         search'.kind = trade, search'.tag = tag, NEW i \in DOMAIN table
  PROVE  Suits(i)' <=> Open(trade, i) /\ Skilled(tag, i) /\ InReach(i)
<1> DEFINE needed == {ISSUE_TO_EXPERTISE[t] : t \in DOMAIN ISSUE_TO_EXPERTISE \cap {tag}} \cup (Expertises \cap {tag})
<1>1. \A t \in DOMAIN ISSUE_TO_EXPERTISE : ISSUE_TO_EXPERTISE[t] \in Expertises \cup {None}
  BY DEF Expertises
<1>2. \A t \in DOMAIN ISSUE_TO_EXPERTISE \cap Expertises : ISSUE_TO_EXPERTISE[t] = t
  BY DEF Expertises, ISSUE_TO_EXPERTISE
<1>3. needed \ {None} = {Resolve(tag)} \ {None}
  <2>1. CASE tag \in DOMAIN ISSUE_TO_EXPERTISE
    BY <1>2, <2>1 DEF Resolve
  <2>2. CASE tag \notin DOMAIN ISSUE_TO_EXPERTISE
    BY <2>2 DEF Resolve
  <2> QED
    BY <2>1, <2>2
<1>4. needed \ {None} \subseteq table[i].skills <=> Skilled(tag, i)
  BY <1>3 DEF Skilled
<1> HIDE DEF needed
<1>5. Suits(i)' <=> /\ table[i].verified /\ table[i].is_active /\ ~table[i].penalized
                    /\ table[i].available \/ trade = "garage"
                    /\ table[i].distance <= SearchRadius
                    /\ needed \ {None} \subseteq table[i].skills
  BY DEF Suits, needed
<1> QED
  BY <1>4, <1>5 DEF Open, InReach

\* An answer is rows of the table, and no more of them than were asked for.
AnswerTyped ==
  /\ database \in Databases
  /\ search.step \in {"none", "failed", "answered", "error"}
  /\ Range(found) \subseteq DOMAIN table
  /\ Len(found) \in Nat /\ search.limit \in Nat /\ Len(found) <= search.limit

\* What a search may look at, and what its answer says.
SearchInv ==
  /\ \E n \in 0..MaxTable : table \in [1..n -> Candidates]
  /\ search.step # "none" => search.kind \in {"mechanic", "garage"} /\ search.limit \in Nat \ {0}
  /\ DOMAIN search = {"step", "kind", "tag", "limit"}
  /\ search.step = "failed" => database # "postgis"
  /\ AnswerTyped
  /\ SearchComplete

\* PostGIS: the nearest of the rows are all of them when there are fewer than asked for.
LEMMA PostgisAnswers ==
  ASSUME SearchInv, NEW trade \in {"mechanic", "garage"}, NEW tag, NEW limit \in Nat \ {0},
         PostgisFetch(trade, tag, limit)
  PROVE  SearchInv'
<1> DEFINE rows == {i \in DOMAIN table : Open(trade, i) /\ Skilled(tag, i) /\ InReach(i)}
<1>1. PICK n \in 0..MaxTable : n \in Nat /\ table \in [1..n -> Candidates]
  BY MatchingAssumption DEF SearchInv
<1>2. /\ UNCHANGED <<database, table>>
      /\ DOMAIN search' = {"step", "kind", "tag", "limit"}
      /\ search'.kind = trade /\ search'.tag = tag /\ search'.limit = limit
      /\ search'.step # "none"
  BY DEF PostgisFetch
<1>3. \A i \in DOMAIN table : Suits(i)' <=> i \in rows
  BY <1>1, <1>2, SuitsIsGated
<1>4. IsFiniteSet(rows) /\ rows \subseteq DOMAIN table
  BY <1>1, FS_Interval, FS_Subset
<1>5. search'.step = "answered" =>
        \E T \in Nearest(rows, limit) : found' \in Ranked(trade, T)
  BY DEF PostgisFetch
<1>6. search'.step = "failed" => database # "postgis"
  BY DEF PostgisFetch
<1> HIDE DEF rows
<1>7. ASSUME search'.step = "answered"
      PROVE  SearchComplete'
  <2>1. PICK T \in Nearest(rows, limit) : found' \in Ranked(trade, T)
    BY <1>5, <1>7
  <2>2. T \subseteq rows /\ Cardinality(T) = IF Cardinality(rows) < limit THEN Cardinality(rows) ELSE limit
    BY <2>1 DEF Nearest
  <2>3. IsFiniteSet(T) /\ (Cardinality(T) = Cardinality(rows) => T = rows)
    BY <1>4, <2>2, FS_Subset
  <2>4. /\ Len(found') = Cardinality(T) /\ Range(found') = T
        /\ BestFirst(trade, found')
    BY <2>1, <2>3, RankedHasAll
  <2>5. \A k \in DOMAIN found' : found'[k] \in rows
    BY <2>2, <2>4 DEF Range
  <2>6. Cardinality(rows) \in Nat
    BY <1>4, FS_CardinalityType
  <2>7. Len(found') < limit => Range(found') = rows
    BY <2>2, <2>3, <2>4, <2>6
  <2>8. BestFirst(trade, found)'
    BY <1>2, <2>4 DEF BestFirst, Score
  <2>9. rows = {i \in DOMAIN table : Suits(i)'}
    BY <1>3, <1>4
  <2> QED
    BY <1>2, <1>3, <1>4, <2>5, <2>7, <2>8, <2>9 DEF SearchComplete, BestFirst, Score
<1>8. search'.step # "answered" => SearchComplete'
  BY DEF SearchComplete
<1>9. AnswerTyped'
  <2>1. search = Unsearched /\ search.limit = 1 /\ search'.step \in {"answered", "failed"}
    BY DEF PostgisFetch, Unsearched
  <2>2. CASE search'.step = "answered"
    <3>1. PICK T \in Nearest(rows, limit) : found' \in Ranked(trade, T)
      BY <1>5, <2>2
    <3>2. T \subseteq rows /\ Cardinality(T) = IF Cardinality(rows) < limit THEN Cardinality(rows) ELSE limit
      BY <3>1 DEF Nearest
    <3>3. IsFiniteSet(T) /\ Cardinality(rows) \in Nat
      BY <1>4, <3>2, FS_Subset, FS_CardinalityType
    <3>4. Len(found') = Cardinality(T) /\ Range(found') = T
      BY <3>1, <3>3, RankedHasAll
    <3> QED
      BY <1>2, <1>4, <2>1, <3>2, <3>3, <3>4 DEF SearchInv, AnswerTyped
  <2>3. CASE search'.step = "failed"
    <3>1. found' = found
      BY <2>3 DEF PostgisFetch
    <3> QED
      BY <1>2, <2>1, <3>1 DEF SearchInv, AnswerTyped
  <2> QED
    BY <2>1, <2>2, <2>3
<1> QED
  BY <1>1, <1>2, <1>6, <1>7, <1>8, <1>9 DEF SearchInv

\* A table within the LIMIT of the fallback is looked at as a whole.
LEMMA OldestAreAll ==
  ASSUME NEW n \in Nat, table \in [1..n -> Candidates], n <= MaxFallbackRows, NEW S \in SUBSET DOMAIN table
  PROVE  Oldest(S) = S
<1> SUFFICES ASSUME NEW i \in S
             PROVE  Cardinality({j \in S : j < i}) < MaxFallbackRows
  BY DEF Oldest
<1>1. i \in 1..n /\ {j \in S : j < i} \in SUBSET (1..(i - 1))
  <2>1. DOMAIN table = 1..n
    OBVIOUS
  <2>2. S \subseteq 1..n
    BY <2>1
  <2>3. \A j \in S : j < i => j \in 1..(i - 1)
    BY <2>2
  <2> QED
    BY <2>2, <2>3, Zenon
<1>2. IsFiniteSet(1..(i - 1)) /\ Cardinality(1..(i - 1)) = i - 1
  BY <1>1, FS_Interval
<1>3. /\ Cardinality({j \in S : j < i}) <= i - 1 /\ Cardinality({j \in S : j < i}) \in Nat
  BY <1>1, <1>2, FS_Subset, FS_CardinalityType
<1> QED
  BY <1>1, <1>3, MatchingAssumption

\* The fallback: an answer that is not cut by its limit is the whole ranking.
LEMMA FallbackAnswers ==
  ASSUME SearchInv, Fallback
  PROVE  SearchInv'
<1> PICK trade \in {"mechanic", "garage"}, limit \in Nat \ {0} : trade = search.kind /\ limit = search.limit
  BY DEF SearchInv, Fallback
<1> PICK tag : tag = search.tag
  OBVIOUS
<1> DEFINE opened == {j \in DOMAIN table : Open(trade, j)}
           rows == {i \in Oldest(opened) : Skilled(tag, i)}
           near == {i \in rows : InReach(i)}
           fit == {i \in DOMAIN table : Open(trade, i) /\ Skilled(tag, i) /\ InReach(i)}
<1>1. PICK n \in 0..MaxTable : n \in Nat /\ table \in [1..n -> Candidates]
  BY MatchingAssumption DEF SearchInv
<1>2. /\ UNCHANGED <<database, table>> /\ database = "sqlite"
      /\ search' = [search EXCEPT !.step = "answered"] /\ search.step = "failed"
  BY DEF Fallback
<1>3. /\ DOMAIN search' = {"step", "kind", "tag", "limit"} /\ search'.step = "answered"
      /\ search'.kind = trade /\ search'.tag = tag /\ search'.limit = limit
  BY <1>2 DEF SearchInv
<1>4. PICK s \in Ranked(trade, near) :
        found' = SubSeq(s, 1, IF Len(s) < limit THEN Len(s) ELSE limit)
  BY DEF Fallback, FallbackRows, InRadius
<1>5. \A i \in DOMAIN table : Suits(i)' <=> i \in fit
  BY <1>1, <1>2, <1>3, SuitsIsGated
<1>6. near \subseteq fit /\ fit \subseteq 1..n
  BY <1>1 DEF Oldest
<1>7. n <= MaxFallbackRows => near = fit
  <2>1. n <= MaxFallbackRows => Oldest(opened) = opened
    BY <1>1, OldestAreAll
  <2> QED
    BY <2>1
<1> HIDE DEF near, fit
<1>8. IsFiniteSet(near)
  <2>1. near \in SUBSET (1..n)
    BY <1>6, Zenon
  <2>2. IsFiniteSet(1..n)
    BY FS_Interval
  <2> QED
    BY <2>1, <2>2, FS_Subset
<1>9. /\ s \in Seq(near) /\ Len(s) = Cardinality(near) /\ Cardinality(near) \in Nat
      /\ Range(s) = near /\ BestFirst(trade, s)
  BY <1>8, RankedHasAll
<1> DEFINE m == IF Len(s) < limit THEN Len(s) ELSE limit
<1>10. m \in 0..Len(s)
  BY <1>3, <1>9
<1>11. found' = SubSeq(s, 1, m)
  BY <1>4
<1> HIDE DEF m
<1>12. found' \in Seq(near) /\ Len(found') = m /\ BestFirst(trade, found')
  BY <1>9, <1>10, <1>11, FirstOfRanked
<1>13. Len(found') < limit => Range(found') = near
  <2>1. Len(found') < limit => m = Len(s)
    BY <1>3, <1>9, <1>12 DEF m
  <2>2. m = Len(s) => found' = s
    BY <1>9, <1>11
  <2> QED
    BY <1>9, <2>1, <2>2
<1>14. \A k \in DOMAIN found' : found'[k] \in near
  BY <1>12
<1>15. BestFirst(trade, found)'
  BY <1>2, <1>12 DEF BestFirst, Score
<1>16. Len(table) = n
  BY <1>1
<1>17. fit = {i \in DOMAIN table : Suits(i)'}
  BY <1>1, <1>5, <1>6
<1>18. SearchComplete'
  BY <1>1, <1>2, <1>3, <1>5, <1>6, <1>7, <1>13, <1>14, <1>15, <1>16, <1>17 DEF SearchComplete, BestFirst, Score
<1>19. AnswerTyped'
  <2>1. Range(found') \subseteq DOMAIN table
    BY <1>1, <1>6, <1>14 DEF Range
  <2>2. Len(found') \in Nat /\ Len(found') <= limit
    BY <1>9, <1>12 DEF m
  <2> QED
    BY <1>2, <1>3, <2>1, <2>2 DEF SearchInv, AnswerTyped
<1> QED
  BY <1>1, <1>2, <1>3, <1>18, <1>19 DEF SearchInv

\* The inductive invariant holds from the start on.
THEOREM SearchInvariance == MatchingSpec => []SearchInv
<1>1. MatchingInit => SearchInv
  <2> SUFFICES ASSUME MatchingInit
               PROVE  SearchInv
    OBVIOUS
  <2>1. PICK n \in 0..MaxTable : table \in [1..n -> Candidates]
    BY DEF MatchingInit
  <2>2. Range(found) = {} /\ Len(found) = 0
    BY DEF MatchingInit, Range
  <2>3. search.step = "none" /\ search.limit = 1 /\ DOMAIN search = {"step", "kind", "tag", "limit"}
    BY DEF MatchingInit, Unsearched
  <2> QED
    BY <2>1, <2>2, <2>3 DEF MatchingInit, AnswerTyped, SearchInv, SearchComplete
<1>2. SearchInv /\ [MatchingNext]_matchingVars => SearchInv'
  <2> SUFFICES ASSUME SearchInv, [MatchingNext]_matchingVars
               PROVE  SearchInv'
    OBVIOUS
  <2>1. ASSUME NEW trade \in {"mechanic", "garage"}, NEW tag \in Tags, NEW limit \in Limits,
               PostgisFetch(trade, tag, limit)
        PROVE  SearchInv'
    BY <2>1, PostgisAnswers, MatchingAssumption
  <2>2. CASE FallbackFails
    BY <2>2 DEF FallbackFails, SearchInv, AnswerTyped, SearchComplete
  <2>3. CASE UNCHANGED matchingVars
    BY <2>3 DEF matchingVars, SearchInv, AnswerTyped, SearchComplete, Suits, BestFirst, Score
  <2> QED
    BY <2>1, <2>2, <2>3, FallbackAnswers DEF MatchingNext
<1> QED
  BY <1>1, <1>2, PTL DEF MatchingSpec

\* Both paths of a search, for any table of providers: nobody unfit, the best first,
\* and nobody missing from an answer shorter than its limit.
THEOREM SearchFindsAll == MatchingSpec => []SearchComplete
<1>1. SearchInv => SearchComplete
  BY DEF SearchInv
<1> QED
  BY <1>1, SearchInvariance, PTL

\* A search answers with rows of its table, and with no more than were asked for.
THEOREM MatchingTyped == MatchingSpec => []MatchingTypeOK
<1>1. SearchInv => MatchingTypeOK
  BY DEF SearchInv, AnswerTyped, MatchingTypeOK
<1> QED
  BY <1>1, SearchInvariance, PTL

------------------------------------------------------------------------------
(* The services together.                                                  *)

\* A behaviour of the services together is a behaviour of each of them, so that the
\* theorems about the components hold in the composed model.
THEOREM PartsOfTheServices ==
  MCSpec => /\ ProvidersSpec /\ ReviewsSpec /\ MatchingSpec /\ AccountsSpec /\ SessionsSpec /\ ResetSpec
            /\ ChatSpec /\ RecordsSpec /\ DeviceTokensSpec /\ DisputesSpec /\ LoginsSpec
            /\ ListingsSpec /\ CartSpec /\ FitmentsSpec
<1>1. MCInit => /\ ProvidersInit /\ ReviewsInit /\ MatchingInit /\ AccountsInit /\ SessionsInit /\ ResetInit
                /\ ChatInit /\ RecordsInit /\ DeviceTokensInit /\ DisputesInit /\ LoginsInit
                /\ ListingsInit /\ CartInit /\ FitmentsInit
  BY DEF MCInit
<1>2. [MCNext]_<<part, providersVars, reviewsVars, matchingVars, accountsVars, sessionsVars, resetVars,
                 chatVars, recordsVars, deviceTokensVars, disputesVars, loginsVars,
                 listingsVars, cartVars, fitmentsVars>> =>
        /\ [ProvidersNext]_providersVars /\ [ReviewsNext]_reviewsVars /\ [MatchingNext]_matchingVars
        /\ [AccountsNext]_accountsVars /\ [SessionsNext]_sessionsVars /\ [ResetNext]_resetVars
        /\ [ChatNext]_chatVars /\ [RecordsNext]_recordsVars /\ [DeviceTokensNext]_deviceTokensVars
        /\ [DisputesNext]_disputesVars /\ [LoginsNext]_loginsVars /\ [ListingsNext]_listingsVars
        /\ [CartNext]_cartVars /\ [FitmentsNext]_fitmentsVars
  BY DEF MCNext
<1> QED
  BY <1>1, <1>2, PTL
  DEF MCSpec, ProvidersSpec, ReviewsSpec, MatchingSpec, AccountsSpec, SessionsSpec, ResetSpec,
      ChatSpec, RecordsSpec, DeviceTokensSpec, DisputesSpec, LoginsSpec, ListingsSpec, CartSpec,
      FitmentsSpec

\* The types of all services, for any number of rows, users, sockets and requests.
THEOREM ServicesTyped == MCSpec => []ServicesTypeOK
<1>1. /\ ProvidersTypeOK /\ ReviewsTypeOK /\ MatchingTypeOK /\ AccountsTypeOK /\ SessionsTypeOK
      /\ ResetTypeOK /\ ChatTypeOK /\ RecordsTypeOK /\ DeviceTokensTypeOK /\ DisputesTypeOK /\ LoginsTypeOK
      /\ ListingsTypeOK /\ CartTypeOK /\ FitmentsTypeOK
      => ServicesTypeOK
  BY DEF ServicesTypeOK
<1> QED
  BY <1>1, PartsOfTheServices, ProvidersTyped, ReviewsTyped, MatchingTyped, AccountsTyped,
     SessionsTypeCorrect, ResetTyped, ChatTyped, RecordsTyped, DeviceTokensTyped, DisputesTyped,
     LoginsTypeCorrect, ListingsTyped, CartTyped, FitmentsTyped, PTL

=============================================================================
