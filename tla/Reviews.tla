------------------------------ MODULE Reviews ------------------------------
(***************************************************************************)
(* Reviews of finished jobs and the rating they give the provider          *)
(* (backend/app/api/v1/reviews.py), and what the deletion of a job         *)
(* (job_service.delete_job) does to them.  The rating column holds an      *)
(* average; here it is the set of reviews the average is of.               *)
(***************************************************************************)
EXTENDS FiniteSets, Orm

CONSTANTS
  ReviewJobs,     \* completed jobs of the customers of one provider
  ReviewIds,      \* the UUIDs reviews can get
  ReviewCalls     \* requests that can be in flight

\* reviews.job_id is NOT NULL.
ASSUME ReviewsAssumption == None \notin ReviewJobs

VARIABLES
  reviews,      \* reviews: the job each row is about, or was; None where there was none
  deletedJobs,
  rating,       \* the reviews mechanics.rating, or garages.rating, is the average of
  withdrawn,    \* reviews that have gone with their job since the last average
  reviewCalls,  \* requests between their steps
  overtaken     \* a review has committed since that overlapped with another

reviewsVars == <<reviews, deletedJobs, rating, withdrawn, reviewCalls, overtaken>>

UsedReviews == {i \in ReviewIds : reviews[i] # None}
Stored == {i \in UsedReviews : reviews[i] \notin deletedJobs}
NoReview == [step |-> "idle", job |-> None, averaged |-> {}, id |-> None, alone |-> TRUE]

ReviewsTypeOK ==
  /\ reviews \in [ReviewIds -> ReviewJobs \cup {None}]
  /\ deletedJobs \subseteq ReviewJobs
  /\ rating \cup withdrawn \subseteq UsedReviews
  /\ \A c \in ReviewCalls : reviewCalls[c].step \in {"idle", "checked", "averaged"}
  /\ overtaken \in BOOLEAN

ReviewsInit ==
  /\ reviews = [i \in ReviewIds |-> None]
  /\ deletedJobs = {} /\ rating = {} /\ withdrawn = {}
  /\ reviewCalls = [c \in ReviewCalls |-> NoReview]
  /\ overtaken = FALSE

\* create_review finds no review of the job by its customer.
CheckReview(c, j) ==
  LET alone == \A d \in ReviewCalls : reviewCalls[d] = NoReview IN
  /\ reviewCalls[c] = NoReview
  /\ j \notin deletedJobs /\ \A i \in ReviewIds : reviews[i] # j
  /\ reviewCalls' = [d \in ReviewCalls |->
       IF d = c THEN [NoReview EXCEPT !.step = "checked", !.job = j, !.alone = alone]
       ELSE [reviewCalls[d] EXCEPT !.alone = @ /\ reviewCalls[d] = NoReview]]
  /\ UNCHANGED <<reviews, deletedJobs, rating, withdrawn, overtaken>>

\* Defect variant: the new review is not flushed before the average is taken.
Averaged_Unflushed(i) == Stored

\* What the SELECT avg(...) sees: the committed rows, and the one flushed before.
Averaged(i) == Stored \cup {i}

\* The insert and the average, in the request's own transaction; a review needs
\* its job.
AverageReviews(c, i) ==
  /\ reviewCalls[c].step = "checked" /\ reviewCalls[c].job \notin deletedJobs
  /\ i \notin UsedReviews /\ \A d \in ReviewCalls : reviewCalls[d].id # i
  /\ reviewCalls' = [reviewCalls EXCEPT ![c].step = "averaged", ![c].averaged = Averaged(i), ![c].id = i]
  /\ UNCHANGED <<reviews, deletedJobs, rating, withdrawn, overtaken>>

CommitReview(c) ==
  LET call == reviewCalls[c] IN
  /\ call.step = "averaged"
  /\ reviews' = [reviews EXCEPT ![call.id] = call.job]
  /\ rating' = call.averaged /\ withdrawn' = {}
  /\ overtaken' = ~call.alone
  /\ reviewCalls' = [reviewCalls EXCEPT ![c] = NoReview]
  /\ UNCHANGED deletedJobs

\* delete_job deletes the job's reviews too, and computes no rating.  It waits for
\* an insert that refers to the job.  An average on its way may have counted them.
DeleteJob(j) ==
  LET gone == {i \in Stored : reviews[i] = j} IN
  /\ j \notin deletedJobs
  /\ \A c \in ReviewCalls : reviewCalls[c].step = "averaged" => reviewCalls[c].job # j
  /\ deletedJobs' = deletedJobs \cup {j}
  /\ withdrawn' = withdrawn \cup gone
  /\ reviewCalls' = [c \in ReviewCalls |->
       [reviewCalls[c] EXCEPT !.alone = @ /\ reviewCalls[c].averaged \cap gone = {}]]
  /\ UNCHANGED <<reviews, rating, overtaken>>

ReviewFails(c) ==
  /\ reviewCalls[c] # NoReview
  /\ reviewCalls' = [reviewCalls EXCEPT ![c] = NoReview]
  /\ UNCHANGED <<reviews, deletedJobs, rating, withdrawn, overtaken>>

ReviewsNext ==
  \/ \E c \in ReviewCalls :
       \/ \E j \in ReviewJobs : CheckReview(c, j)
       \/ \E i \in ReviewIds : AverageReviews(c, i)
       \/ CommitReview(c)
       \/ ReviewFails(c)
  \/ \E j \in ReviewJobs : DeleteJob(j)

ReviewsSpec == ReviewsInit /\ [][ReviewsNext]_reviewsVars

\* The rating is the average of all reviews, and of those besides whose job has
\* been deleted since it was computed ("real avg from reviews" is what the column
\* is meant to be), unless the last review ran together with another (each
\* averages without the other's, and the later commit wins) or with the deletion
\* of a review; the next review that runs alone makes it right again.
RatingExact == overtaken \/ rating = Stored \cup withdrawn

=============================================================================
