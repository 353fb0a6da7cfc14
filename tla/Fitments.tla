------------------------------ MODULE Fitments ------------------------------
(***************************************************************************)
(* GET /marketplace/products/{id}/fitment (backend/app/api/v1/             *)
(* marketplace.py, check_product_fitment): does a product fit a vehicle,   *)
(* by the fitment rows of the product.  The rows come from the database in *)
(* no order, so an answer is any that some order gives.  None stands for a *)
(* NULL column and for a query parameter that was not given.               *)
(***************************************************************************)
EXTENDS Naturals, FiniteSets, Orm

CONSTANTS
  Makes, Models, Years,
  MaxRecords    \* a bound on the rows of the product

FitmentTypes == {"direct_fit", "requires_modification", "incompatible", "universal"}

\* What the seed writes for a product that fits all vehicles.
Universal ==
  [make |-> None, model |-> None, year_start |-> None, year_end |-> None, fitment_type |-> "universal"]

\* The other rows name a make.
FitmentRow ==
  [make : Makes, model : Models \cup {None}, year_start : Years \cup {None},
   year_end : Years \cup {None}, fitment_type : FitmentTypes \ {"universal"}] \cup {Universal}

Query == [make : Makes, model : Models \cup {None}, year : Years \cup {None}]

ASSUME FitmentsAssumption ==
  /\ None \notin Models \cup Makes
  /\ MaxRecords \in Nat

VARIABLES fitments, query, answer

fitmentsVars == <<fitments, query, answer>>

Unasked == [make |-> None, model |-> None, year |-> None]
AnswerOf(compatible, fitment_type) == [compatible |-> compatible, fitment_type |-> fitment_type]
Unknown == AnswerOf(FALSE, "unknown")

FitmentsTypeOK ==
  /\ fitments \subseteq FitmentRow
  /\ query \in Query \cup {Unasked}
  /\ answer \in [compatible : BOOLEAN, fitment_type : FitmentTypes \cup {"unknown"}]

FitmentsInit ==
  /\ fitments \in {{a, b} : a, b \in FitmentRow} \cup {{}}
  /\ Cardinality(fitments) <= MaxRecords
  /\ query = Unasked
  /\ answer = Unknown

\* The rows the statement selects: those of the make asked, a NULL is no make.
Found(q) == {f \in fitments : f.make = q.make /\ (q.model = None \/ f.model \in {None, q.model})}

\* Defect variant: a row for all models wins over the row for the model asked.
Best_GenericFirst(q) ==
  LET generic == {f \in Found(q) : f.model = None} IN
  IF generic # {} THEN generic ELSE Found(q)

\* "Best match: specific model > model-agnostic": the first of one of these.
Best(q) ==
  LET specific == {f \in Found(q) : f.model # None /\ f.model = q.model}
      generic  == {f \in Found(q) : f.model = None} IN
  CASE specific # {} -> specific
    [] specific = {} /\ generic # {} -> generic
    [] OTHER -> Found(q)

InYears(f, year) ==
  /\ f.year_start = None \/ year >= f.year_start
  /\ f.year_end = None \/ year <= f.year_end

CheckFitment(q) ==
  /\ query' = q
  /\ IF Found(q) = {} THEN answer' = Unknown
     ELSE \E f \in Best(q) :
            answer' = IF q.year = None \/ InYears(f, q.year)
                      THEN AnswerOf(f.fitment_type # "incompatible", f.fitment_type)
                      ELSE AnswerOf(FALSE, "incompatible")
  /\ UNCHANGED fitments

FitmentsNext == query = Unasked /\ \E q \in Query : CheckFitment(q)

FitmentsSpec == FitmentsInit /\ [][FitmentsNext]_fitmentsVars

\* An answer can be explained by the rows of the product: a yes by a row for this
\* vehicle, a no for a known vehicle by a row that excludes it, and a row for the
\* very model is never overruled by one for all models. A row for all vehicles
\* ("Universal-fit products (fit all vehicles)" in the seed) explains no answer:
\* the statement does not select it, and a product with no other row is unknown.
FitmentExplained ==
  query # Unasked =>
    LET fits(f)  == f.fitment_type # "incompatible" /\ (query.year = None \/ InYears(f, query.year))
        about    == {f \in fitments : f.make = query.make /\ (query.model = None \/ f.model \in {None, query.model})}
        decisive == {f \in about : f.model = query.model}
    IN  /\ answer = Unknown <=> about = {}
        /\ about # {} => \E f \in about : answer.compatible = fits(f)
        /\ query.model # None /\ decisive # {} => \E f \in decisive : answer.compatible = fits(f)

=============================================================================
