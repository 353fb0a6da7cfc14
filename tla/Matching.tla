------------------------------ MODULE Matching ------------------------------
(***************************************************************************)
(* Discovery (backend/app/services/matching.py: nearest_mechanics and      *)
(* nearest_garages): the PostGIS query, and the fallback that filters and  *)
(* ranks in Python "when PostGIS is not available".  Both run in the       *)
(* session of the caller.  Distances are in kilometres from the customer,  *)
(* scores in tenths.                                                       *)
(***************************************************************************)
EXTENDS Integers, Sequences, FiniteSets, SequencesExt, Orm

CONSTANTS
  Candidates,       \* rows a provider can have
  MaxTable,         \* a bound on the rows of the table
  SearchRadius,     \* settings.search_radius_km
  MaxFallbackRows,  \* _MAX_FALLBACK_ROWS
  Limits,           \* limits that callers ask for
  Tags              \* what callers name: issue tags, expertise values, None

ISSUE_TO_EXPERTISE ==
  [flat_tire |-> "tires", engine_failure |-> "engine", battery_dead |-> "battery",
   overheating |-> "engine", brake_issue |-> "brakes", oil_leak |-> "oil",
   electrical |-> "electrical", ac_not_working |-> "ac", transmission |-> "transmission",
   starting_issue |-> "engine", noise |-> "diagnostics", other |-> None]

Expertises == {ISSUE_TO_EXPERTISE[t] : t \in DOMAIN ISSUE_TO_EXPERTISE} \ {None}

ASSUME MatchingAssumption ==
  /\ \A r \in Candidates :
       /\ {r.verified, r.available, r.penalized, r.is_active} \subseteq BOOLEAN
       /\ r.distance \in Nat \ {0} /\ r.rating \in 0..5 /\ r.skills \subseteq Expertises
  /\ Limits \subseteq Nat \ {0} /\ {MaxFallbackRows, MaxTable} \subseteq Nat

VARIABLES
  database,  \* what the backend runs on
  table,     \* the rows of one kind of provider, oldest account first
  search,    \* the search being answered
  found      \* its result: positions in the table

matchingVars == <<database, table, search, found>>

Databases == {"postgis", "postgres", "sqlite"}   \* with PostGIS, without it, the tests'
Unsearched == [step |-> "none", kind |-> None, tag |-> None, limit |-> 1]

MatchingTypeOK ==
  /\ database \in Databases
  /\ table \in UNION {[1..n -> Candidates] : n \in 0..MaxTable}
  /\ search.step \in {"none", "failed", "answered", "error"}
  /\ Range(found) \subseteq DOMAIN table /\ Len(found) <= search.limit

MatchingInit ==
  /\ database \in Databases
  /\ table \in UNION {[1..n -> Candidates] : n \in 0..MaxTable}
  /\ search = Unsearched
  /\ found = << >>

------------------------------------------------------------------------------
(* The queries.                                                            *)

\* Defect variant: a tag that a caller has mapped already is unknown.
Resolve_Raw(tag) == IF tag \in DOMAIN ISSUE_TO_EXPERTISE THEN ISSUE_TO_EXPERTISE[tag] ELSE None

\* _resolve_expertise: an issue tag, or what one was resolved to before; None
\* stands for no filter.
Resolve(tag) ==
  IF tag \in DOMAIN ISSUE_TO_EXPERTISE THEN ISSUE_TO_EXPERTISE[tag]
  ELSE IF tag \in Expertises THEN tag ELSE None

\* The gates of the WHERE clauses; require_verified_providers is on, and garages
\* have no column "available".
Open(kind, i) ==
  /\ table[i].verified /\ ~table[i].penalized /\ table[i].is_active
  /\ kind = "mechanic" => table[i].available

Skilled(tag, i) == Resolve(tag) = None \/ Resolve(tag) \in table[i].skills
InReach(i) == table[i].distance <= SearchRadius

\* _score: a provider without reviews counts as one with three stars.
Score(kind, i) ==
  (IF table[i].rating = 0 THEN 3 ELSE table[i].rating) * 20 - table[i].distance * 8
    + (IF kind = "mechanic" THEN 5 ELSE 3)

\* ranked.sort(key=lambda x: -x.score), in any order of equals.
BestFirst(kind, s) == \A i, j \in DOMAIN s : i < j => Score(kind, s[i]) >= Score(kind, s[j])
Ranked(kind, S) == {s \in SetToSeqs(S) : BestFirst(kind, s)}

\* ORDER BY dist_m LIMIT n.
Nearest(S, n) ==
  {T \in SUBSET S : /\ Cardinality(T) = IF Cardinality(S) < n THEN Cardinality(S) ELSE n
                    /\ \A i \in T, j \in S \ T : table[i].distance <= table[j].distance}

\* ORDER BY u.created_at LIMIT _MAX_FALLBACK_ROWS.
Oldest(S) == {i \in S : Cardinality({j \in S : j < i}) < MaxFallbackRows}

------------------------------------------------------------------------------
(* A search.                                                               *)

\* _postgis_fetch answers None when the statement fails.
PostgisFetch(kind, tag, limit) ==
  LET rows == {i \in DOMAIN table : Open(kind, i) /\ Skilled(tag, i) /\ InReach(i)}
      asks(step) == [step |-> step, kind |-> kind, tag |-> tag, limit |-> limit]
  IN
  /\ search = Unsearched
  /\ \/ /\ database = "postgis"
        /\ \E T \in Nearest(rows, limit) : found' \in Ranked(kind, T)
        /\ search' = asks("answered")
     \/ /\ database # "postgis"
        /\ search' = asks("failed")
        /\ UNCHANGED found
  /\ UNCHANGED <<database, table>>

\* Defect variant: the rows of the fallback are not cut by the search radius.
InRadius_Everywhere(i) == TRUE

\* if dist_m > _settings.search_radius_m: continue
InRadius(i) == InReach(i)

\* SQLite has no array operator: with an expertise the query without it follows, and
\* the filter is in Python after the LIMIT.
FallbackRows(kind, tag) ==
  {i \in Oldest({j \in DOMAIN table : Open(kind, j)}) : Skilled(tag, i)}

\* _fallback_mechanics, _fallback_garages: cut, ranked, and the first of them.
Fallback ==
  LET kind == search.kind
      rows == FallbackRows(kind, search.tag)
  IN
  /\ search.step = "failed" /\ database = "sqlite"
  /\ \E s \in Ranked(kind, {i \in rows : InRadius(i)}) :
       found' = SubSeq(s, 1, IF Len(s) < search.limit THEN Len(s) ELSE search.limit)
  /\ search' = [search EXCEPT !.step = "answered"]
  /\ UNCHANGED <<database, table>>

\* On PostgreSQL the failed statement has aborted the transaction, and the
\* statements of the fallback fail with it.
FallbackFails ==
  /\ search.step = "failed" /\ database = "postgres"
  /\ search' = [search EXCEPT !.step = "error"]
  /\ UNCHANGED <<database, table, found>>

MatchingNext ==
  \/ \E kind \in {"mechanic", "garage"}, tag \in Tags, limit \in Limits : PostgisFetch(kind, tag, limit)
  \/ Fallback
  \/ FallbackFails

MatchingSpec == MatchingInit /\ [][MatchingNext]_matchingVars

------------------------------------------------------------------------------
(* Properties.                                                             *)

\* Whom a customer with this issue is to find, said of the rows alone: the issue
\* may be named by its tag or by the expertise it needs.
Suits(i) ==
  LET r == table[i]
      wanted == {ISSUE_TO_EXPERTISE[t] : t \in DOMAIN ISSUE_TO_EXPERTISE \cap {search.tag}}
                  \cup (Expertises \cap {search.tag})
  IN  /\ r.verified /\ r.is_active /\ ~r.penalized
      /\ r.available \/ search.kind = "garage"
      /\ r.distance <= SearchRadius
      /\ wanted \ {None} \subseteq r.skills

\* Whichever path answers, it finds nobody unfit, the best first, and when the
\* answer is shorter than its limit nobody fit is missing (the fallback looks at
\* no more than _MAX_FALLBACK_ROWS providers).
SearchComplete ==
  search.step = "answered" =>
    /\ \A n \in DOMAIN found : Suits(found[n])
    /\ BestFirst(search.kind, found)
    /\ Len(found) < search.limit /\ (database = "sqlite" => Len(table) <= MaxFallbackRows) =>
         Range(found) = {i \in DOMAIN table : Suits(i)}

=============================================================================
