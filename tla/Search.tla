------------------------------- MODULE Search -------------------------------
(***************************************************************************)
(* search/query.py and search/facets.py behind GET /search: which products *)
(* a query finds, in which order, how they are cut into pages, and what    *)
(* the facets beside them count.                                           *)
(*                                                                         *)
(* Postgres and rapidfuzz judge every product against the text; what they  *)
(* say is part of the catalog here, chosen once, for one text query.  A    *)
(* client searches, walks through the pages and drills down into facets.   *)
(* Scores are exact: the float of the code is the score divided by         *)
(* 100 * MaxRank.                                                          *)
(***************************************************************************)
EXTENDS Integers, Sequences, FiniteSets, FiniteSetsExt, SequencesExt

CONSTANTS
  Products,       \* part numbers, in their order
  FacetValues,    \* the values of each filter dimension
  Judgements,     \* what Postgres and rapidfuzz may say of a product
  WLex, WFuzzy,   \* rank_weight_lexical, rank_weight_fuzzy (as whole numbers)
  FuzzyMin,       \* fuzzy_min_score
  Limits,         \* page sizes the client may ask for
  NoFilter        \* "this dimension is not filtered"

FacetDimensions == {"category", "brand", "material"}

\* Attributes may be filtered on but are not counted as a facet.
Dimensions == FacetDimensions \cup {"attribute"}

ASSUME SearchAssumption ==
  /\ Products \subseteq Nat
  /\ IsFiniteSet(Products)
  /\ DOMAIN FacetValues = Dimensions
  /\ \A d \in Dimensions : NoFilter \notin FacetValues[d]
  /\ Judgements \subseteq [lex_match : BOOLEAN, lex_rank : Nat, fuzzy : 0 .. 100]
  /\ WLex \in Nat
  /\ WFuzzy \in Nat
  /\ FuzzyMin \in 0 .. 100
  /\ Limits \subseteq Nat \ {0}

AllValues == UNION {FacetValues[d] : d \in Dimensions}
Filters == {f \in [Dimensions -> AllValues \cup {NoFilter}] :
              \A d \in Dimensions : f[d] \in FacetValues[d] \cup {NoFilter}}

Unfiltered == [d \in Dimensions |-> NoFilter]

\* The orders an unordered SELECT may return the rows in.
FetchOrders == {f \in [Products -> 1 .. Cardinality(Products)] : IsInjective(f)}

VARIABLES
  catalog,        \* the products' dimensions, and how they fit the text
  request,        \* the client's last request
  outcome,        \* and the answer to it
  seen,           \* history: the results of this walk, page after page
  promised        \* history: the facet count the client clicked, or Unpromised

vars == <<catalog, request, outcome, seen, promised>>

Unpromised == -1

-----------------------------------------------------------------------------
(* One search *)

\* The WHERE clause.
Filtered(filters) ==
  {p \in Products : \A d \in Dimensions : filters[d] \in {NoFilter, catalog[p].at[d]}}

Largest(ranks) == IF ranks = {} THEN 0 ELSE Max(ranks)

\* max(lex_rank) over the fetched rows, "or 1.0".
MaxRank(rows) ==
  LET top == Largest({catalog[p].fit.lex_rank : p \in rows}) IN
  IF top = 0 THEN 1 ELSE top

\* A lexical hit or a plausible typo.
IsCandidate(p) == catalog[p].fit.lex_match \/ catalog[p].fit.fuzzy >= FuzzyMin

\* W_LEX * norm(ts_rank) + W_FUZZY * fuzzy / 100, times 100 * MaxRank.
Score(rows, p) ==
  (IF catalog[p].fit.lex_match THEN 100 * WLex * catalog[p].fit.lex_rank ELSE 0)
  + WFuzzy * catalog[p].fit.fuzzy * MaxRank(rows)

Matches(blank, rows) == IF blank THEN rows ELSE {p \in rows : IsCandidate(p)}

\* Mutant: sorting by score alone.
KeyWithoutPartNo(blank, rows, p) == <<IF blank THEN 0 ELSE -Score(rows, p), 0>>

\* What results are sorted by: part numbers in browse mode, else the best score
\* first and part numbers among equals.
Key(blank, rows, p) == <<IF blank THEN 0 ELSE -Score(rows, p), p>>

\* Python's sort is stable: rows with equal keys stay as they were fetched.
Before(blank, rows, fetched, p, q) ==
  LET k == Key(blank, rows, p)
      l == Key(blank, rows, q)
  IN \/ k[1] < l[1]
     \/ k[1] = l[1] /\ k[2] < l[2]
     \/ k = l /\ fetched[p] < fetched[q]

\* The matches, each once and in that order.
Ranking(blank, rows, fetched) ==
  CHOOSE r \in SetToSeqs(Matches(blank, rows)) :
    \A i, j \in DOMAIN r : i < j => Before(blank, rows, fetched, r[i], r[j])

\* facet_counts: how many rows have each value; a value that none has is not
\* listed.  (The listing is by count; the model leaves its order out.)
FacetCounts(rows) ==
  [d \in FacetDimensions |->
     [v \in {catalog[p].at[d] : p \in rows} |->
        Cardinality({p \in rows : catalog[p].at[d] = v})]]

\* ranking[offset:offset + limit]
Page(ranking, offset, limit) ==
  SubSeq(ranking, offset + 1, Min({offset + limit, Len(ranking)}))

\* Mutant: the facets describe the page and not the result set.
AnswerCountingPage(blank, filters, limit, offset, fetched) ==
  LET rows == Filtered(filters)
      page == Page(Ranking(blank, rows, fetched), offset, limit)
  IN [total |-> Cardinality(Matches(blank, rows)), results |-> page,
      facets |-> FacetCounts(ToSet(page))]

\* search(): one SELECT, scored, sorted, counted and sliced.
Answer(blank, filters, limit, offset, fetched) ==
  LET rows == Filtered(filters) IN
  [total   |-> Cardinality(Matches(blank, rows)),
   results |-> Page(Ranking(blank, rows, fetched), offset, limit),
   facets  |-> FacetCounts(Matches(blank, rows))]

-----------------------------------------------------------------------------
(* A client browses *)

Requests == [blank : BOOLEAN, filters : Filters, limit : Limits \cup {0}, offset : Nat]

\* Nothing was asked yet: a limit of 0 is not a request.
NoRequest == [blank |-> TRUE, filters |-> Unfiltered, limit |-> 0, offset |-> 0]
NoOutcome ==
  [total |-> 0, results |-> <<>>, facets |-> [d \in FacetDimensions |-> [v \in {} |-> 0]]]

Init ==
  /\ catalog \in
       [Products -> [at : {f \in [Dimensions -> AllValues] :
                             \A d \in Dimensions : f[d] \in FacetValues[d]},
                     fit : Judgements]]
  /\ request = NoRequest
  /\ outcome = NoOutcome
  /\ seen = <<>>
  /\ promised = Unpromised

Send(blank, filters, limit, offset) ==
  /\ request' = [blank |-> blank, filters |-> filters, limit |-> limit, offset |-> offset]
  /\ \E fetched \in FetchOrders :
       outcome' = Answer(blank, filters, limit, offset, fetched)
  /\ UNCHANGED catalog

\* A client that starts over is another client.
Ask(blank, filters, limit) ==
  /\ request = NoRequest
  /\ Send(blank, filters, limit, 0)
  /\ seen' = outcome'.results
  /\ promised' = Unpromised

\* Up to one page beyond the end.
NextPage ==
  /\ request.limit > 0
  /\ request.offset < outcome.total
  /\ Send(request.blank, request.filters, request.limit, request.offset + request.limit)
  /\ seen' = seen \o outcome'.results
  /\ UNCHANGED promised

\* Mutant: whatever was clicked is passed on as the category.
NarrowedToCategory(filters, d, v) == [filters EXCEPT !["category"] = v]

\* The endpoint's parameters become SearchFilters, each under its own name.
Narrowed(filters, d, v) == [filters EXCEPT ![d] = v]

\* The client clicks a value of a facet.
DrillDown(d, v) ==
  /\ v \in DOMAIN outcome.facets[d]
  /\ Send(request.blank, Narrowed(request.filters, d, v), request.limit, 0)
  /\ seen' = outcome'.results
  /\ promised' = outcome.facets[d][v]

Next ==
  \/ \E blank \in BOOLEAN, filters \in Filters, limit \in Limits : Ask(blank, filters, limit)
  \/ NextPage
  \/ \E d \in FacetDimensions : \E v \in FacetValues[d] : DrillDown(d, v)

Spec == Init /\ [][Next]_vars

-----------------------------------------------------------------------------
(* Properties *)

Found == Matches(request.blank, Filtered(request.filters))

\* Every variable keeps its type.
TypeOK ==
  /\ request \in Requests
  /\ outcome.total \in Nat
  /\ outcome.results \in Seq(Products)
  /\ \A d \in FacetDimensions : DOMAIN outcome.facets[d] \subseteq FacetValues[d]
  /\ seen \in Seq(Products)
  /\ promised \in Nat \cup {Unpromised}

\* Walking through the pages shows every match once, the best first, although
\* each page is a search of its own and the SELECT has no ORDER BY
\* (query.py:155-160, "tiebreak on part_no for determinism").
PagesFollowRanking ==
  LET rows == Filtered(request.filters)
      AtLeastAsGood(p, q) == request.blank \/ Score(rows, p) >= Score(rows, q)
  IN
  request.limit > 0 =>
    /\ Len(seen) = Min({request.offset + request.limit, Cardinality(Found)})
    /\ IsInjective(seen)
    /\ ToSet(seen) \subseteq Found
    /\ \A i, j \in DOMAIN seen : i < j => AtLeastAsGood(seen[i], seen[j])
    /\ \A p \in ToSet(seen), q \in Found \ ToSet(seen) : AtLeastAsGood(p, q)

\* The count beside a facet value is the number of results the client gets by
\* drilling into it, although that is another query whose scores are normalised
\* by another maximum (facets.py:3-4).
FacetsTellDrillDown == promised # Unpromised => outcome.total = promised
=============================================================================
