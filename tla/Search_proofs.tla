--------------------------- MODULE Search_proofs ----------------------------
(***************************************************************************)
(* Theorems about Search, for every catalog, weights, threshold and page   *)
(* size: facet counts are drill-down totals, and pages are pieces of one   *)
(* ranking.                                                                *)
(***************************************************************************)
EXTENDS Search, FiniteSetTheorems, SequenceTheorems, TLAPS

-----------------------------------------------------------------------------
(* Facets *)

\* The answer on the client's screen is the answer to its last request.
AnswerIsCurrent ==
  \/ outcome = NoOutcome /\ promised = Unpromised
  \/ /\ outcome.total = Cardinality(Found)
     /\ outcome.facets = FacetCounts(Found)

IInv ==
  /\ request.filters \in Filters
  /\ AnswerIsCurrent
  /\ FacetsTellDrillDown

\* A value of another filter, or no filter, keeps filters well typed.
LEMMA NarrowedTyped ==
  ASSUME NEW filters \in Filters, NEW d \in FacetDimensions, NEW v \in FacetValues[d]
  PROVE  Narrowed(filters, d, v) \in Filters
BY SearchAssumption DEF Narrowed, Filters, Dimensions, AllValues

\* Whether a product is a candidate does not depend on the rows it is fetched
\* with, so narrowing by a value finds what was found and has the value.
LEMMA NarrowingSelects ==
  ASSUME NEW filters \in Filters, NEW blank, NEW d \in FacetDimensions,
         NEW v \in FacetValues[d],
         \E p \in Matches(blank, Filtered(filters)) : catalog[p].at[d] = v
  PROVE  Matches(blank, Filtered(Narrowed(filters, d, v)))
           = {p \in Matches(blank, Filtered(filters)) : catalog[p].at[d] = v}
<1>1. d \in Dimensions
  BY DEF Dimensions
<1>2. filters[d] \in {NoFilter, v}
  BY <1>1 DEF Matches, Filtered
<1>3. \A e \in Dimensions :
        Narrowed(filters, d, v)[e] = IF e = d THEN v ELSE filters[e]
  BY DEF Narrowed, Filters
<1>4. Filtered(Narrowed(filters, d, v)) = {p \in Filtered(filters) : catalog[p].at[d] = v}
  <2>1. v # NoFilter
    BY <1>1, SearchAssumption
  <2>2. ASSUME NEW p \in Products
        PROVE  p \in Filtered(Narrowed(filters, d, v))
                 <=> p \in Filtered(filters) /\ catalog[p].at[d] = v
    <3>1. p \in Filtered(Narrowed(filters, d, v))
            <=> \A e \in Dimensions :
                   (IF e = d THEN v ELSE filters[e]) \in {NoFilter, catalog[p].at[e]}
      BY <1>3 DEF Filtered
    <3>2. p \in Filtered(filters)
            <=> \A e \in Dimensions : filters[e] \in {NoFilter, catalog[p].at[e]}
      BY DEF Filtered
    <3> QED
      BY <1>1, <1>2, <2>1, <3>1, <3>2
  <2> QED
    BY <2>2 DEF Filtered
<1> QED
  BY <1>4 DEF Matches

\* What is sent is what is answered.
LEMMA SendAnswers ==
  ASSUME NEW blank, NEW filters, NEW limit, NEW offset, Send(blank, filters, limit, offset)
  PROVE  /\ request'.filters = filters /\ request'.blank = blank
         /\ outcome'.total = Cardinality(Found')
         /\ outcome'.facets = FacetCounts(Found)'
         /\ catalog' = catalog
<1> DEFINE found == Matches(blank, Filtered(filters))
<1>1. /\ request' = [blank |-> blank, filters |-> filters, limit |-> limit, offset |-> offset]
      /\ catalog' = catalog
  BY DEF Send
<1>2. PICK fetched \in FetchOrders : outcome' = Answer(blank, filters, limit, offset, fetched)
  BY DEF Send
<1>3. request'.filters = filters /\ request'.blank = blank
  BY <1>1
<1>4. Found' = found
  BY <1>1, <1>3 DEF Found, Matches, Filtered, IsCandidate
<1>5. outcome'.total = Cardinality(found) /\ outcome'.facets = FacetCounts(found)
  BY <1>2 DEF Answer
<1>6. FacetCounts(Found)' = FacetCounts(found)
  BY <1>1, <1>4 DEF FacetCounts
<1> QED
  BY <1>1, <1>3, <1>4, <1>5, <1>6

\* The count beside a facet value is the number of results one gets by drilling
\* into it, whatever the catalog, the weights and the ranks are.
THEOREM FacetsAreTotals == Spec => []FacetsTellDrillDown
<1>1. Init => IInv
  <2>1. Unfiltered \in Filters
    BY DEF Unfiltered, Filters
  <2> QED
    BY <2>1 DEF Init, IInv, NoRequest, AnswerIsCurrent, FacetsTellDrillDown
<1>2. IInv /\ [Next]_vars => IInv'
  <2> SUFFICES ASSUME IInv, [Next]_vars PROVE IInv'
    OBVIOUS
  <2>1. CASE UNCHANGED vars
    <3>1. UNCHANGED <<catalog, request, outcome, promised>>
      BY <2>1 DEF vars
    <3>2. Found' = Found
      BY <3>1 DEF Found, Matches, Filtered, IsCandidate
    <3>3. FacetCounts(Found)' = FacetCounts(Found)
      BY <3>1, <3>2 DEF FacetCounts
    <3> QED
      BY <3>1, <3>2, <3>3 DEF IInv, AnswerIsCurrent, FacetsTellDrillDown
  <2>2. ASSUME NEW blank \in BOOLEAN, NEW filters \in Filters, NEW limit \in Limits,
               Ask(blank, filters, limit)
        PROVE  IInv'
    <3>1. Send(blank, filters, limit, 0) /\ promised' = Unpromised
      BY <2>2 DEF Ask
    <3>2. /\ request'.filters = filters
          /\ outcome'.total = Cardinality(Found') /\ outcome'.facets = FacetCounts(Found)'
      BY <3>1, SendAnswers
    <3> QED
      BY <3>1, <3>2 DEF IInv, AnswerIsCurrent, FacetsTellDrillDown
  <2>3. CASE NextPage
    <3>1. /\ request.offset < outcome.total
          /\ Send(request.blank, request.filters, request.limit,
                  request.offset + request.limit)
          /\ promised' = promised
      BY <2>3 DEF NextPage
    <3>2. /\ request'.filters = request.filters /\ request'.blank = request.blank
          /\ outcome'.total = Cardinality(Found') /\ outcome'.facets = FacetCounts(Found)'
          /\ catalog' = catalog
      BY <3>1, SendAnswers
    <3>3. Found' = Found
      BY <3>2 DEF Found, Matches, Filtered, IsCandidate
    <3>4. outcome.total = Cardinality(Found) \/ promised = Unpromised
      BY DEF IInv, AnswerIsCurrent
    <3> QED
      BY <3>1, <3>2, <3>3, <3>4 DEF IInv, AnswerIsCurrent, FacetsTellDrillDown
  <2>4. ASSUME NEW d \in FacetDimensions, NEW v \in FacetValues[d], DrillDown(d, v)
        PROVE  IInv'
    <3> DEFINE narrowed == Narrowed(request.filters, d, v)
    <3>1. /\ v \in DOMAIN outcome.facets[d]
          /\ Send(request.blank, narrowed, request.limit, 0)
          /\ promised' = outcome.facets[d][v]
      BY <2>4 DEF DrillDown
    <3>2. outcome # NoOutcome
      BY <3>1 DEF NoOutcome
    <3>3. outcome.facets[d] =
            [w \in {catalog[p].at[d] : p \in Found} |->
               Cardinality({p \in Found : catalog[p].at[d] = w})]
      BY <3>2 DEF IInv, AnswerIsCurrent, FacetCounts
    <3>4. /\ \E p \in Found : catalog[p].at[d] = v
          /\ outcome.facets[d][v] = Cardinality({p \in Found : catalog[p].at[d] = v})
      BY <3>1, <3>3
    <3>5. narrowed \in Filters
      BY NarrowedTyped DEF IInv
    <3>6. /\ request'.filters = narrowed /\ request'.blank = request.blank
          /\ outcome'.total = Cardinality(Found') /\ outcome'.facets = FacetCounts(Found)'
          /\ catalog' = catalog
      <4> HIDE DEF narrowed
      <4> QED
        BY <3>1, SendAnswers
    <3>7. Found' = Matches(request.blank, Filtered(narrowed))
      <4> HIDE DEF narrowed
      <4> QED
        BY <3>6 DEF Found, Matches, Filtered, IsCandidate
    <3>8. Found' = {p \in Found : catalog[p].at[d] = v}
      BY <3>4, <3>7, NarrowingSelects DEF IInv, Found
    <3> HIDE DEF narrowed
    <3>9. outcome'.total = promised'
      BY <3>1, <3>4, <3>6, <3>8
    <3> QED
      BY <3>5, <3>6, <3>9 DEF IInv, AnswerIsCurrent, FacetsTellDrillDown
  <2> QED
    BY <2>1, <2>2, <2>3, <2>4 DEF Next
<1>3. IInv => FacetsTellDrillDown
  BY DEF IInv
<1> QED
  BY <1>1, <1>2, <1>3, PTL DEF Spec

-----------------------------------------------------------------------------
(* Sorting: a finite set has a sequence for every strict total order of it *)

StrictOrder(S, R) ==
  /\ \A p \in S : <<p, p>> \notin R
  /\ \A p, q, x \in S : <<p, q>> \in R /\ <<q, x>> \in R => <<p, x>> \in R
  /\ \A p, q \in S : p # q => <<p, q>> \in R \/ <<q, p>> \in R

\* The sequence that has at place i the element with i - 1 elements before it.
LEMMA SortExists ==
  ASSUME NEW S, IsFiniteSet(S), NEW R, StrictOrder(S, R)
  PROVE  \E r \in SetToSeqs(S) : \A i, j \in DOMAIN r : i < j => <<r[i], r[j]>> \in R
<1> DEFINE Ahead(p) == {q \in S : <<q, p>> \in R}
           n == Cardinality(S)
           place == [p \in S |-> Cardinality(Ahead(p)) + 1]
<1>1. n \in Nat /\ \A p \in S : IsFiniteSet(Ahead(p)) /\ Cardinality(Ahead(p)) \in Nat
  BY FS_Subset, FS_CardinalityType
<1>2. ASSUME NEW p \in S
      PROVE  Cardinality(Ahead(p)) + 1 <= n
  <2>1. p \notin Ahead(p) /\ Ahead(p) \cup {p} \in SUBSET S
    BY DEF StrictOrder
  <2>2. Cardinality(Ahead(p) \cup {p}) = Cardinality(Ahead(p)) + 1
    BY <1>1, <2>1, FS_AddElement
  <2>3. Cardinality(Ahead(p) \cup {p}) <= n
    BY <2>1, FS_Subset
  <2> QED
    BY <2>2, <2>3
<1>3. ASSUME NEW p \in S, NEW q \in S, <<p, q>> \in R
      PROVE  Cardinality(Ahead(p)) + 1 <= Cardinality(Ahead(q))
  <2>1. p \notin Ahead(p) /\ Ahead(p) \cup {p} \in SUBSET Ahead(q)
    BY <1>3 DEF StrictOrder
  <2>2. Cardinality(Ahead(p) \cup {p}) = Cardinality(Ahead(p)) + 1
    BY <1>1, <2>1, FS_AddElement
  <2>3. Cardinality(Ahead(p) \cup {p}) <= Cardinality(Ahead(q))
    BY <1>1, <2>1, FS_Subset
  <2> QED
    BY <2>2, <2>3
<1>4. \A p \in S : place[p] = Cardinality(Ahead(p)) + 1 /\ place[p] \in 1 .. n
  BY <1>1, <1>2
<1>5. \A p, q \in S : <<p, q>> \in R => place[p] < place[q]
  <2> TAKE p, q \in S
  <2>1. /\ place[p] = Cardinality(Ahead(p)) + 1 /\ place[q] = Cardinality(Ahead(q)) + 1
        /\ Cardinality(Ahead(p)) \in Nat /\ Cardinality(Ahead(q)) \in Nat
    BY <1>1, <1>4
  <2>2. <<p, q>> \in R => Cardinality(Ahead(p)) + 1 <= Cardinality(Ahead(q))
    BY <1>3
  <2> HIDE DEF place, Ahead
  <2> QED
    BY <2>1, <2>2
<1>6. place \in [S -> 1 .. n]
  BY <1>4
<1> HIDE DEF place
<1>7. \A p, q \in S : place[p] = place[q] => p = q
  <2> TAKE p, q \in S
  <2>1. place[p] \in Int /\ place[q] \in Int
    <3>1. place[p] \in 1 .. n /\ place[q] \in 1 .. n
      BY <1>4
    <3> QED
      BY <3>1
  <2>2. p # q => place[p] < place[q] \/ place[q] < place[p]
    BY <1>5 DEF StrictOrder
  <2> QED
    BY <2>1, <2>2
<1>8. place \in Injection(S, 1 .. n)
  BY <1>6, <1>7 DEF Injection, IsInjective
<1>9. IsFiniteSet(1 .. n) /\ Cardinality(1 .. n) = n
  BY <1>1, FS_Interval
<1>10. place \in Surjection(S, 1 .. n)
  BY <1>8, <1>9, FS_Injection
<1>11. \A i \in 1 .. n : \E p \in S : place[p] = i
  BY <1>10 DEF Surjection
<1> DEFINE r == [i \in 1 .. n |-> CHOOSE p \in S : place[p] = i]
<1>12. \A i \in 1 .. n : r[i] \in S /\ place[r[i]] = i
  BY <1>11
<1>13. r \in [1 .. n -> S] /\ DOMAIN r = 1 .. n
  BY <1>11
<1> HIDE DEF r
<1>14. r \in SetToSeqs(S)
  BY <1>12, <1>13 DEF SetToSeqs
<1>15. ASSUME NEW i \in DOMAIN r, NEW j \in DOMAIN r, i < j
       PROVE  <<r[i], r[j]>> \in R
  <2>1. i \in 1 .. n /\ j \in 1 .. n /\ i \in Int /\ j \in Int
    BY <1>1, <1>13
  <2>2. r[i] \in S /\ r[j] \in S /\ place[r[i]] = i /\ place[r[j]] = j
    BY <1>12, <2>1
  <2>3. r[i] # r[j]
    BY <1>15, <2>1, <2>2
  <2>4. <<r[j], r[i]>> \in R => j < i
    BY <1>5, <2>2
  <2> QED
    BY <1>15, <2>1, <2>2, <2>3, <2>4 DEF StrictOrder
<1> QED
  BY <1>14, <1>15

\* It holds every element.
LEMMA SeqHoldsAll ==
  ASSUME NEW S, IsFiniteSet(S), NEW r \in SetToSeqs(S)
  PROVE  /\ r \in Seq(S) /\ Len(r) = Cardinality(S) /\ Len(r) \in Nat
         /\ DOMAIN r = 1 .. Len(r)
         /\ \A i, j \in DOMAIN r : r[i] = r[j] => i = j
         /\ \A p \in S : \E i \in DOMAIN r : r[i] = p
<1> DEFINE n == Cardinality(S)
<1>1. n \in Nat
  BY FS_CardinalityType
<1>2. r \in [1 .. n -> S] /\ \A i, j \in 1 .. n : i # j => r[i] # r[j]
  BY DEF SetToSeqs
<1>3. r \in Injection(1 .. n, S)
  BY <1>2 DEF Injection, IsInjective
<1>4. Cardinality(1 .. n) = n
  BY <1>1, FS_Interval
<1>5. r \in Surjection(1 .. n, S)
  BY <1>3, <1>4, FS_Injection
<1>6. \A p \in S : \E i \in 1 .. n : r[i] = p
  BY <1>5 DEF Surjection
<1>7. r \in Seq(S) /\ Len(r) = n /\ DOMAIN r = 1 .. n
  BY <1>1, <1>2
<1> QED
  BY <1>1, <1>2, <1>6, <1>7

\* A finite set of numbers has a largest, the first of the numbers sorted downwards.
LEMMA MaxExists ==
  ASSUME NEW S, S \subseteq Nat, IsFiniteSet(S), S # {}
  PROVE  Max(S) \in S /\ Max(S) \in Nat
<1> DEFINE R == {x \in Nat \X Nat : x[1] > x[2]}
<1>1. StrictOrder(S, R)
  BY DEF StrictOrder
<1>2. \A x, y \in Nat : <<x, y>> \in R => x > y
  OBVIOUS
<1> HIDE DEF R
<1>3. PICK r \in SetToSeqs(S) : \A i, j \in DOMAIN r : i < j => <<r[i], r[j]>> \in R
  BY <1>1, SortExists
<1>4. /\ r \in Seq(S) /\ Len(r) \in Nat /\ DOMAIN r = 1 .. Len(r)
      /\ \A p \in S : \E i \in DOMAIN r : r[i] = p
  BY SeqHoldsAll
<1>5. 1 \in DOMAIN r /\ r[1] \in S
  <2>1. PICK i \in 1 .. Len(r) : TRUE
    BY <1>4
  <2>2. 1 <= Len(r)
    BY <1>4
  <2> QED
    BY <1>4, <2>2
<1>6. \A y \in S : r[1] >= y
  <2> TAKE y \in S
  <2>1. PICK i \in DOMAIN r : r[i] = y
    BY <1>4
  <2>2. i = 1 \/ 1 < i
    BY <1>4
  <2>3. r[1] \in Nat /\ y \in Nat
    BY <1>5
  <2>4. 1 < i => <<r[1], y>> \in R
    BY <1>3, <1>5, <2>1
  <2> QED
    BY <1>2, <2>1, <2>2, <2>3, <2>4
<1>7. \E x \in S : \A y \in S : x >= y
  BY <1>5, <1>6
<1>8. Max(S) \in S
  BY <1>7 DEF Max
<1> QED
  BY <1>8

\* The smaller of two numbers.
LEMMA MinOfTwo ==
  ASSUME NEW a \in Nat, NEW b \in Nat
  PROVE  Min({a, b}) = IF a <= b THEN a ELSE b
BY DEF Min

-----------------------------------------------------------------------------
(* The ranking *)

CatalogOK ==
  catalog \in
    [Products -> [at : {f \in [Dimensions -> AllValues] :
                          \A d \in Dimensions : f[d] \in FacetValues[d]},
                  fit : Judgements]]

\* The best score first and the lower part number among equals: Before without the
\* order of the fetch, which part numbers never leave to decide.
Precedes(blank, rows, p, q) ==
  LET s(x) == IF blank THEN 0 ELSE -Score(rows, x)
  IN s(p) < s(q) \/ (s(p) = s(q) /\ p < q)

\* Rows are finitely many, and what they score is a number.
LEMMA ScoresAreNumbers ==
  ASSUME CatalogOK, NEW rows \in SUBSET Products
  PROVE  /\ IsFiniteSet(rows)
         /\ \A p \in Products : Score(rows, p) \in Nat
<1>1. IsFiniteSet(rows)
  BY FS_Subset, SearchAssumption
<1>2. \A p \in Products : /\ catalog[p].fit.lex_rank \in Nat
                          /\ catalog[p].fit.fuzzy \in Nat
  BY SearchAssumption DEF CatalogOK
<1>3. MaxRank(rows) \in Nat
  <2> DEFINE rank == [p \in rows |-> catalog[p].fit.lex_rank]
             ranks == {catalog[p].fit.lex_rank : p \in rows}
  <2>1. ranks \subseteq Nat
    BY <1>2
  <2>2. IsFiniteSet(ranks)
    <3>1. rank \in Surjection(rows, ranks)
      BY DEF Surjection
    <3> QED
      BY <1>1, <3>1, FS_Surjection
  <2> HIDE DEF ranks
  <2>3. ranks = {} \/ Max(ranks) \in Nat
    BY <2>1, <2>2, MaxExists
  <2>4. Largest(ranks) \in Nat
    BY <2>3 DEF Largest
  <2>5. MaxRank(rows) = IF Largest(ranks) = 0 THEN 1 ELSE Largest(ranks)
    BY DEF MaxRank, ranks
  <2> QED
    BY <2>4, <2>5
<1>4. ASSUME NEW p \in Products
      PROVE  Score(rows, p) \in Nat
  <2>1. PICK rank \in Nat, fuzzy \in Nat, top \in Nat :
          rank = catalog[p].fit.lex_rank /\ fuzzy = catalog[p].fit.fuzzy /\ top = MaxRank(rows)
    BY <1>2, <1>3
  <2>2. 100 * WLex * rank \in Nat /\ WFuzzy * fuzzy * top \in Nat
    <3>1. WLex \in Nat /\ WFuzzy \in Nat
      BY SearchAssumption
    <3>2. 100 * WLex \in Nat /\ WFuzzy * fuzzy \in Nat
      BY <3>1
    <3> QED
      BY <3>2
  <2>3. Score(rows, p) = (IF catalog[p].fit.lex_match THEN 100 * WLex * rank ELSE 0)
                           + WFuzzy * fuzzy * top
    BY <2>1 DEF Score
  <2> QED
    BY <2>2, <2>3
<1> QED
  BY <1>1, <1>4

\* The order of the fetch decides nothing.
LEMMA FetchDecidesNothing ==
  ASSUME CatalogOK, NEW blank \in BOOLEAN, NEW rows \in SUBSET Products,
         NEW fetched \in FetchOrders
  PROVE  \A p, q \in Products :
           Before(blank, rows, fetched, p, q) <=> Precedes(blank, rows, p, q)
<1> TAKE p, q \in Products
<1> DEFINE s(x) == IF blank THEN 0 ELSE -Score(rows, x)
<1>1. s(p) \in Int /\ s(q) \in Int /\ p \in Int /\ q \in Int
  <2>1. Score(rows, p) \in Nat /\ Score(rows, q) \in Nat
    BY ScoresAreNumbers
  <2> QED
    BY <2>1, SearchAssumption
<1>2. fetched[p] \in 1 .. Cardinality(Products) /\ Cardinality(Products) \in Nat
  BY FS_CardinalityType, SearchAssumption DEF FetchOrders
<1>3. ~(fetched[p] < fetched[p])
  BY <1>2
<1>4. Key(blank, rows, p) = <<s(p), p>> /\ Key(blank, rows, q) = <<s(q), q>>
  BY DEF Key
<1>5. Precedes(blank, rows, p, q) <=> s(p) < s(q) \/ (s(p) = s(q) /\ p < q)
  BY DEF Precedes
<1> HIDE DEF s
<1>6. Before(blank, rows, fetched, p, q)
        <=> \/ s(p) < s(q) \/ (s(p) = s(q) /\ p < q)
            \/ p = q /\ s(p) = s(q) /\ fetched[p] < fetched[q]
  BY <1>4 DEF Before
<1> QED
  BY <1>1, <1>3, <1>5, <1>6

\* A search lists its matches, each once and none before a better one.
LEMMA RankingIs ==
  ASSUME CatalogOK, NEW blank \in BOOLEAN, NEW rows \in SUBSET Products,
         NEW fetched \in FetchOrders
  PROVE  LET r == Ranking(blank, rows, fetched) IN
         /\ r \in SetToSeqs(Matches(blank, rows))
         /\ \A i, j \in DOMAIN r : i < j => Precedes(blank, rows, r[i], r[j])
<1> DEFINE M == Matches(blank, rows)
           R == {x \in Products \X Products : Precedes(blank, rows, x[1], x[2])}
           s(x) == IF blank THEN 0 ELSE -Score(rows, x)
<1>1. M \in SUBSET Products /\ IsFiniteSet(M)
  BY FS_Subset, SearchAssumption DEF Matches
<1>2. \A p, q \in Products : <<p, q>> \in R <=> Precedes(blank, rows, p, q)
  OBVIOUS
<1>3. \A p \in Products : s(p) \in Int /\ p \in Int
  BY ScoresAreNumbers, SearchAssumption
<1>4. \A p, q \in Products :
        Precedes(blank, rows, p, q) <=> s(p) < s(q) \/ (s(p) = s(q) /\ p < q)
  BY DEF Precedes
<1> HIDE DEF R, s, M
<1>5. StrictOrder(M, R)
  <2>1. \A p \in M : <<p, p>> \notin R
    BY <1>1, <1>2, <1>3, <1>4
  <2>2. \A p, q, x \in M : <<p, q>> \in R /\ <<q, x>> \in R => <<p, x>> \in R
    BY <1>1, <1>2, <1>3, <1>4
  <2>3. \A p, q \in M : p # q => <<p, q>> \in R \/ <<q, p>> \in R
    BY <1>1, <1>2, <1>3, <1>4
  <2> QED
    BY <2>1, <2>2, <2>3 DEF StrictOrder
<1>6. PICK r \in SetToSeqs(M) : \A i, j \in DOMAIN r : i < j => <<r[i], r[j]>> \in R
  BY <1>1, <1>5, SortExists
<1>7. \A x \in SetToSeqs(M) : \A i \in DOMAIN x : x[i] \in Products
  BY <1>1 DEF SetToSeqs
<1>8. \A i, j \in DOMAIN r : i < j => Before(blank, rows, fetched, r[i], r[j])
  BY <1>2, <1>6, <1>7, FetchDecidesNothing
<1>9. /\ Ranking(blank, rows, fetched) \in SetToSeqs(M)
      /\ \A i, j \in DOMAIN Ranking(blank, rows, fetched) :
           i < j => Before(blank, rows, fetched, Ranking(blank, rows, fetched)[i],
                                                 Ranking(blank, rows, fetched)[j])
  BY <1>8, Zenon DEF Ranking, M
<1> QED
  BY <1>7, <1>9, FetchDecidesNothing DEF M

\* Every search lists them in the same order.
LEMMA RankingStays ==
  ASSUME CatalogOK, NEW blank \in BOOLEAN, NEW rows \in SUBSET Products,
         NEW fetched \in FetchOrders, NEW later \in FetchOrders
  PROVE  Ranking(blank, rows, fetched) = Ranking(blank, rows, later)
<1>1. \A x \in SetToSeqs(Matches(blank, rows)) : \A i \in DOMAIN x : x[i] \in Products
  BY DEF SetToSeqs, Matches
<1>2. \A x \in SetToSeqs(Matches(blank, rows)) : \A i, j \in DOMAIN x :
        Before(blank, rows, fetched, x[i], x[j]) <=> Before(blank, rows, later, x[i], x[j])
  BY <1>1, FetchDecidesNothing
<1> QED
  BY <1>2, Zenon DEF Ranking

\* What has been seen and the next page are what one longer page would have shown.
LEMMA PagesJoin ==
  ASSUME NEW r \in Seq(Products), NEW offset \in Nat, NEW limit \in Nat
  PROVE  /\ SubSeq(r, 1, Min({offset, Len(r)})) \o Page(r, offset, limit)
              = SubSeq(r, 1, Min({offset + limit, Len(r)}))
         /\ Page(r, 0, limit) = SubSeq(r, 1, Min({0 + limit, Len(r)}))
         /\ Page(r, offset, limit) \in Seq(Products)
<1> DEFINE m == Min({offset, Len(r)})
           n == Min({offset + limit, Len(r)})
<1>1. /\ m \in Nat /\ m <= Len(r) /\ m <= offset /\ (m = offset \/ m = Len(r))
      /\ n \in Nat /\ n <= Len(r) /\ n <= offset + limit /\ (n = offset + limit \/ n = Len(r))
  BY MinOfTwo
<1>2. /\ Page(r, offset, limit) = SubSeq(r, offset + 1, n)
      /\ Page(r, 0, limit) = SubSeq(r, 0 + 1, Min({0 + limit, Len(r)}))
  BY DEF Page
<1> HIDE DEF m, n
<1>3. SubSeq(r, 1, m) \o SubSeq(r, offset + 1, n) = SubSeq(r, 1, n)
  <2>1. CASE m = offset /\ offset <= Len(r)
    BY <1>1, <2>1
  <2>2. CASE m = Len(r) /\ offset > Len(r)
    <3>1. n = Len(r) /\ offset + 1 > n
      BY <1>1, <2>2
    <3>2. SubSeq(r, offset + 1, n) = <<>>
      BY <1>1, <3>1
    <3>3. SubSeq(r, 1, m) \in Seq(Products) /\ m = n
      BY <1>1, <2>2, <3>1
    <3>4. SubSeq(r, 1, m) \o <<>> = SubSeq(r, 1, m)
      BY <3>3, ConcatEmptySeq
    <3> QED
      BY <3>2, <3>3, <3>4
  <2> QED
    BY <1>1, <2>1, <2>2
<1>4. SubSeq(r, offset + 1, n) \in Seq(Products)
  BY <1>1
<1>5. SubSeq(r, 0 + 1, Min({0 + limit, Len(r)})) = SubSeq(r, 1, Min({0 + limit, Len(r)}))
  OBVIOUS
<1> QED
  BY <1>2, <1>3, <1>4, <1>5 DEF m, n

-----------------------------------------------------------------------------
(* Walking through the pages *)

Rows == Filtered(request.filters)

\* What the client has seen is the ranking of its last request up to that page.
SeenIsRanking(fetched) ==
  LET r == Ranking(request.blank, Rows, fetched) IN
  /\ outcome = Answer(request.blank, request.filters, request.limit, request.offset, fetched)
  /\ seen = SubSeq(r, 1, Min({request.offset + request.limit, Len(r)}))

WalkInv ==
  /\ CatalogOK
  /\ request \in Requests
  /\ promised \in Nat \cup {Unpromised}
  /\ \/ request = NoRequest /\ outcome = NoOutcome /\ seen = <<>>
     \/ \E fetched \in FetchOrders : SeenIsRanking(fetched)

\* Every limit is a number, and every request of numbers.
LEMMA RequestsTyped ==
  /\ \A limit \in Limits \cup {0} : limit \in Nat
  /\ \A q \in Requests : /\ q.blank \in BOOLEAN /\ q.filters \in Filters
                         /\ q.limit \in Nat /\ q.offset \in Nat
                         /\ q.offset + q.limit \in Nat
<1>1. \A limit \in Limits \cup {0} : limit \in Nat
  BY SearchAssumption
<1>2. \A q \in Requests : /\ q.blank \in BOOLEAN /\ q.filters \in Filters
                         /\ q.limit \in Limits \cup {0} /\ q.offset \in Nat
  BY DEF Requests
<1> QED
  BY <1>1, <1>2

\* The first places of a sequence that has as many.
LEMMA FirstPlaces ==
  ASSUME NEW T, NEW r \in Seq(T), NEW m \in Nat, m <= Len(r)
  PROVE  /\ SubSeq(r, 1, m) \in Seq(T) /\ Len(SubSeq(r, 1, m)) = m
         /\ DOMAIN SubSeq(r, 1, m) = 1 .. m
         /\ \A i \in 1 .. m : SubSeq(r, 1, m)[i] = r[i]
OBVIOUS

\* Nothing of a search depends on anything but the catalog.
LEMMA SameCatalog ==
  ASSUME catalog' = catalog, NEW blank, NEW filters, NEW limit, NEW offset, NEW fetched,
         NEW rows
  PROVE  /\ Filtered(filters)' = Filtered(filters)
         /\ Ranking(blank, rows, fetched)' = Ranking(blank, rows, fetched)
         /\ Answer(blank, filters, limit, offset, fetched)'
              = Answer(blank, filters, limit, offset, fetched)
<1>1. \A f : Filtered(f)' = Filtered(f)
  BY DEF Filtered
<1>2. \A s : Matches(blank, s)' = Matches(blank, s)
  BY DEF Matches, IsCandidate
<1>3. \A s, p, q : Before(blank, s, fetched, p, q)' <=> Before(blank, s, fetched, p, q)
  <2> TAKE s, p, q
  <2>1. {catalog[x].fit.lex_rank : x \in s}' = {catalog[x].fit.lex_rank : x \in s}
    OBVIOUS
  <2>2. MaxRank(s)' = MaxRank(s)
    BY <2>1 DEF MaxRank
  <2>3. Score(s, p)' = Score(s, p) /\ Score(s, q)' = Score(s, q)
    BY <2>2 DEF Score
  <2>4. Key(blank, s, p)' = Key(blank, s, p) /\ Key(blank, s, q)' = Key(blank, s, q)
    BY <2>3 DEF Key
  <2> QED
    BY <2>4 DEF Before
<1>4. \A s : Ranking(blank, s, fetched)' = Ranking(blank, s, fetched)
  <2> TAKE s
  <2>1. /\ SetToSeqs(Matches(blank, s))' = SetToSeqs(Matches(blank, s))
        /\ \A p, q : Before(blank, s, fetched, p, q)' <=> Before(blank, s, fetched, p, q)
    BY <1>2, <1>3
  <2> QED
    BY <2>1, Zenon DEF Ranking
<1>5. \A s : FacetCounts(s)' = FacetCounts(s)
  BY DEF FacetCounts
<1>6. Answer(blank, filters, limit, offset, fetched)'
        = Answer(blank, filters, limit, offset, fetched)
  BY <1>1, <1>2, <1>4, <1>5 DEF Answer
<1> QED
  BY <1>1, <1>4, <1>6

\* What a search answers is a page of the ranking, and counts.
LEMMA AnswerIs ==
  ASSUME CatalogOK, NEW blank \in BOOLEAN, NEW filters \in Filters, NEW limit \in Nat,
         NEW offset \in Nat, NEW fetched \in FetchOrders
  PROVE  LET rows == Filtered(filters)
             r == Ranking(blank, rows, fetched)
             found == Matches(blank, rows)
             answer == Answer(blank, filters, limit, offset, fetched)
         IN
         /\ rows \in SUBSET Products /\ found \in SUBSET Products /\ IsFiniteSet(found)
         /\ r \in Seq(Products) /\ r \in SetToSeqs(found) /\ Len(r) = Cardinality(found)
         /\ answer.results = Page(r, offset, limit) /\ answer.results \in Seq(Products)
         /\ answer.total = Cardinality(found) /\ answer.total \in Nat
         /\ answer.facets = FacetCounts(found)
<1> DEFINE rows == Filtered(filters)
           r == Ranking(blank, rows, fetched)
           found == Matches(blank, rows)
<1>1. rows \in SUBSET Products /\ found \in SUBSET Products /\ found \in SUBSET rows
  BY DEF Filtered, Matches
<1>2. IsFiniteSet(found) /\ Cardinality(found) \in Nat
  BY <1>1, FS_Subset, FS_CardinalityType, SearchAssumption
<1>3. r \in SetToSeqs(found)
  BY <1>1, RankingIs
<1>4. r \in Seq(found) /\ Len(r) = Cardinality(found)
  BY <1>2, <1>3, SeqHoldsAll
<1> HIDE DEF r, found, rows
<1>5. r \in Seq(Products)
  BY <1>1, <1>4
<1>6. Page(r, offset, limit) \in Seq(Products)
  BY <1>5, PagesJoin
<1> QED
  BY <1>1, <1>2, <1>3, <1>4, <1>5, <1>6 DEF Answer, r, found, rows

\* A first page begins the walk.
LEMMA FirstPageKeeps ==
  ASSUME WalkInv, NEW blank \in BOOLEAN, NEW filters \in Filters,
         NEW limit \in Limits \cup {0},
         Send(blank, filters, limit, 0), seen' = outcome'.results,
         promised' \in Nat \cup {Unpromised}
  PROVE  WalkInv'
<1>1. PICK fetched \in FetchOrders : outcome' = Answer(blank, filters, limit, 0, fetched)
  BY DEF Send
<1>2. /\ request' = [blank |-> blank, filters |-> filters, limit |-> limit, offset |-> 0]
      /\ catalog' = catalog /\ CatalogOK
  BY DEF Send, WalkInv
<1>3. request' \in Requests /\ request'.blank = blank /\ request'.filters = filters
      /\ request'.limit = limit /\ request'.offset = 0 /\ limit \in Nat
  <2>1. limit \in Nat
    BY RequestsTyped
  <2>2. [blank |-> blank, filters |-> filters, limit |-> limit, offset |-> 0] \in Requests
    BY DEF Requests
  <2> QED
    BY <1>2, <2>1, <2>2
<1> DEFINE rows == Filtered(filters)
           r == Ranking(blank, rows, fetched)
<1>4. r \in Seq(Products) /\ outcome'.results = Page(r, 0, limit)
  BY <1>1, <1>2, <1>3, AnswerIs
<1>5. seen' = SubSeq(r, 1, Min({0 + limit, Len(r)}))
  BY <1>3, <1>4, PagesJoin
<1>6. Filtered(filters)' = rows
  BY <1>2, SameCatalog
<1>7. /\ Ranking(blank, rows, fetched)' = r
      /\ Answer(blank, filters, limit, 0, fetched)' = outcome'
  BY <1>1, <1>2, SameCatalog
<1>8. SeenIsRanking(fetched)'
  BY <1>3, <1>5, <1>6, <1>7 DEF SeenIsRanking, Rows
<1>9. CatalogOK'
  BY <1>2 DEF CatalogOK
<1> QED
  BY <1>1, <1>3, <1>8, <1>9 DEF WalkInv

\* The next page continues it where it stopped, whatever was fetched.
LEMMA NextPageKeeps ==
  ASSUME WalkInv, NextPage
  PROVE  WalkInv'
<1> PICK blank \in BOOLEAN, filters \in Filters, limit \in Limits, offset \in Nat :
      /\ request.blank = blank /\ request.filters = filters
      /\ request.limit = limit /\ request.offset = offset
  <2>1. request \in Requests /\ request.limit > 0
    BY DEF NextPage, WalkInv
  <2> QED
    BY <2>1 DEF Requests
<1>1. /\ CatalogOK /\ catalog' = catalog /\ promised' = promised
      /\ Send(blank, filters, limit, offset + limit) /\ seen' = seen \o outcome'.results
  BY DEF NextPage, Send, WalkInv
<1>2. limit \in Nat /\ limit > 0 /\ offset + limit \in Nat
  BY SearchAssumption
<1>3. PICK fetched \in FetchOrders :
        outcome' = Answer(blank, filters, limit, offset + limit, fetched)
  BY <1>1 DEF Send
<1>4. request' = [blank |-> blank, filters |-> filters, limit |-> limit,
                  offset |-> offset + limit]
  BY <1>1 DEF Send
<1>5. request' \in Requests /\ request'.blank = blank /\ request'.filters = filters
      /\ request'.limit = limit /\ request'.offset = offset + limit
  BY <1>2, <1>4 DEF Requests
<1> DEFINE rows == Filtered(filters)
           r == Ranking(blank, rows, fetched)
<1>6. r \in Seq(Products) /\ outcome'.results = Page(r, offset + limit, limit)
      /\ rows \in SUBSET Products
  BY <1>1, <1>2, <1>3, AnswerIs
<1>7. seen = SubSeq(r, 1, Min({offset + limit, Len(r)}))
  <2>1. PICK earlier \in FetchOrders : SeenIsRanking(earlier)
    BY <1>2 DEF WalkInv, NoRequest
  <2>2. Ranking(blank, rows, earlier) = r
    BY <1>1, <1>6, RankingStays
  <2> QED
    BY <2>1, <2>2 DEF SeenIsRanking, Rows
<1>8. seen' = SubSeq(r, 1, Min({(offset + limit) + limit, Len(r)}))
  <2>1. PICK next \in Nat : next = offset + limit
    BY <1>2
  <2>2. seen' = SubSeq(r, 1, Min({next, Len(r)})) \o Page(r, next, limit)
    BY <1>1, <1>6, <1>7, <2>1
  <2>3. r \in Seq(Products) /\ limit \in Nat
    BY <1>2, <1>6
  <2> HIDE DEF r
  <2>4. SubSeq(r, 1, Min({next, Len(r)})) \o Page(r, next, limit)
          = SubSeq(r, 1, Min({next + limit, Len(r)}))
    BY <2>3, PagesJoin
  <2> QED
    BY <2>1, <2>2, <2>4
<1>9. Filtered(filters)' = rows
  BY <1>1, SameCatalog
<1>10. /\ Ranking(blank, rows, fetched)' = r
       /\ Answer(blank, filters, limit, offset + limit, fetched)' = outcome'
  BY <1>1, <1>3, SameCatalog
<1>11. SeenIsRanking(fetched)'
  BY <1>5, <1>8, <1>9, <1>10 DEF SeenIsRanking, Rows
<1>12. CatalogOK' /\ promised' \in Nat \cup {Unpromised}
  BY <1>1 DEF CatalogOK, WalkInv
<1> QED
  BY <1>3, <1>5, <1>11, <1>12 DEF WalkInv

\* What a facet count promises is a number.
LEMMA PromiseIsNumber ==
  ASSUME WalkInv, NEW d \in FacetDimensions, NEW v \in DOMAIN outcome.facets[d]
  PROVE  outcome.facets[d][v] \in Nat /\ v \in FacetValues[d]
<1>1. PICK fetched \in FetchOrders : SeenIsRanking(fetched)
  BY DEF WalkInv, NoOutcome
<1>2. request.blank \in BOOLEAN /\ request.filters \in Filters /\ request.limit \in Nat
      /\ request.offset \in Nat
  BY RequestsTyped DEF WalkInv
<1>3. PICK found \in SUBSET Products : outcome.facets = FacetCounts(found)
  BY <1>1, <1>2, AnswerIs DEF SeenIsRanking, WalkInv
<1>4. outcome.facets[d] = [w \in {catalog[p].at[d] : p \in found} |->
                             Cardinality({p \in found : catalog[p].at[d] = w})]
  BY <1>3 DEF FacetCounts
<1>5. IsFiniteSet({p \in found : catalog[p].at[d] = v})
  <2>1. {p \in found : catalog[p].at[d] = v} \in SUBSET Products
    OBVIOUS
  <2> QED
    BY <2>1, FS_Subset, SearchAssumption
<1>6. \A p \in Products : catalog[p].at[d] \in FacetValues[d]
  BY DEF WalkInv, CatalogOK, Dimensions
<1> QED
  BY <1>4, <1>5, <1>6, FS_CardinalityType

\* In every reachable state.
LEMMA WalkHolds == Spec => []WalkInv
<1>1. Init => WalkInv
  <2>1. Unfiltered \in Filters
    BY DEF Unfiltered, Filters
  <2>2. NoRequest \in Requests
    BY <2>1 DEF NoRequest, Requests
  <2> QED
    BY <2>2 DEF Init, WalkInv, CatalogOK
<1>2. WalkInv /\ [Next]_vars => WalkInv'
  <2> SUFFICES ASSUME WalkInv, [Next]_vars PROVE WalkInv'
    OBVIOUS
  <2>1. CASE UNCHANGED vars
    <3>1. UNCHANGED <<catalog, request, outcome, seen, promised>>
      BY <2>1 DEF vars
    <3>2. CatalogOK'
      BY <3>1 DEF WalkInv, CatalogOK
    <3>3. ASSUME NEW fetched \in FetchOrders, SeenIsRanking(fetched)
          PROVE  SeenIsRanking(fetched)'
      <4> PICK blank, filters, limit, offset :
            /\ request.blank = blank /\ request.filters = filters
            /\ request.limit = limit /\ request.offset = offset
        OBVIOUS
      <4>1. /\ Filtered(filters)' = Filtered(filters)
            /\ Ranking(blank, Filtered(filters), fetched)'
                 = Ranking(blank, Filtered(filters), fetched)
            /\ Answer(blank, filters, limit, offset, fetched)'
                 = Answer(blank, filters, limit, offset, fetched)
        BY <3>1, SameCatalog
      <4> QED
        BY <3>1, <3>3, <4>1 DEF SeenIsRanking, Rows
    <3> QED
      BY <3>1, <3>2, <3>3 DEF WalkInv
  <2>2. ASSUME NEW blank \in BOOLEAN, NEW filters \in Filters, NEW limit \in Limits,
               Ask(blank, filters, limit)
        PROVE  WalkInv'
    BY <2>2, FirstPageKeeps DEF Ask
  <2>3. CASE NextPage
    BY <2>3, NextPageKeeps
  <2>4. ASSUME NEW d \in FacetDimensions, NEW v \in FacetValues[d], DrillDown(d, v)
        PROVE  WalkInv'
    <3>1. /\ v \in DOMAIN outcome.facets[d]
          /\ Send(request.blank, Narrowed(request.filters, d, v), request.limit, 0)
          /\ seen' = outcome'.results /\ promised' = outcome.facets[d][v]
      BY <2>4 DEF DrillDown
    <3>2. request.blank \in BOOLEAN /\ request.filters \in Filters
          /\ request.limit \in Limits \cup {0}
      BY DEF WalkInv, Requests
    <3>3. Narrowed(request.filters, d, v) \in Filters
      BY <3>2, NarrowedTyped
    <3>4. promised' \in Nat
      BY <3>1, PromiseIsNumber
    <3> QED
      BY <3>1, <3>2, <3>3, <3>4, FirstPageKeeps
  <2> QED
    BY <2>1, <2>2, <2>3, <2>4 DEF Next
<1> QED
  BY <1>1, <1>2, PTL DEF Spec

\* Every variable keeps its type: pages are sequences of products, and facets count
\* values that exist.
THEOREM TypeCorrect == Spec => []TypeOK
<1>1. ASSUME WalkInv
      PROVE  TypeOK
  <2>1. CASE request = NoRequest /\ outcome = NoOutcome /\ seen = <<>>
    BY <1>1, <2>1 DEF WalkInv, TypeOK, NoOutcome
  <2>2. ASSUME NEW fetched \in FetchOrders, SeenIsRanking(fetched)
        PROVE  TypeOK
    <3>1. CatalogOK /\ request.blank \in BOOLEAN /\ request.filters \in Filters
          /\ request.limit \in Nat /\ request.offset \in Nat
      BY <1>1, RequestsTyped DEF WalkInv
    <3>2. outcome.total \in Nat /\ outcome.results \in Seq(Products)
      BY <2>2, <3>1, AnswerIs DEF SeenIsRanking
    <3> DEFINE r == Ranking(request.blank, Rows, fetched)
    <3>3. r \in Seq(Products)
      BY <2>2, <3>1, AnswerIs DEF Rows
    <3>4. seen = SubSeq(r, 1, Min({request.offset + request.limit, Len(r)}))
      BY <2>2 DEF SeenIsRanking
    <3> HIDE DEF r
    <3>5. seen \in Seq(Products)
      <4>1. request.offset + request.limit \in Nat /\ Len(r) \in Nat
        BY <3>1, <3>3
      <4>2. PICK m \in Nat : /\ m = Min({request.offset + request.limit, Len(r)})
                             /\ m <= Len(r)
        BY <4>1, MinOfTwo
      <4> QED
        BY <3>3, <3>4, <4>2, FirstPlaces
    <3>6. \A d \in FacetDimensions : DOMAIN outcome.facets[d] \subseteq FacetValues[d]
      BY <1>1, PromiseIsNumber
    <3> QED
      BY <1>1, <3>2, <3>5, <3>6 DEF WalkInv, TypeOK
  <2> QED
    BY <1>1, <2>1, <2>2 DEF WalkInv
<1> QED
  BY <1>1, WalkHolds, PTL

\* A client that turns the pages sees every match once, the best first, although every
\* page is a search of its own over rows that come in any order (query.py:155-160).
THEOREM PagesAreTheRanking == Spec => []PagesFollowRanking
<1>1. ASSUME WalkInv, request.limit > 0
      PROVE  LET AtLeastAsGood(p, q) == request.blank \/ Score(Rows, p) >= Score(Rows, q) IN
             /\ Len(seen) = Min({request.offset + request.limit, Cardinality(Found)})
             /\ IsInjective(seen)
             /\ ToSet(seen) \subseteq Found
             /\ \A i, j \in DOMAIN seen : i < j => AtLeastAsGood(seen[i], seen[j])
             /\ \A p \in ToSet(seen), q \in Found \ ToSet(seen) : AtLeastAsGood(p, q)
  <2> DEFINE AtLeastAsGood(p, q) == request.blank \/ Score(Rows, p) >= Score(Rows, q)
             offset == request.offset
             limit == request.limit
  <2>1. /\ CatalogOK /\ request.blank \in BOOLEAN /\ request.filters \in Filters
        /\ limit \in Nat /\ offset \in Nat /\ offset + limit \in Nat
    BY <1>1, RequestsTyped DEF WalkInv
  <2>2. PICK fetched \in FetchOrders : SeenIsRanking(fetched)
    BY <1>1 DEF WalkInv, NoRequest
  <2> DEFINE r == Ranking(request.blank, Rows, fetched)
  <2>3. /\ Rows \in SUBSET Products /\ Found \in SUBSET Products /\ IsFiniteSet(Found)
        /\ r \in SetToSeqs(Found)
    BY <2>1, AnswerIs DEF Rows, Found
  <2>4. /\ r \in Seq(Found) /\ Len(r) = Cardinality(Found) /\ Len(r) \in Nat
        /\ DOMAIN r = 1 .. Len(r)
        /\ \A i, j \in DOMAIN r : r[i] = r[j] => i = j
        /\ \A p \in Found : \E i \in DOMAIN r : r[i] = p
    BY <2>3, SeqHoldsAll
  <2>5. \A i, j \in DOMAIN r : i < j => Precedes(request.blank, Rows, r[i], r[j])
    BY <2>1, <2>3, RankingIs
  <2>6. \A p, q \in Products : Precedes(request.blank, Rows, p, q) => AtLeastAsGood(p, q)
    <3> TAKE p, q \in Products
    <3>1. Score(Rows, p) \in Nat /\ Score(Rows, q) \in Nat
      BY <2>1, <2>3, ScoresAreNumbers
    <3> QED
      BY <3>1 DEF Precedes
  <2>7. PICK m \in Nat : m = Min({offset + limit, Len(r)}) /\ m <= Len(r)
    BY <2>1, <2>4, MinOfTwo
  <2>8. seen = SubSeq(r, 1, m)
    BY <2>2, <2>7 DEF SeenIsRanking
  <2> HIDE DEF r
  <2>9. Len(seen) = m /\ DOMAIN seen = 1 .. m /\ \A i \in 1 .. m : seen[i] = r[i]
    <3>1. r \in Seq(Found) /\ m \in Nat /\ m <= Len(r)
      BY <2>4, <2>7
    <3>2. /\ Len(SubSeq(r, 1, m)) = m /\ DOMAIN SubSeq(r, 1, m) = 1 .. m
          /\ \A i \in 1 .. m : SubSeq(r, 1, m)[i] = r[i]
      BY <3>1, FirstPlaces
    <3> QED
      BY <2>8, <3>2
  <2>10. \A i \in 1 .. m : i \in DOMAIN r /\ r[i] \in Found
    BY <2>4, <2>7
  <2>11. \A i, j \in DOMAIN r : i < j => AtLeastAsGood(r[i], r[j])
    <3>1. \A i \in DOMAIN r : r[i] \in Products
      BY <2>3, <2>4
    <3> HIDE DEF AtLeastAsGood
    <3> QED
      BY <2>5, <2>6, <3>1
  <2> HIDE DEF AtLeastAsGood
  <2>12. IsInjective(seen)
    BY <2>4, <2>9, <2>10 DEF IsInjective
  <2>13. ToSet(seen) = {r[i] : i \in 1 .. m}
    BY <2>9 DEF ToSet
  <2>14. ToSet(seen) \subseteq Found
    BY <2>10, <2>13
  <2>15. \A i, j \in DOMAIN seen : i < j => AtLeastAsGood(seen[i], seen[j])
    BY <2>9, <2>10, <2>11
  <2>16. ASSUME NEW p \in ToSet(seen), NEW q \in Found \ ToSet(seen)
         PROVE  AtLeastAsGood(p, q)
    <3>1. PICK i \in 1 .. m : p = r[i]
      BY <2>13
    <3>2. PICK j \in DOMAIN r : q = r[j]
      BY <2>4
    <3>3. j \notin 1 .. m
      BY <2>13, <2>16, <3>2
    <3>4. i < j
      BY <2>4, <3>3
    <3> QED
      BY <2>10, <2>11, <3>1, <3>2, <3>4
  <2> QED
    BY <2>4, <2>7, <2>9, <2>12, <2>14, <2>15, <2>16 DEF AtLeastAsGood
<1>2. WalkInv => PagesFollowRanking
  BY <1>1 DEF PagesFollowRanking, Rows
<1> QED
  BY <1>2, WalkHolds, PTL
=============================================================================
