------------------------- MODULE Evaluation_proofs -------------------------
(***************************************************************************)
(* The reported measures agree with each other and with the whole ranking, *)
(* for every set of labels, every k_values and max_k, and every answer a   *)
(* search gives that lists no product twice; the suite around them finds   *)
(* every SKU it hard-codes and counts every row and request once, however  *)
(* long its benches are.                                                   *)
(***************************************************************************)
EXTENDS Evaluation, FiniteSetTheorems, WellFoundedInduction, TLAPS

\* A ranking without repetitions.
Rankings == {a \in Seq(Ids) : \A i, j \in DOMAIN a : a[i] = a[j] => i = j}

\* The places among the first k that hold a relevant product.
Hits(ranked, relevant, k) == {i \in Top(ranked, k) : ranked[i] \in relevant}

\* What every reachable state is: a reported row is that of the answer and the label.
IInv ==
  /\ k_values \in KValueSets /\ max_k \in MaxKs
  /\ label \in Nat \ {0}
  /\ typo \in BOOLEAN
  /\ row # NoRow =>
       /\ label \in 1 .. Labels
       /\ answer \in Answers(label)
       /\ row = RowOf(Limited(answer), Relevant(label), typo)

-----------------------------------------------------------------------------
(* Facts about rankings *)

\* Without a max_k, and up to one, no k is above the number of results that are asked
\* for (relevance.py:98).
LEMMA TopKBoundsK ==
  ASSUME IInv
  PROVE  /\ TopK \in Nat
         /\ \A k \in k_values : k \in Nat /\ ((max_k = 0 \/ k <= max_k) => k <= TopK)
<1>1. /\ max_k \in Nat /\ k_values \subseteq Nat
      /\ \E m \in k_values : \A k \in k_values : k <= m
  BY RelevanceAssumption DEF IInv
<1>2. CASE max_k # 0
  BY <1>1, <1>2 DEF TopK
<1>3. CASE max_k = 0
  <2>1. TopK \in k_values /\ \A k \in k_values : k <= TopK
    BY <1>1, <1>3 DEF TopK
  <2> QED
    BY <1>1, <2>1
<1> QED
  BY <1>2, <1>3

\* The first n results of an answer that has as many.
LEMMA FirstResults ==
  ASSUME NEW a \in Seq(Ids), NEW n \in Nat, n <= Len(a)
  PROVE  /\ SubSeq(a, 1, n) \in Seq(Ids)
         /\ DOMAIN SubSeq(a, 1, n) = 1 .. n
         /\ \A i \in 1 .. n : i \in DOMAIN a /\ SubSeq(a, 1, n)[i] = a[i]
OBVIOUS

\* What is left of an answer, and of its first k places, when it is cut to top_k.
LEMMA LimitedPlaces ==
  ASSUME NEW a \in Seq(Ids), NEW k \in Nat, TopK \in Nat
  PROVE  /\ Limited(a) \in Seq(Ids)
         /\ \A i \in DOMAIN Limited(a) : i \in DOMAIN a /\ Limited(a)[i] = a[i]
         /\ Top(Limited(a), k) = {i \in Top(a, k) : i <= TopK}
<1>1. Len(a) \in Nat /\ DOMAIN a = 1 .. Len(a)
  OBVIOUS
<1> DEFINE x == TopK
           n == Lesser(x, Len(a))
<1>2. x \in Nat /\ n \in Nat /\ n <= Len(a) /\ n <= x /\ (n = x \/ n = Len(a))
  BY <1>1 DEF Lesser
<1>3. Limited(a) = SubSeq(a, 1, n)
  BY DEF Limited
<1> HIDE DEF x, n
<1>4. /\ Limited(a) \in Seq(Ids) /\ DOMAIN Limited(a) = 1 .. n
      /\ \A i \in 1 .. n : i \in DOMAIN a /\ Limited(a)[i] = a[i]
  BY <1>2, <1>3, FirstResults
<1>5. ASSUME NEW i \in Nat
      PROVE  i \in 1 .. n <=> (i \in 1 .. Len(a) /\ i <= x)
  <2>1. CASE n = x
    BY <1>1, <1>2, <2>1
  <2>2. CASE n = Len(a)
    BY <1>1, <1>2, <2>2
  <2> QED
    BY <1>2, <2>1, <2>2
<1>6. Top(Limited(a), k) = {i \in Top(a, k) : i <= x}
  BY <1>1, <1>4, <1>5 DEF Top
<1> QED
  BY <1>4, <1>6 DEF x

\* Cutting an answer without repetitions leaves it without repetitions.
LEMMA LimitedRanking ==
  ASSUME NEW a \in Rankings, TopK \in Nat
  PROVE  Limited(a) \in Rankings
<1>1. a \in Seq(Ids) /\ 0 \in Nat
  BY DEF Rankings
<1> QED
  BY <1>1, LimitedPlaces DEF Rankings

\* Counting places, as precision does, and counting products, as recall does, come to
\* the same, and to no more than k and no more than the relevant products.
LEMMA HitsCount ==
  ASSUME NEW a \in Rankings, NEW R, IsFiniteSet(R), NEW k \in Nat
  PROVE  LET ids == {a[i] : i \in Top(a, k)} \cap R IN
         /\ IsFiniteSet(Hits(a, R, k))
         /\ Cardinality(Hits(a, R, k)) \in Nat
         /\ Cardinality(ids) = Cardinality(Hits(a, R, k))
         /\ Cardinality(Hits(a, R, k)) <= Lesser(k, Cardinality(R))
<1> DEFINE H == Hits(a, R, k)
           I == {a[i] : i \in Top(a, k)} \cap R
           f == [i \in H |-> a[i]]
<1>1. H \subseteq 1 .. k /\ H \subseteq DOMAIN a
  BY DEF Hits, Top, Rankings
<1>2. IsFiniteSet(1 .. k) /\ Cardinality(1 .. k) = k
  BY FS_Interval
<1>3. IsFiniteSet(H) /\ Cardinality(H) <= k
  BY <1>1, <1>2, FS_Subset
<1>4. f \in Bijection(H, I)
  <2>1. f \in [H -> I]
    BY DEF Hits
  <2>2. \A i, j \in H : f[i] = f[j] => i = j
    BY <1>1 DEF Rankings
  <2>3. \A x \in I : \E i \in H : f[i] = x
    BY DEF Hits
  <2> HIDE DEF H, I, f
  <2> QED
    BY <2>1, <2>2, <2>3 DEF Bijection, Injection, Surjection, IsInjective
<1>5. IsFiniteSet(I) /\ Cardinality(I) = Cardinality(H)
  <2>1. ExistsBijection(H, I)
    BY <1>4 DEF ExistsBijection
  <2> HIDE DEF H, I
  <2> QED
    BY <1>3, <2>1, FS_Bijection
<1>6. Cardinality(I) <= Cardinality(R)
  BY FS_Subset
<1>7. Cardinality(H) \in Nat /\ Cardinality(R) \in Nat
  BY <1>3, FS_CardinalityType
<1> HIDE DEF H, I
<1>8. Cardinality(H) <= Lesser(k, Cardinality(R))
  BY <1>3, <1>5, <1>6, <1>7 DEF Lesser
<1> QED
  BY <1>3, <1>5, <1>7, <1>8 DEF H, I

\* A set of places has a first one.
LEMMA FirstPlace ==
  ASSUME NEW T, T \subseteq Nat, T # {}
  PROVE  \E i \in T : \A j \in T : i <= j
<1> DEFINE less == {p \in Nat \X Nat : p[1] < p[2]}
<1>1. IsWellFoundedOn(less, Nat)
  BY NatLessThanWellFounded, Zenon DEF OpToRel
<1>2. PICK i \in T : \A j \in T : <<j, i>> \notin less
  <2> HIDE DEF less
  <2> QED
    BY <1>1, WFMin
<1>3. \A j \in T : ~(j < i)
  BY <1>2
<1> QED
  BY <1>3

\* The first relevant product of a ranking is where the reciprocal rank says: at k or
\* before if any product of the first k is relevant (relevance.py:49-51).
LEMMA ReciprocalRankIs ==
  ASSUME NEW a \in Rankings, NEW R, NEW k \in Nat \ {0}
  PROVE  AtMost(Fraction(1, k), ReciprocalRank(a, R)) <=> \E i \in Top(a, k) : a[i] \in R
<1> DEFINE T == {i \in DOMAIN a : a[i] \in R}
           First(i) == i \in DOMAIN a /\ a[i] \in R /\ \A j \in 1 .. i - 1 : a[j] \notin R
           rr == ReciprocalRank(a, R)
<1>1. DOMAIN a = 1 .. Len(a) /\ Len(a) \in Nat
  BY DEF Rankings
<1>2. CASE T = {}
  <2>1. rr = Zero
    BY <1>2 DEF ReciprocalRank
  <2>2. ~AtMost(Fraction(1, k), Zero)
    BY DEF AtMost, Fraction, Zero
  <2> QED
    BY <1>2, <2>1, <2>2 DEF Top
<1>3. CASE T # {}
  <2>1. PICK i \in T : \A j \in T : i <= j
    <3>1. T \subseteq Nat
      BY <1>1
    <3> HIDE DEF T
    <3> QED
      BY <1>3, <3>1, FirstPlace
  <2>2. First(i)
    BY <1>1, <2>1
  <2>3. PICK f : First(f) /\ rr = Fraction(1, f)
    BY <1>3, <2>2 DEF ReciprocalRank
  <2>4. f \in Nat \ {0}
    BY <1>1, <2>3
  <2>5. AtMost(Fraction(1, k), rr) <=> f <= k
    BY <2>3, <2>4 DEF AtMost, Fraction
  <2>6. \A j \in T : f <= j
    BY <1>1, <2>3, <2>4
  <2>7. f \in DOMAIN a /\ a[f] \in R
    BY <2>3
  <2> HIDE DEF First, rr
  <2> QED
    BY <1>1, <2>4, <2>5, <2>6, <2>7 DEF Top, rr
<1> QED
  BY <1>2, <1>3

-----------------------------------------------------------------------------
(* The measures of one answer *)

\* Both measures count the hits among the first k places.
LEMMA MeasuresAre ==
  ASSUME NEW a \in Rankings, NEW R, IsFiniteSet(R), NEW k \in Nat
  PROVE  LET h == Cardinality(Hits(a, R, k)) IN
         /\ PrecisionAtK(a, R, k) = IF k = 0 THEN Zero ELSE Fraction(h, k)
         /\ RecallAtK(a, R, k) =
              IF R = {} THEN Zero ELSE Fraction(h, Lesser(k, Cardinality(R)))
BY HitsCount DEF PrecisionAtK, RecallAtK, Hits

\* The cut answer has the hits of the whole one but those behind the cut.
LEMMA HitsLost ==
  ASSUME NEW a \in Rankings, NEW R, IsFiniteSet(R), NEW k \in Nat, TopK \in Nat
  PROVE  LET lost == {i \in Top(a, k) : i > TopK /\ a[i] \in R} IN
         /\ Cardinality(Hits(Limited(a), R, k)) = Cardinality(Hits(a, R, k)) - Cardinality(lost)
         /\ Cardinality(lost) \in Nat
         /\ k = 0 \/ R = {} => Cardinality(lost) = 0
<1> DEFINE lost == {i \in Top(a, k) : i > TopK /\ a[i] \in R}
           kept == Hits(Limited(a), R, k)
           all == Hits(a, R, k)
<1>1. a \in Seq(Ids) /\ DOMAIN a = 1 .. Len(a) /\ Len(a) \in Nat
  BY DEF Rankings
<1>2. kept = {i \in Top(a, k) : i <= TopK /\ a[i] \in R}
  <2>1. Top(Limited(a), k) = {i \in Top(a, k) : i <= TopK}
    BY <1>1, LimitedPlaces
  <2>2. \A i \in Top(Limited(a), k) : Limited(a)[i] = a[i]
    BY <1>1, LimitedPlaces DEF Top
  <2> QED
    BY <2>1, <2>2 DEF Hits
<1>3. \A i \in Top(a, k) : i \in Nat \ {0} /\ i <= k
  BY <1>1 DEF Top
<1>4. all = kept \cup lost /\ kept \cap lost = {}
  BY <1>2, <1>3 DEF Hits
<1>5. IsFiniteSet(all) /\ Limited(a) \in Rankings
  BY HitsCount, LimitedRanking
<1>6. IsFiniteSet(kept) /\ IsFiniteSet(lost)
  <2> HIDE DEF all, kept, lost
  <2> QED
    BY <1>4, <1>5, FS_Subset
<1>7. (k = 0 \/ R = {}) => lost = {}
  BY <1>3
<1> HIDE DEF all, kept, lost
<1>8. /\ Cardinality(kept) \in Nat /\ Cardinality(lost) \in Nat
      /\ Cardinality(all) = Cardinality(kept) + Cardinality(lost)
  <2>1. Cardinality(all) = Cardinality(kept) + Cardinality(lost) - Cardinality(kept \cap lost)
    BY <1>4, <1>6, FS_Union
  <2>2. Cardinality(kept \cap lost) = 0
    BY <1>4, FS_EmptySet
  <2>3. Cardinality(kept) \in Nat /\ Cardinality(lost) \in Nat
    BY <1>6, FS_CardinalityType
  <2> QED
    BY <2>1, <2>2, <2>3
<1>9. (k = 0 \/ R = {}) => Cardinality(lost) = 0
  BY <1>7, FS_EmptySet
<1>10. Cardinality(kept) = Cardinality(all) - Cardinality(lost)
  BY <1>8
<1> QED
  BY <1>8, <1>9, <1>10 DEF all, kept, lost

\* So are the measures.
LEMMA MeasuresLost ==
  ASSUME NEW a \in Rankings, NEW R, IsFiniteSet(R), NEW k \in Nat, TopK \in Nat
  PROVE  LET lost == Cardinality({i \in Top(a, k) : i > TopK /\ a[i] \in R}) IN
         /\ PrecisionAtK(Limited(a), R, k) = Less(PrecisionAtK(a, R, k), lost)
         /\ RecallAtK(Limited(a), R, k) = Less(RecallAtK(a, R, k), lost)
<1> DEFINE h == Cardinality(Hits(a, R, k))
           g == Cardinality(Hits(Limited(a), R, k))
           lost == Cardinality({i \in Top(a, k) : i > TopK /\ a[i] \in R})
           m == Lesser(k, Cardinality(R))
<1>1. /\ PrecisionAtK(a, R, k) = IF k = 0 THEN Zero ELSE Fraction(h, k)
      /\ RecallAtK(a, R, k) = IF R = {} THEN Zero ELSE Fraction(h, m)
  BY MeasuresAre
<1>2. /\ PrecisionAtK(Limited(a), R, k) = IF k = 0 THEN Zero ELSE Fraction(g, k)
      /\ RecallAtK(Limited(a), R, k) = IF R = {} THEN Zero ELSE Fraction(g, m)
  BY LimitedRanking, MeasuresAre
<1>3. g = h - lost /\ lost \in Nat /\ (k = 0 \/ R = {} => lost = 0)
  BY HitsLost
<1> HIDE DEF h, g, lost, m
<1>4. Less(Zero, 0) = Zero
  BY DEF Less, Zero, Fraction
<1>5. \A d : Less(Fraction(h, d), lost) = Fraction(g, d)
  BY <1>3 DEF Less, Fraction
<1>6. /\ PrecisionAtK(Limited(a), R, k) = Less(PrecisionAtK(a, R, k), lost)
      /\ RecallAtK(Limited(a), R, k) = Less(RecallAtK(a, R, k), lost)
  BY <1>1, <1>2, <1>3, <1>4, <1>5
<1> QED
  BY <1>6 DEF lost

\* recall_at_k divides by zero exactly for the first 0 places and something relevant.
LEMMA RecallDivides ==
  ASSUME NEW a, NEW R, IsFiniteSet(R), NEW k \in Nat
  PROVE  RecallAtK(a, R, k).den = 0 <=> k = 0 /\ R # {}
<1>1. Cardinality(R) \in Nat /\ (Cardinality(R) = 0 <=> R = {})
  BY FS_CardinalityType, FS_EmptySet
<1> QED
  BY <1>1 DEF RecallAtK, Lesser, Zero, Fraction

\* Precision is the share of hits, recall that share of what the cap allows.
LEMMA CappedMeasures ==
  ASSUME NEW a \in Rankings, NEW R, IsFiniteSet(R), NEW k \in Nat \ {0}
  PROVE  LET cap == Fraction(Lesser(k, Cardinality(R)), k)
             precision == PrecisionAtK(a, R, k)
             recall == RecallAtK(a, R, k)
         IN /\ AtMost(precision, cap)
            /\ AtMost(recall, Fraction(1, 1))
            /\ Equal(Times(recall, cap), precision)
            /\ precision.num > 0 <=> \E i \in Top(a, k) : a[i] \in R
<1> DEFINE h == Cardinality(Hits(a, R, k))
           m == Lesser(k, Cardinality(R))
<1>1. Cardinality(R) \in Nat
  BY FS_CardinalityType
<1>2. m \in Nat
  BY <1>1 DEF Lesser
<1>3. /\ IsFiniteSet(Hits(a, R, k)) /\ h \in Nat /\ h <= m
      /\ Cardinality({a[i] : i \in Top(a, k)} \cap R) = h
  BY HitsCount
<1>4. PrecisionAtK(a, R, k) = Fraction(h, k)
  BY MeasuresAre
<1>5. /\ RecallAtK(a, R, k) = IF R = {} THEN Zero ELSE Fraction(h, m)
      /\ R = {} => m = 0
  BY MeasuresAre, FS_EmptySet DEF Lesser
<1>6. h > 0 <=> Hits(a, R, k) # {}
  BY <1>3, FS_EmptySet
<1>7. h > 0 <=> \E i \in Top(a, k) : a[i] \in R
  BY <1>6 DEF Hits
<1> HIDE DEF h, m
<1>8. h * k <= m * k
  BY <1>2, <1>3
<1>9. AtMost(Fraction(h, k), Fraction(m, k))
  BY <1>8 DEF AtMost, Fraction
<1>10. AtMost(Fraction(h, m), Fraction(1, 1)) /\ AtMost(Zero, Fraction(1, 1))
  BY <1>2, <1>3 DEF AtMost, Fraction, Zero
<1>11. (h * m) * k = h * (m * k)
  BY <1>2, <1>3
<1>12. Equal(Times(Fraction(h, m), Fraction(m, k)), Fraction(h, k))
  BY <1>11 DEF Equal, Times, Fraction
<1>13. Fraction(h, k).num = h
  BY DEF Fraction
<1>14. m = 0 => Equal(Times(Zero, Fraction(m, k)), Fraction(h, k))
  BY <1>3 DEF Equal, Times, Fraction, Zero
<1> QED
  BY <1>4, <1>5, <1>7, <1>9, <1>10, <1>12, <1>13, <1>14 DEF m

-----------------------------------------------------------------------------
(* The loop over the labels *)

\* Nothing is reported yet.
LEMMA InitIInv == Init => IInv
<1> SUFFICES ASSUME Init PROVE IInv
  OBVIOUS
<1>1. /\ k_values \in KValueSets /\ max_k \in MaxKs
      /\ label \in Nat \ {0} /\ row = NoRow
  BY DEF Init
<1>2. typo \in BOOLEAN
  BY DEF Init
<1> QED
  BY <1>1, <1>2 DEF IInv

\* A row is reported for the label at hand, and dropped when the loop goes on.
LEMMA NextIInv == IInv /\ [Next]_vars => IInv'
<1> SUFFICES ASSUME IInv, [Next]_vars PROVE IInv'
  OBVIOUS
<1>1. CASE Evaluate
  <2>1. label' = label /\ typo' = typo /\ label \in 1 .. Labels
    BY <1>1, RelevanceAssumption DEF Evaluate, IInv
  <2> QED
    BY <1>1, <2>1 DEF Evaluate, IInv, RowOf, Limited, TopK
<1>2. CASE Advance
  <2>1. typo' \in BOOLEAN /\ label' \in Nat \ {0}
    BY <1>2 DEF Advance, IInv
  <2> QED
    BY <1>2, <2>1 DEF Advance, IInv
<1>3. CASE UNCHANGED vars
  <2>1. /\ k_values' = k_values /\ max_k' = max_k /\ label' = label /\ typo' = typo
        /\ answer' = answer /\ row' = row
    BY <1>3 DEF vars
  <2>2. TopK' = TopK
    BY <2>1 DEF TopK
  <2>3. RowOf(Limited(answer), Relevant(label), typo)'
          = RowOf(Limited(answer), Relevant(label), typo)
    BY <2>1, <2>2 DEF RowOf, Limited
  <2> QED
    BY <2>1, <2>3 DEF IInv
<1> QED
  BY <1>1, <1>2, <1>3 DEF Next

\* In every reachable state a reported row is that of some ranking.
THEOREM RowsAreMeasured == Spec => []IInv
<1>1. Init => IInv
  BY InitIInv
<1>2. IInv /\ [Next]_vars => IInv'
  BY NextIInv
<1> QED
  BY <1>1, <1>2, PTL DEF Spec

\* What a reported row tells of the answer it was taken from.
LEMMA RowIs ==
  ASSUME IInv, row # NoRow, NEW k \in k_values
  PROVE  /\ answer \in Rankings /\ Limited(answer) \in Rankings
         /\ IsFiniteSet(Relevant(label))
         /\ k \in Nat
         /\ row.precision[k] = PrecisionAtK(Limited(answer), Relevant(label), k)
         /\ typo => row.recall[k] = RecallAtK(Limited(answer), Relevant(label), k)
         /\ row.rr = ReciprocalRank(Limited(answer), Relevant(label))
<1>1. /\ label \in 1 .. Labels /\ answer \in Answers(label)
      /\ row = RowOf(Limited(answer), Relevant(label), typo)
  BY DEF IInv
<1>2. answer \in Rankings /\ IsFiniteSet(Relevant(label))
  BY <1>1, RelevanceAssumption DEF Rankings
<1>3. Limited(answer) \in Rankings /\ k \in Nat
  BY <1>2, TopKBoundsK, LimitedRanking
<1>4. /\ row.precision = [j \in k_values |-> PrecisionAtK(Limited(answer), Relevant(label), j)]
      /\ row.recall = IF typo THEN [j \in k_values |->
                                      RecallAtK(Limited(answer), Relevant(label), j)]
                              ELSE <<>>
      /\ row.rr = ReciprocalRank(Limited(answer), Relevant(label))
  BY <1>1 DEF RowOf
<1> QED
  BY <1>2, <1>3, <1>4

\* Nothing but the cap separates precision@k from the recall of a typo, no row is
\* reported above the cap, and k = 0 is the only division by zero
\* (relevance.py:39-40, 55-59).
THEOREM CapExplainsPrecision == Spec => []OnlyTheCapIsMissing
<1>1. IInv => OnlyTheCapIsMissing
  <2> SUFFICES ASSUME IInv, row # NoRow, NEW k \in k_values
               PROVE  LET cap == Fraction(Lesser(k, Cardinality(Relevant(label))), k) IN
                      /\ k > 0 => AtMost(row.precision[k], cap)
                      /\ typo =>
                           /\ row.recall[k].den = 0 <=> k = 0 /\ Relevant(label) # {}
                           /\ k > 0 => /\ AtMost(row.recall[k], Fraction(1, 1))
                                       /\ Equal(Times(row.recall[k], cap), row.precision[k])
    BY DEF OnlyTheCapIsMissing
  <2> DEFINE r == Limited(answer)
             R == Relevant(label)
  <2>1. /\ r \in Rankings /\ IsFiniteSet(R) /\ k \in Nat
        /\ row.precision[k] = PrecisionAtK(r, R, k)
        /\ typo => row.recall[k] = RecallAtK(r, R, k)
    BY RowIs
  <2> HIDE DEF r
  <2>2. typo => (row.recall[k].den = 0 <=> k = 0 /\ R # {})
    BY <2>1, RecallDivides
  <2>3. CASE k = 0
    BY <2>2, <2>3
  <2>4. CASE k # 0
    <3>1. k \in Nat \ {0}
      BY <2>1, <2>4
    <3> QED
      BY <2>1, <2>2, <3>1, CappedMeasures
  <2> QED
    BY <2>3, <2>4
<1> QED
  BY <1>1, RowsAreMeasured, PTL

\* The reciprocal rank and the precision never disagree on where the first relevant
\* product is (relevance.py:39-52).
THEOREM MeasuresAgree == Spec => []RankAndPrecisionAgree
<1>1. IInv => RankAndPrecisionAgree
  <2> SUFFICES ASSUME IInv, row # NoRow, NEW k \in k_values \ {0}
               PROVE  row.precision[k].num > 0 <=> AtMost(Fraction(1, k), row.rr)
    BY DEF RankAndPrecisionAgree
  <2> DEFINE r == Limited(answer)
             R == Relevant(label)
  <2>1. /\ r \in Rankings /\ IsFiniteSet(R) /\ k \in Nat \ {0}
        /\ row.precision[k] = PrecisionAtK(r, R, k)
        /\ row.rr = ReciprocalRank(r, R)
    BY RowIs
  <2> HIDE DEF r, R
  <2>2. row.precision[k].num > 0 <=> \E i \in Top(r, k) : r[i] \in R
    BY <2>1, CappedMeasures
  <2> QED
    BY <2>1, <2>2, ReciprocalRankIs
<1> QED
  BY <1>1, RowsAreMeasured, PTL

\* What cutting the search to top_k costs, for every k and every max_k: the relevant
\* results from place max_k + 1 to k, and nothing without a max_k (relevance.py:98-115).
THEOREM LimitHidesNoMore == Spec => []OnlyTheLimitHides
<1>1. IInv => OnlyTheLimitHides
  <2> SUFFICES ASSUME IInv, row # NoRow, NEW k \in k_values
               PROVE  /\ (max_k = 0 \/ k <= max_k) => Hidden(k) = {}
                      /\ LET lost == Cardinality(Hidden(k)) IN
                         /\ row.precision[k] =
                              Less(PrecisionAtK(answer, Relevant(label), k), lost)
                         /\ typo => row.recall[k] =
                              Less(RecallAtK(answer, Relevant(label), k), lost)
    BY DEF OnlyTheLimitHides
  <2>1. /\ TopK \in Nat /\ k \in Nat
        /\ (max_k = 0 \/ k <= max_k) => k <= TopK
    BY TopKBoundsK
  <2>2. (max_k = 0 \/ k <= max_k) => Hidden(k) = {}
    <3>1. \A i \in Top(answer, k) : i \in Nat /\ i <= k
      BY RowIs DEF Top, Rankings
    <3> QED
      BY <2>1, <3>1 DEF Hidden
  <2> QED
    BY <2>1, <2>2, RowIs, MeasuresLost DEF Hidden
<1> QED
  BY <1>1, RowsAreMeasured, PTL

-----------------------------------------------------------------------------
(* The numbers of the catalog's products (seed.py:202-266) *)

\* s is a sequence of n values.
Tuple(s, n) == s = [i \in 1 .. n |-> s[i]]

\* Where each of the sequences ends in the flattened one: off[i - 1] values come before
\* the i-th of them.
Offsets(seqs, n, off) ==
  /\ off \in [0 .. n -> Nat]
  /\ off[0] = 0
  /\ \A i \in 1 .. n : off[i] - off[i - 1] \in Nat /\ Tuple(seqs[i], off[i] - off[i - 1])

LEMMA OffsetsGrow ==
  ASSUME NEW seqs, NEW n \in Nat, NEW off, Offsets(seqs, n, off)
  PROVE  \A i, j \in 0 .. n : i <= j => off[i] <= off[j]
<1> DEFINE Bad(i) == {j \in i .. n : ~(off[i] <= off[j])}
<1> SUFFICES ASSUME NEW i \in 0 .. n PROVE Bad(i) = {}
  OBVIOUS
<1> SUFFICES ASSUME Bad(i) # {} PROVE FALSE
  OBVIOUS
<1>1. PICK j \in Bad(i) : \A x \in Bad(i) : j <= x
  <2>1. Bad(i) \subseteq Nat
    OBVIOUS
  <2> HIDE DEF Bad
  <2> QED
    BY <2>1, FirstPlace
<1>2. /\ j \in 1 .. n /\ j > i /\ j - 1 \in 0 .. n
      /\ off[i] \in Nat /\ off[j] \in Nat /\ off[j - 1] \in Nat
  BY <1>1 DEF Offsets
<1>3. off[i] <= off[j - 1]
  BY <1>1, <1>2
<1>4. off[j - 1] <= off[j]
  BY <1>2 DEF Offsets
<1> QED
  BY <1>1, <1>2, <1>3, <1>4

\* Every place in the flattened sequence belongs to exactly one of the sequences.
LEMMA PlaceIsInOne ==
  ASSUME NEW seqs, NEW n \in Nat, NEW off, Offsets(seqs, n, off),
         NEW p \in Nat, 0 < p, p <= off[n]
  PROVE  \E b \in 1 .. n : off[b - 1] < p /\ p <= off[b]
<1> DEFINE Beyond == {b \in 0 .. n : p <= off[b]}
<1>1. PICK b \in Beyond : \A x \in Beyond : b <= x
  <2>1. Beyond \subseteq Nat /\ n \in Beyond
    OBVIOUS
  <2> HIDE DEF Beyond
  <2> QED
    BY <2>1, FirstPlace
<1>2. b # 0
  BY <1>1 DEF Offsets
<1>3. b \in 1 .. n /\ b - 1 \in 0 .. n /\ b - 1 \notin Beyond
  BY <1>1, <1>2
<1> QED
  BY <1>1, <1>3 DEF Offsets

\* The flattened sequence has at place off[b - 1] + j what the b-th has at place j.
LEMMA FlattenIs ==
  ASSUME NEW n \in Nat \ {0}, NEW seqs, Tuple(seqs, n), NEW off, Offsets(seqs, n, off)
  PROVE  /\ Tuple(FlattenSeq(seqs), off[n])
         /\ \A b \in 1 .. n : \A j \in 1 .. off[b] - off[b - 1] :
              FlattenSeq(seqs)[off[b - 1] + j] = seqs[b][j]
<1> DEFINE T == UNION {{seqs[i][j] : j \in Nat} : i \in 1 .. n}
           Holder(p) == CHOOSE b \in 1 .. n : off[b - 1] < p /\ p <= off[b]
           Value(p) == seqs[Holder(p)][p - off[Holder(p) - 1]]
           f == [i \in 1 .. n |-> [p \in 1 .. off[i] |-> Value(p)]]
           Eq(g) == g = [i \in 1 .. n |-> IF i = 1 THEN seqs[i] ELSE g[i - 1] \o seqs[i]]
           flat == CHOOSE g : Eq(g)
<1> HIDE DEF T, Holder, Value, f, Eq, flat
<1>1. Len(seqs) = n
  BY DEF Tuple
<1>2. FlattenSeq(seqs) = flat[n]
  BY <1>1, Zenon DEF FlattenSeq, flat, Eq
<1>3. \A i \in 0 .. n : off[i] \in Nat
  BY DEF Offsets
<1>4. ASSUME NEW b \in 1 .. n, NEW p \in Nat, off[b - 1] < p, p <= off[b]
      PROVE  Holder(p) = b
  <2>1. \A x \in 1 .. n : off[x - 1] < p /\ p <= off[x] => x = b
    <3> SUFFICES ASSUME NEW x \in 1 .. n, off[x - 1] < p, p <= off[x] PROVE x = b
      OBVIOUS
    <3>1. /\ x \in 0 .. n /\ x - 1 \in 0 .. n /\ b \in 0 .. n /\ b - 1 \in 0 .. n
          /\ off[x] \in Nat /\ off[x - 1] \in Nat /\ off[b] \in Nat /\ off[b - 1] \in Nat
      BY <1>3
    <3>2. /\ x <= b - 1 => off[x] <= off[b - 1]
          /\ b <= x - 1 => off[b] <= off[x - 1]
      BY <3>1, OffsetsGrow
    <3> QED
      BY <1>4, <3>1, <3>2
  <2> QED
    BY <1>4, <2>1, Zenon DEF Holder
<1>5. ASSUME NEW b \in 1 .. n, NEW j \in 1 .. off[b] - off[b - 1]
      PROVE  /\ off[b - 1] + j \in 1 .. off[b]
             /\ Value(off[b - 1] + j) = seqs[b][j]
  <2>1. off[b - 1] + j \in Nat /\ off[b - 1] < off[b - 1] + j /\ off[b - 1] + j <= off[b]
    BY <1>3, <1>5
  <2>2. Holder(off[b - 1] + j) = b
    BY <1>4, <2>1
  <2>3. (off[b - 1] + j) - off[b - 1] = j
    BY <1>3, <1>5
  <2> QED
    BY <1>3, <2>1, <2>2, <2>3 DEF Value
<1>6. \A b \in 1 .. n : /\ seqs[b] \in Seq(T) /\ Len(seqs[b]) = off[b] - off[b - 1]
                        /\ DOMAIN seqs[b] = 1 .. off[b] - off[b - 1]
  <2> TAKE b \in 1 .. n
  <2>1. PICK m \in Nat : m = off[b] - off[b - 1]
    BY DEF Offsets
  <2>2. seqs[b] = [j \in 1 .. m |-> seqs[b][j]]
    BY <2>1 DEF Offsets, Tuple
  <2>3. \A j \in 1 .. m : seqs[b][j] \in T
    <3> TAKE j \in 1 .. m
    <3>1. j \in Nat
      BY <2>1
    <3> DEFINE values == {seqs[b][x] : x \in Nat}
    <3>2. values \in {{seqs[i][x] : x \in Nat} : i \in 1 .. n}
      OBVIOUS
    <3>3. seqs[b][j] \in values
      BY <3>1
    <3> HIDE DEF values
    <3> QED
      BY <3>2, <3>3, Zenon DEF T
  <2>4. seqs[b] \in [1 .. m -> T]
    BY <2>2, <2>3
  <2> QED
    BY <2>1, <2>4
<1>7. ASSUME NEW x \in 1 .. n, NEW p \in 1 .. off[x] PROVE Value(p) \in T
  <2>1. off[n] \in Nat /\ off[x] \in Nat /\ off[x] <= off[n]
    BY <1>3, OffsetsGrow
  <2>2. PICK b \in 1 .. n : off[b - 1] < p /\ p <= off[b]
    BY <1>7, <2>1, PlaceIsInOne
  <2>3. /\ p - off[b - 1] \in 1 .. off[b] - off[b - 1]
        /\ off[b - 1] + (p - off[b - 1]) = p
    BY <1>3, <1>7, <2>1, <2>2
  <2>4. Value(p) = seqs[b][p - off[b - 1]]
    BY <1>5, <2>3
  <2> QED
    BY <1>6, <2>3, <2>4
<1>8. ASSUME NEW x \in 1 .. n
      PROVE  /\ f[x] \in Seq(T) /\ Len(f[x]) = off[x]
             /\ \A p \in 1 .. off[x] : f[x][p] = Value(p)
  <2>1. f[x] = [p \in 1 .. off[x] |-> Value(p)]
    BY Zenon DEF f
  <2>2. f[x] \in [1 .. off[x] -> T]
    BY <1>7, <2>1
  <2> QED
    BY <1>3, <2>1, <2>2
<1>9. ASSUME NEW i \in 1 .. n
      PROVE  f[i] = IF i = 1 THEN seqs[i] ELSE f[i - 1] \o seqs[i]
  <2>1. ASSUME i = 1 PROVE f[i] = seqs[i]
    <3>1. off[0] = 0 /\ i - 1 = 0
      BY <2>1 DEF Offsets
    <3>2. ASSUME NEW j \in 1 .. off[i] PROVE seqs[i][j] = Value(j)
      <4>1. off[i - 1] + j = j /\ j \in 1 .. off[i] - off[i - 1]
        BY <1>3, <3>1
      <4> QED
        BY <1>5, <4>1
    <3>3. seqs[i] \in Seq(T) /\ Len(seqs[i]) = off[i]
      BY <1>3, <1>6, <3>1
    <3> QED
      BY <1>8, <3>2, <3>3
  <2>2. ASSUME i # 1 PROVE f[i] = f[i - 1] \o seqs[i]
    <3>1. /\ i - 1 \in 1 .. n /\ i - 1 \in 0 .. n /\ i \in 0 .. n
          /\ off[i] \in Nat /\ off[i - 1] \in Nat /\ off[i - 1] <= off[i]
      <4>1. i - 1 \in 1 .. n /\ i - 1 \in 0 .. n /\ i \in 0 .. n
        BY <2>2
      <4>2. off[i] - off[i - 1] \in Nat
        BY DEF Offsets
      <4> QED
        BY <1>3, <4>1, <4>2
    <3>2. /\ f[i - 1] \in Seq(T) /\ Len(f[i - 1]) = off[i - 1]
          /\ \A p \in 1 .. off[i - 1] : f[i - 1][p] = Value(p)
      BY <1>8, <3>1
    <3>3. seqs[i] \in Seq(T) /\ Len(seqs[i]) = off[i] - off[i - 1]
      BY <1>6
    <3>4. /\ f[i - 1] \o seqs[i] \in Seq(T)
          /\ Len(f[i - 1] \o seqs[i]) = off[i]
          /\ \A p \in 1 .. off[i - 1] : (f[i - 1] \o seqs[i])[p] = f[i - 1][p]
          /\ \A p \in 1 .. off[i] - off[i - 1] : (f[i - 1] \o seqs[i])[off[i - 1] + p] = seqs[i][p]
      <4>1. /\ f[i - 1] \o seqs[i] \in Seq(T)
            /\ Len(f[i - 1] \o seqs[i]) = Len(f[i - 1]) + Len(seqs[i])
            /\ \A p \in 1 .. Len(f[i - 1]) : (f[i - 1] \o seqs[i])[p] = f[i - 1][p]
            /\ \A p \in 1 .. Len(seqs[i]) :
                 (f[i - 1] \o seqs[i])[Len(f[i - 1]) + p] = seqs[i][p]
        <5> DEFINE u == f[i - 1]
                   v == seqs[i]
        <5>1. u \in Seq(T) /\ v \in Seq(T)
          BY <3>2, <3>3
        <5> HIDE DEF u, v
        <5>2. /\ u \o v \in Seq(T) /\ Len(u \o v) = Len(u) + Len(v)
              /\ \A p \in 1 .. Len(u) : (u \o v)[p] = u[p]
              /\ \A p \in 1 .. Len(v) : (u \o v)[Len(u) + p] = v[p]
          BY <5>1
        <5> QED
          BY <5>2, Zenon DEF u, v
      <4>2. off[i - 1] + (off[i] - off[i - 1]) = off[i]
        BY <3>1
      <4> QED
        BY <3>2, <3>3, <4>1, <4>2, Zenon
    <3>5. ASSUME NEW p \in 1 .. off[i] PROVE (f[i - 1] \o seqs[i])[p] = Value(p)
      <4>1. CASE p <= off[i - 1]
        <5>1. p \in 1 .. off[i - 1]
          BY <3>1, <4>1
        <5> QED
          BY <3>2, <3>4, <5>1, Zenon
      <4>2. CASE p > off[i - 1]
        <5>1. /\ p - off[i - 1] \in 1 .. off[i] - off[i - 1]
              /\ off[i - 1] + (p - off[i - 1]) = p
          BY <3>1, <4>2
        <5>2. Value(p) = seqs[i][p - off[i - 1]]
          BY <1>5, <5>1, Zenon
        <5>3. (f[i - 1] \o seqs[i])[off[i - 1] + (p - off[i - 1])] = seqs[i][p - off[i - 1]]
          BY <3>4, <5>1, Zenon
        <5> QED
          BY <5>1, <5>2, <5>3, Zenon
      <4>3. p <= off[i - 1] \/ p > off[i - 1]
        BY <3>1
      <4> QED
        BY <4>1, <4>2, <4>3, Zenon
    <3>6. f[i] \in Seq(T) /\ Len(f[i]) = off[i] /\ \A p \in 1 .. off[i] : f[i][p] = Value(p)
      BY <1>8
    <3> DEFINE g == f[i]
               h == f[i - 1] \o seqs[i]
    <3>7. /\ g \in Seq(T) /\ h \in Seq(T) /\ Len(g) = off[i] /\ Len(h) = off[i]
          /\ \A p \in 1 .. off[i] : g[p] = h[p]
      BY <3>4, <3>5, <3>6
    <3> HIDE DEF g, h
    <3>8. g = h
      BY <3>1, <3>7
    <3> QED
      BY <3>8, Zenon DEF g, h
  <2> QED
    BY <2>1, <2>2
<1>10. Eq(f)
  <2>1. f = [i \in 1 .. n |-> f[i]]
    BY Zenon DEF f
  <2> QED
    BY <1>9, <2>1 DEF Eq
<1>11. Eq(flat)
  BY <1>10, Zenon DEF flat
<1>12. ASSUME NEW i \in 1 .. n
       PROVE  flat[i] = IF i = 1 THEN seqs[i] ELSE flat[i - 1] \o seqs[i]
  BY <1>11, Zenon DEF Eq
<1>13. \A i \in 1 .. n : flat[i] = f[i]
  <2> DEFINE Bad == {i \in 1 .. n : flat[i] # f[i]}
  <2> SUFFICES ASSUME Bad # {} PROVE FALSE
    OBVIOUS
  <2>1. PICK i \in Bad : \A x \in Bad : i <= x
    <3>1. Bad \subseteq Nat
      OBVIOUS
    <3> HIDE DEF Bad
    <3> QED
      BY <3>1, FirstPlace
  <2>2. i # 1 => i - 1 \in 1 .. n /\ flat[i - 1] = f[i - 1]
    BY <2>1
  <2>3. flat[i] = f[i]
    BY <1>9, <1>12, <2>2
  <2> QED
    BY <2>3
<1>14. FlattenSeq(seqs) = f[n]
  BY <1>2, <1>13
<1>15. ASSUME NEW b \in 1 .. n, NEW j \in 1 .. off[b] - off[b - 1]
       PROVE  FlattenSeq(seqs)[off[b - 1] + j] = seqs[b][j]
  <2>1. off[n] \in Nat /\ off[b] \in Nat /\ off[b] <= off[n]
    BY <1>3, OffsetsGrow
  <2>2. off[b - 1] + j \in 1 .. off[n]
    BY <1>5, <2>1
  <2> QED
    BY <1>5, <1>8, <1>14, <2>2
<1>16. Tuple(FlattenSeq(seqs), off[n])
  <2>1. n \in 1 .. n
    OBVIOUS
  <2>2. f[n] = [p \in 1 .. off[n] |-> Value(p)]
    BY <2>1, Zenon DEF f
  <2> QED
    BY <1>14, <2>2, Zenon DEF Tuple
<1> QED
  BY <1>15, <1>16

\* n sequences of m values each.
LEMMA BlocksOf ==
  ASSUME NEW n \in Nat \ {0}, NEW m \in Nat, NEW seqs, Tuple(seqs, n),
         \A i \in 1 .. n : Tuple(seqs[i], m)
  PROVE  /\ Tuple(FlattenSeq(seqs), n * m)
         /\ \A i \in 1 .. n : \A j \in 1 .. m : FlattenSeq(seqs)[(i - 1) * m + j] = seqs[i][j]
<1> DEFINE off == [i \in 0 .. n |-> i * m]
<1>1. \A i \in 0 .. n : off[i] = i * m /\ i * m \in Nat
  OBVIOUS
<1>2. \A i \in 1 .. n : i * m - (i - 1) * m = m
  <2> TAKE i \in 1 .. n
  <2>1. PICK x \in Nat : i = x + 1
    <3>1. i - 1 \in Nat /\ i = (i - 1) + 1
      OBVIOUS
    <3> QED
      BY <3>1
  <2>2. (x + 1) * m = x * m + m /\ x * m \in Nat
    OBVIOUS
  <2>3. i - 1 = x
    BY <2>1
  <2> QED
    BY <2>1, <2>2, <2>3
<1>3. \A i \in 1 .. n : off[i] - off[i - 1] = m
  BY <1>2
<1>4. off \in [0 .. n -> Nat] /\ off[0] = 0
  BY <1>1
<1> HIDE DEF off
<1>5. Offsets(seqs, n, off)
  BY <1>3, <1>4 DEF Offsets
<1>6. /\ Tuple(FlattenSeq(seqs), off[n])
      /\ \A b \in 1 .. n : \A j \in 1 .. off[b] - off[b - 1] :
           FlattenSeq(seqs)[off[b - 1] + j] = seqs[b][j]
  BY <1>5, FlattenIs
<1>7. off[n] = n * m /\ \A b \in 1 .. n : off[b - 1] = (b - 1) * m
  BY <1>1
<1> QED
  BY <1>3, <1>6, <1>7

\* One more axis.
Widened(combos, axis) ==
  FlatMapped(combos, LAMBDA c : Mapped(axis[2], LAMBDA v : (axis[1] :> v) @@ c))

LEMMA WidenedIs ==
  ASSUME NEW n \in Nat \ {0}, NEW m \in Nat, NEW combos, Tuple(combos, n),
         NEW axis, Tuple(axis[2], m)
  PROVE  Tuple(Widened(combos, axis), n * m)
<1> DEFINE made(c) == Mapped(axis[2], LAMBDA v : (axis[1] :> v) @@ c)
           seqs == Mapped(combos, made)
<1>1. Widened(combos, axis) = FlattenSeq(seqs)
  BY Zenon DEF Widened, FlatMapped
<1>2. DOMAIN axis[2] = 1 .. m /\ DOMAIN combos = 1 .. n
  BY DEF Tuple
<1>3. ASSUME NEW c PROVE Tuple(made(c), m)
  BY <1>2 DEF Mapped, Tuple
<1> HIDE DEF made
<1>4. seqs = [i \in 1 .. n |-> made(combos[i])]
  BY <1>2 DEF Mapped
<1>5. Tuple(seqs, n) /\ \A i \in 1 .. n : Tuple(seqs[i], m)
  BY <1>3, <1>4 DEF Tuple
<1> HIDE DEF seqs
<1> QED
  BY <1>1, <1>5, BlocksOf

\* The last of some places.
LEMMA LastPlace ==
  ASSUME NEW n \in Nat, NEW s \in SUBSET (1 .. n), s # {}
  PROVE  Max(s) \in s /\ \A x \in s : x <= Max(s)
<1> DEFINE T == {n - x : x \in s}
<1>1. PICK i \in T : \A j \in T : i <= j
  <2>1. \A x \in s : n - x \in Nat
    OBVIOUS
  <2>2. T \subseteq Nat
    BY <2>1
  <2>3. T # {}
    OBVIOUS
  <2> HIDE DEF T
  <2> QED
    BY <2>2, <2>3, FirstPlace
<1>2. PICK x \in s : i = n - x
  BY <1>1
<1>3. \A y \in s : x >= y
  <2> TAKE y \in s
  <2>1. n - x <= n - y
    BY <1>1, <1>2
  <2> QED
    BY <2>1
<1>4. Max(s) \in s /\ \A y \in s : Max(s) >= y
  BY <1>3, Zenon DEF Max
<1> QED
  BY <1>4

\* The combinations of no axis, and of the axes at the places s.
Combos(attrs, g, s) ==
  IF s = {} THEN << <<>> >> ELSE Widened(g[s \ {Max(s)}], attrs[Max(s)])

\* The fold over the axes is well-founded: there is a function as it describes.
LEMMA CombosExist ==
  ASSUME NEW n \in Nat, NEW attrs
  PROVE  \E g : g = [s \in SUBSET (1 .. n) |-> Combos(attrs, g, s)]
<1> DEFINE D == SUBSET (1 .. n)
           Rest(s) == s \ {Max(s)}
           UpTo(g, k) == \A s \in D : Cardinality(s) <= k => g[s] = Combos(attrs, g, s)
           Bad == {k \in Nat : ~ \E g : UpTo(g, k)}
<1>1. \A s \in D : /\ IsFiniteSet(s) /\ Cardinality(s) \in Nat /\ Cardinality(s) <= n
  <2>1. IsFiniteSet(1 .. n) /\ Cardinality(1 .. n) = n
    BY FS_Interval
  <2> QED
    BY <2>1, FS_Subset, FS_CardinalityType
<1>2. ASSUME NEW s \in D, s # {}
      PROVE  Rest(s) \in D /\ Cardinality(Rest(s)) = Cardinality(s) - 1
  <2>1. Max(s) \in s
    BY <1>2, LastPlace
  <2> QED
    BY <1>1, <2>1, FS_RemoveElement
<1>3. ASSUME NEW g, NEW h, NEW s \in D, s # {} => h[Rest(s)] = g[Rest(s)]
      PROVE  Combos(attrs, h, s) = Combos(attrs, g, s)
  BY <1>3, Zenon DEF Combos
<1> HIDE DEF D, Rest
<1>4. 0 \notin Bad
  <2> DEFINE g == [s \in D |-> << <<>> >>]
  <2>1. ASSUME NEW s \in D, Cardinality(s) <= 0 PROVE g[s] = Combos(attrs, g, s)
    <3>1. s = {}
      BY <1>1, <2>1, FS_EmptySet
    <3> QED
      BY <3>1, Zenon DEF Combos
  <2> QED
    BY <2>1
<1>5. ASSUME NEW k \in Nat, k \notin Bad
      PROVE  k + 1 \notin Bad
  <2>1. PICK g : UpTo(g, k)
    BY <1>5
  <2> DEFINE h == [s \in D |-> Combos(attrs, g, s)]
  <2>2. \A s \in D : h[s] = Combos(attrs, g, s)
    OBVIOUS
  <2> HIDE DEF h
  <2>3. ASSUME NEW s \in D, Cardinality(s) <= k + 1
        PROVE  h[s] = Combos(attrs, h, s)
    <3>1. s # {} => Rest(s) \in D /\ Cardinality(Rest(s)) <= k
      BY <1>1, <1>2, <2>3
    <3>2. s # {} => h[Rest(s)] = g[Rest(s)]
      BY <2>1, <2>2, <3>1
    <3> QED
      BY <1>3, <2>2, <3>2
  <2> QED
    BY <2>3
<1>6. Bad = {}
  <2> SUFFICES ASSUME Bad # {} PROVE FALSE
    OBVIOUS
  <2>1. Bad \subseteq Nat
    OBVIOUS
  <2> HIDE DEF Bad
  <2>2. PICK i \in Bad : \A j \in Bad : i <= j
    BY <2>1, FirstPlace
  <2>3. i \in Nat /\ i # 0
    BY <1>4, <2>1
  <2>4. i - 1 \in Nat /\ i - 1 \notin Bad
    BY <2>2, <2>3
  <2>5. (i - 1) + 1 \notin Bad
    BY <1>5, <2>4
  <2> QED
    BY <2>3, <2>5
<1>7. PICK g : UpTo(g, n)
  BY <1>6
<1>8. \A s \in D : g[s] = Combos(attrs, g, s)
  BY <1>1, <1>7
<1> DEFINE h == [s \in D |-> Combos(attrs, g, s)]
<1>9. \A s \in D : h[s] = g[s]
  BY <1>8
<1>10. \A s \in D : Combos(attrs, g, s) = Combos(attrs, h, s)
  <2> HIDE DEF h
  <2>1. \A s \in D : s # {} => g[Rest(s)] = h[Rest(s)]
    BY <1>2, <1>9
  <2> QED
    BY <1>3, <2>1
<1>11. h = [s \in D |-> Combos(attrs, h, s)]
  BY <1>10
<1> HIDE DEF h
<1> QED
  BY <1>11 DEF D

\* sizes[i] is the number of combinations of the first i axes.
Widths(attrs, n, sizes) ==
  /\ sizes \in [0 .. n -> Nat \ {0}]
  /\ sizes[0] = 1
  /\ \A i \in 1 .. n : \E m \in Nat :
       Tuple(attrs[i][2], m) /\ sizes[i] = sizes[i - 1] * m

\* There are as many combinations as the axes' sizes multiplied (seed.py:202-207).
LEMMA CombosAre ==
  ASSUME NEW n \in Nat, NEW attrs, Tuple(attrs, n), NEW sizes, Widths(attrs, n, sizes)
  PROVE  Tuple(IterAttrCombos(attrs), sizes[n])
<1> DEFINE Eq(g) == g = [s \in SUBSET (1 .. n) |-> Combos(attrs, g, s)]
           iter == CHOOSE g : Eq(g)
<1>1. IterAttrCombos(attrs) = iter[1 .. n]
  <2>1. DOMAIN attrs = 1 .. n
    BY DEF Tuple
  <2> QED
    BY <2>1, Zenon DEF IterAttrCombos, FoldLeft, MapThenFoldSet, Combos, Widened
<1>2. Eq(iter)
  <2>1. \E g : Eq(g)
    BY CombosExist, Zenon
  <2> HIDE DEF Eq
  <2> QED
    BY <2>1, Zenon
<1>3. \A s \in SUBSET (1 .. n) : iter[s] = Combos(attrs, iter, s)
  <2> HIDE DEF iter
  <2> QED
    BY <1>2, Zenon
<1> HIDE DEF iter, Eq
<1> DEFINE Bad == {k \in 0 .. n : ~Tuple(iter[1 .. k], sizes[k])}
<1>4. 0 \notin Bad
  <2>1. iter[{}] = << <<>> >>
    BY <1>3, Zenon DEF Combos
  <2>2. Tuple(<< <<>> >>, 1)
    BY DEF Tuple
  <2> QED
    BY <2>1, <2>2, 1 .. 0 = {} DEF Widths
<1>5. ASSUME NEW k \in 1 .. n, k - 1 \notin Bad
      PROVE  k \notin Bad
  <2>1. 1 .. k # {} /\ 1 .. k \in SUBSET (1 .. n) /\ Max(1 .. k) = k
    <3>1. 1 .. k # {} /\ 1 .. k \in SUBSET (1 .. n) /\ k \in 1 .. k
      OBVIOUS
    <3>2. Max(1 .. k) \in 1 .. k /\ \A x \in 1 .. k : x <= Max(1 .. k)
      BY <3>1, LastPlace
    <3>3. k <= Max(1 .. k) /\ Max(1 .. k) <= k /\ Max(1 .. k) \in Nat
      BY <3>1, <3>2
    <3> QED
      BY <3>1, <3>3
  <2>2. (1 .. k) \ {k} = 1 .. (k - 1)
    OBVIOUS
  <2>3. iter[1 .. k] = Widened(iter[1 .. (k - 1)], attrs[k])
    BY <1>3, <2>1, <2>2, Zenon DEF Combos
  <2>4. PICK m \in Nat : Tuple(attrs[k][2], m) /\ sizes[k] = sizes[k - 1] * m
    BY DEF Widths
  <2>5. Tuple(iter[1 .. (k - 1)], sizes[k - 1]) /\ sizes[k - 1] \in Nat \ {0}
    BY <1>5 DEF Widths
  <2>6. Tuple(iter[1 .. k], sizes[k])
    BY <2>3, <2>4, <2>5, WidenedIs, Zenon
  <2> QED
    BY <2>6
<1>6. Bad = {}
  <2> SUFFICES ASSUME Bad # {} PROVE FALSE
    OBVIOUS
  <2>1. Bad \subseteq Nat /\ \A k \in Bad : k \in 0 .. n
    OBVIOUS
  <2> HIDE DEF Bad
  <2>2. PICK i \in Bad : \A j \in Bad : i <= j
    BY <2>1, FirstPlace
  <2>3. i \in 1 .. n /\ i - 1 \notin Bad
    BY <1>4, <2>1, <2>2
  <2> QED
    BY <1>5, <2>3
<1> QED
  BY <1>1, <1>6

\* The combinations of one, two and three axes.
LEMMA OneAxis ==
  ASSUME NEW attrs, Tuple(attrs, 1), NEW a \in Nat \ {0}, Tuple(attrs[1][2], a)
  PROVE  Tuple(IterAttrCombos(attrs), a)
<1> DEFINE sizes == [i \in 0 .. 1 |-> IF i = 0 THEN 1 ELSE a]
<1>1. Widths(attrs, 1, sizes)
  BY DEF Widths
<1>2. sizes[1] = a
  OBVIOUS
<1> HIDE DEF sizes
<1> QED
  BY <1>1, <1>2, CombosAre

LEMMA TwoAxes ==
  ASSUME NEW attrs, Tuple(attrs, 2),
         NEW a \in Nat \ {0}, Tuple(attrs[1][2], a),
         NEW b \in Nat \ {0}, Tuple(attrs[2][2], b)
  PROVE  Tuple(IterAttrCombos(attrs), a * b)
<1> DEFINE sizes == [i \in 0 .. 2 |-> IF i = 0 THEN 1 ELSE IF i = 1 THEN a ELSE a * b]
<1>1. a * b \in Nat \ {0}
  OBVIOUS
<1>2. sizes \in [0 .. 2 -> Nat \ {0}] /\ sizes[0] = 1 /\ sizes[1] = a /\ sizes[2] = a * b
  BY <1>1
<1> HIDE DEF sizes
<1>3. Widths(attrs, 2, sizes)
  <2>1. ASSUME NEW i \in 1 .. 2
        PROVE  \E m \in Nat : Tuple(attrs[i][2], m) /\ sizes[i] = sizes[i - 1] * m
    <3>1. CASE i = 1
      BY <1>2, <3>1
    <3>2. CASE i = 2
      BY <1>2, <3>2
    <3> QED
      BY <3>1, <3>2
  <2> QED
    BY <1>2, <2>1 DEF Widths
<1> QED
  BY <1>2, <1>3, CombosAre

LEMMA ThreeAxes ==
  ASSUME NEW attrs, Tuple(attrs, 3),
         NEW a \in Nat \ {0}, Tuple(attrs[1][2], a),
         NEW b \in Nat \ {0}, Tuple(attrs[2][2], b),
         NEW c \in Nat \ {0}, Tuple(attrs[3][2], c)
  PROVE  Tuple(IterAttrCombos(attrs), a * b * c)
<1> DEFINE sizes == [i \in 0 .. 3 |-> IF i = 0 THEN 1 ELSE IF i = 1 THEN a
                                      ELSE IF i = 2 THEN a * b ELSE a * b * c]
<1>1. a * b \in Nat \ {0} /\ a * b * c \in Nat \ {0}
  <2>1. a * b \in Nat \ {0}
    OBVIOUS
  <2>2. \A x \in Nat \ {0} : x * c \in Nat \ {0}
    OBVIOUS
  <2> QED
    BY <2>1, <2>2
<1>2. /\ sizes \in [0 .. 3 -> Nat \ {0}]
      /\ sizes[0] = 1 /\ sizes[1] = a /\ sizes[2] = a * b /\ sizes[3] = a * b * c
  BY <1>1
<1> HIDE DEF sizes
<1>3. Widths(attrs, 3, sizes)
  <2>1. ASSUME NEW i \in 1 .. 3
        PROVE  \E m \in Nat : Tuple(attrs[i][2], m) /\ sizes[i] = sizes[i - 1] * m
    <3>1. CASE i = 1
      BY <1>2, <3>1
    <3>2. CASE i = 2
      BY <1>2, <3>2
    <3>3. CASE i = 3
      BY <1>2, <3>3
    <3> QED
      BY <3>1, <3>2, <3>3
  <2> QED
    BY <1>2, <2>1 DEF Widths
<1> QED
  BY <1>2, <1>3, CombosAre

\* s is written down as n values.
Literal(s, n) ==
  \/ n = 1 /\ \E a : s = <<a>>
  \/ n = 2 /\ \E a, b : s = <<a, b>>
  \/ n = 3 /\ \E a, b, c : s = <<a, b, c>>
  \/ n = 4 /\ \E a, b, c, d : s = <<a, b, c, d>>
  \/ n = 5 /\ \E a, b, c, d, e : s = <<a, b, c, d, e>>
  \/ n = 6 /\ \E a, b, c, d, e, f : s = <<a, b, c, d, e, f>>

LEMMA LiteralIs ==
  ASSUME NEW s, NEW n, Literal(s, n)
  PROVE  n \in Nat \ {0} /\ Tuple(s, n)
<1>1. \A a : Tuple(<<a>>, 1)
  BY DEF Tuple
<1>2. \A a, b : Tuple(<<a, b>>, 2)
  BY DEF Tuple
<1>3. \A a, b, c : Tuple(<<a, b, c>>, 3)
  BY DEF Tuple
<1>4. \A a, b, c, d : Tuple(<<a, b, c, d>>, 4)
  BY DEF Tuple
<1>5. \A a, b, c, d, e : Tuple(<<a, b, c, d, e>>, 5)
  BY DEF Tuple
<1>6. \A a, b, c, d, e, f : Tuple(<<a, b, c, d, e, f>>, 6)
  BY DEF Tuple
<1>7. n \in Nat \ {0}
  BY DEF Literal
<1> QED
  BY <1>1, <1>2, <1>3, <1>4, <1>5, <1>6, <1>7, Zenon DEF Literal

\* A row of the table with nb brands and nm materials, and one, two or three axes.
Row(spec, nb, nm) == Literal(spec.brands, nb) /\ Literal(spec.materials, nm)
Row1(spec, nb, nm, a) ==
  Row(spec, nb, nm) /\ Literal(spec.attrs, 1) /\ Literal(spec.attrs[1][2], a)
Row2(spec, nb, nm, a, b) ==
  /\ Row(spec, nb, nm) /\ Literal(spec.attrs, 2)
  /\ Literal(spec.attrs[1][2], a) /\ Literal(spec.attrs[2][2], b)
Row3(spec, nb, nm, a, b, c) ==
  /\ Row(spec, nb, nm) /\ Literal(spec.attrs, 3)
  /\ Literal(spec.attrs[1][2], a) /\ Literal(spec.attrs[2][2], b)
  /\ Literal(spec.attrs[3][2], c)

\* nc combinations for each of nm materials of each of nb brands.
Shape(spec, nb, nm, nc) ==
  /\ nb \in Nat \ {0} /\ Tuple(spec.brands, nb)
  /\ nm \in Nat \ {0} /\ Tuple(spec.materials, nm)
  /\ nc \in Nat \ {0} /\ Tuple(IterAttrCombos(spec.attrs), nc)

LEMMA RowsAre ==
  /\ \A spec, nb, nm, a : Row1(spec, nb, nm, a) => Shape(spec, nb, nm, a)
  /\ \A spec, nb, nm, a, b : Row2(spec, nb, nm, a, b) => Shape(spec, nb, nm, a * b)
  /\ \A spec, nb, nm, a, b, c :
       Row3(spec, nb, nm, a, b, c) => Shape(spec, nb, nm, a * b * c)
<1>1. ASSUME NEW spec, NEW nb, NEW nm, NEW a, Row1(spec, nb, nm, a)
      PROVE  Shape(spec, nb, nm, a)
  BY <1>1, LiteralIs, OneAxis, Zenon DEF Row1, Row, Shape
<1>2. ASSUME NEW spec, NEW nb, NEW nm, NEW a, NEW b, Row2(spec, nb, nm, a, b)
      PROVE  Shape(spec, nb, nm, a * b)
  <2>1. a \in Nat \ {0} /\ b \in Nat \ {0}
    BY <1>2, LiteralIs, Zenon DEF Row2
  <2>2. a * b \in Nat \ {0}
    BY <2>1
  <2> QED
    BY <1>2, <2>1, <2>2, LiteralIs, TwoAxes, Zenon DEF Row2, Row, Shape
<1>3. ASSUME NEW spec, NEW nb, NEW nm, NEW a, NEW b, NEW c, Row3(spec, nb, nm, a, b, c)
      PROVE  Shape(spec, nb, nm, a * b * c)
  <2>1. a \in Nat \ {0} /\ b \in Nat \ {0} /\ c \in Nat \ {0}
    BY <1>3, LiteralIs, Zenon DEF Row3
  <2>2. \A x, y \in Nat \ {0} : x * y \in Nat \ {0}
    OBVIOUS
  <2>3. a * b * c \in Nat \ {0}
    BY <2>1, <2>2, Zenon
  <2> QED
    BY <1>3, <2>1, <2>3, LiteralIs, ThreeAxes, Zenon DEF Row3, Row, Shape
<1> QED
  BY <1>1, <1>2, <1>3, Zenon

\* How many brands, materials and combinations the families have (seed.py:66-199).
LEMMA ShapesAre ==
  /\ Shape(SUBTYPE_SPECS[1], 4, 3, 6 * 3)
  /\ Shape(SUBTYPE_SPECS[2], 3, 2, 5 * 3)
  /\ Shape(SUBTYPE_SPECS[3], 3, 3, 6)
  /\ Shape(SUBTYPE_SPECS[4], 3, 2, 5)
  /\ Shape(SUBTYPE_SPECS[5], 3, 1, 3 * 4 * 3)
  /\ Shape(SUBTYPE_SPECS[6], 3, 1, 3 * 3)
  /\ Shape(SUBTYPE_SPECS[7], 3, 1, 2 * 4)
  /\ Shape(SUBTYPE_SPECS[8], 3, 1, 3 * 1)
  /\ Shape(SUBTYPE_SPECS[9], 3, 3, 4)
  /\ Shape(SUBTYPE_SPECS[10], 2, 1, 3 * 2)
  /\ Shape(SUBTYPE_SPECS[11], 3, 1, 3 * 4)
  /\ Shape(SUBTYPE_SPECS[12], 2, 1, 3)
  /\ Shape(SUBTYPE_SPECS[13], 2, 1, 4)
  /\ Shape(SUBTYPE_SPECS[14], 3, 1, 4)
  /\ Shape(SUBTYPE_SPECS[15], 3, 1, 4)
  /\ Shape(SUBTYPE_SPECS[16], 2, 1, 3)
  /\ Shape(SUBTYPE_SPECS[17], 3, 1, 4 * 3)
  /\ Shape(SUBTYPE_SPECS[18], 2, 1, 3 * 2)
  /\ Shape(SUBTYPE_SPECS[19], 2, 1, 3 * 2 * 2)
  /\ Shape(SUBTYPE_SPECS[20], 2, 1, 3)
  /\ Shape(SUBTYPE_SPECS[21], 2, 2, 3)
  /\ Shape(SUBTYPE_SPECS[22], 3, 3, 3)
  /\ Shape(SUBTYPE_SPECS[23], 2, 3, 3 * 2)
<1>1. Row2(SUBTYPE_SPECS[1], 4, 3, 6, 3)
  BY Zenon DEF Row2, Row, Literal, SUBTYPE_SPECS, Family
<1>2. Row2(SUBTYPE_SPECS[2], 3, 2, 5, 3)
  BY Zenon DEF Row2, Row, Literal, SUBTYPE_SPECS, Family
<1>3. Row1(SUBTYPE_SPECS[3], 3, 3, 6)
  BY Zenon DEF Row1, Row, Literal, SUBTYPE_SPECS, Family
<1>4. Row1(SUBTYPE_SPECS[4], 3, 2, 5)
  BY Zenon DEF Row1, Row, Literal, SUBTYPE_SPECS, Family
<1>5. Row3(SUBTYPE_SPECS[5], 3, 1, 3, 4, 3)
  BY Zenon DEF Row3, Row, Literal, SUBTYPE_SPECS, Family
<1>6. Row2(SUBTYPE_SPECS[6], 3, 1, 3, 3)
  BY Zenon DEF Row2, Row, Literal, SUBTYPE_SPECS, Family
<1>7. Row2(SUBTYPE_SPECS[7], 3, 1, 2, 4)
  BY Zenon DEF Row2, Row, Literal, SUBTYPE_SPECS, Family
<1>8. Row2(SUBTYPE_SPECS[8], 3, 1, 3, 1)
  BY Zenon DEF Row2, Row, Literal, SUBTYPE_SPECS, Family
<1>9. Row1(SUBTYPE_SPECS[9], 3, 3, 4)
  BY Zenon DEF Row1, Row, Literal, SUBTYPE_SPECS, Family
<1>10. Row2(SUBTYPE_SPECS[10], 2, 1, 3, 2)
  BY Zenon DEF Row2, Row, Literal, SUBTYPE_SPECS, Family
<1>11. Row2(SUBTYPE_SPECS[11], 3, 1, 3, 4)
  BY Zenon DEF Row2, Row, Literal, SUBTYPE_SPECS, Family
<1>12. Row1(SUBTYPE_SPECS[12], 2, 1, 3)
  BY Zenon DEF Row1, Row, Literal, SUBTYPE_SPECS, Family
<1>13. Row1(SUBTYPE_SPECS[13], 2, 1, 4)
  BY Zenon DEF Row1, Row, Literal, SUBTYPE_SPECS, Family
<1>14. Row1(SUBTYPE_SPECS[14], 3, 1, 4)
  BY Zenon DEF Row1, Row, Literal, SUBTYPE_SPECS, Family
<1>15. Row1(SUBTYPE_SPECS[15], 3, 1, 4)
  BY Zenon DEF Row1, Row, Literal, SUBTYPE_SPECS, Family
<1>16. Row1(SUBTYPE_SPECS[16], 2, 1, 3)
  BY Zenon DEF Row1, Row, Literal, SUBTYPE_SPECS, Family
<1>17. Row2(SUBTYPE_SPECS[17], 3, 1, 4, 3)
  BY Zenon DEF Row2, Row, Literal, SUBTYPE_SPECS, Family
<1>18. Row2(SUBTYPE_SPECS[18], 2, 1, 3, 2)
  BY Zenon DEF Row2, Row, Literal, SUBTYPE_SPECS, Family
<1>19. Row3(SUBTYPE_SPECS[19], 2, 1, 3, 2, 2)
  BY Zenon DEF Row3, Row, Literal, SUBTYPE_SPECS, Family
<1>20. Row1(SUBTYPE_SPECS[20], 2, 1, 3)
  BY Zenon DEF Row1, Row, Literal, SUBTYPE_SPECS, Family
<1>21. Row1(SUBTYPE_SPECS[21], 2, 2, 3)
  BY Zenon DEF Row1, Row, Literal, SUBTYPE_SPECS, Family
<1>22. Row1(SUBTYPE_SPECS[22], 3, 3, 3)
  BY Zenon DEF Row1, Row, Literal, SUBTYPE_SPECS, Family
<1>23. Row2(SUBTYPE_SPECS[23], 2, 3, 3, 2)
  BY Zenon DEF Row2, Row, Literal, SUBTYPE_SPECS, Family
<1> QED
  BY <1>1, <1>2, <1>3, <1>4, <1>5, <1>6, <1>7, <1>8, <1>9, <1>10, <1>11, <1>12,
     <1>13, <1>14, <1>15, <1>16, <1>17, <1>18, <1>19, <1>20, <1>21, <1>22, <1>23,
     RowsAre, Zenon

\* The products of a family: brand after brand.
LEMMA FamilyIs ==
  ASSUME NEW spec, NEW nb, NEW nm, NEW nc, Shape(spec, nb, nm, nc)
  PROVE  /\ Tuple(ProductsOfSpec(spec), nb * (nm * nc))
         /\ \A b \in 1 .. nb : \A c \in 1 .. nc :
              /\ ProductsOfSpec(spec)[(b - 1) * (nm * nc) + c].brand = spec.brands[b]
              /\ ProductsOfSpec(spec)[(b - 1) * (nm * nc) + c].subtype = spec.subtype
<1> DEFINE combos == IterAttrCombos(spec.attrs)
           Product(brand, material, combo) ==
             [brand |-> brand, category |-> spec.category, subtype |-> spec.subtype,
              material |-> material, attributes |-> combo]
           Some(brand, material) == Mapped(combos, LAMBDA combo : Product(brand, material, combo))
           More(brand) == Mapped(spec.materials, LAMBDA material : Some(brand, material))
           All == Mapped(spec.brands, LAMBDA brand : FlattenSeq(More(brand)))
<1>1. ProductsOfSpec(spec) = FlattenSeq(All)
  BY Zenon DEF ProductsOfSpec, FlatMapped
<1>2. /\ DOMAIN spec.brands = 1 .. nb /\ DOMAIN spec.materials = 1 .. nm
      /\ DOMAIN combos = 1 .. nc
      /\ nb \in Nat \ {0} /\ nm \in Nat \ {0} /\ nc \in Nat \ {0}
  BY DEF Shape, Tuple
<1> HIDE DEF combos
<1> HIDE DEF All
<1>3. ASSUME NEW brand, NEW material
      PROVE  /\ Some(brand, material) = [c \in 1 .. nc |-> Product(brand, material, combos[c])]
             /\ Tuple(Some(brand, material), nc)
  BY <1>2 DEF Mapped, Tuple
<1>4. ASSUME NEW brand, NEW material, NEW combo
      PROVE  /\ Product(brand, material, combo).brand = brand
             /\ Product(brand, material, combo).subtype = spec.subtype
  OBVIOUS
<1> HIDE DEF Product, Some
<1>5. ASSUME NEW brand
      PROVE  /\ More(brand) = [m \in 1 .. nm |-> Some(brand, spec.materials[m])]
             /\ Tuple(More(brand), nm)
  BY <1>2 DEF Mapped, Tuple
<1> HIDE DEF More
<1>6. ASSUME NEW brand
      PROVE  /\ Tuple(FlattenSeq(More(brand)), nm * nc)
             /\ \A c \in 1 .. nc :
                  FlattenSeq(More(brand))[c] = Product(brand, spec.materials[1], combos[c])
  <2>1. \A m \in 1 .. nm : /\ More(brand)[m] = Some(brand, spec.materials[m])
                           /\ Tuple(More(brand)[m], nc)
    <3> TAKE m \in 1 .. nm
    <3>1. More(brand)[m] = Some(brand, spec.materials[m])
      BY <1>5
    <3>2. Tuple(Some(brand, spec.materials[m]), nc)
      BY <1>3
    <3> QED
      BY <3>1, <3>2
  <2>2. /\ Tuple(FlattenSeq(More(brand)), nm * nc)
        /\ \A m \in 1 .. nm : \A c \in 1 .. nc :
             FlattenSeq(More(brand))[(m - 1) * nc + c] = More(brand)[m][c]
    <3>1. nc \in Nat /\ Tuple(More(brand), nm) /\ \A m \in 1 .. nm : Tuple(More(brand)[m], nc)
      BY <1>2, <1>5, <2>1
    <3> DEFINE seqs == More(brand)
    <3>2. nm \in Nat \ {0} /\ nc \in Nat /\ Tuple(seqs, nm) /\ \A i \in 1 .. nm : Tuple(seqs[i], nc)
      BY <1>2, <3>1, Zenon
    <3> HIDE DEF seqs
    <3>3. /\ Tuple(FlattenSeq(seqs), nm * nc)
          /\ \A i \in 1 .. nm : \A j \in 1 .. nc :
               FlattenSeq(seqs)[(i - 1) * nc + j] = seqs[i][j]
      BY <3>2, BlocksOf
    <3> QED
      BY <3>3, Zenon DEF seqs
  <2>3. ASSUME NEW c \in 1 .. nc
        PROVE  FlattenSeq(More(brand))[c] = Product(brand, spec.materials[1], combos[c])
    <3>1. 1 \in 1 .. nm /\ (1 - 1) * nc + c = c
      BY <1>2
    <3>2. FlattenSeq(More(brand))[c] = Some(brand, spec.materials[1])[c]
      BY <2>1, <2>2, <3>1
    <3> QED
      BY <1>3, <3>2, Zenon
  <2> QED
    BY <2>2, <2>3
<1>7. /\ All = [b \in 1 .. nb |-> FlattenSeq(More(spec.brands[b]))]
      /\ Tuple(All, nb)
  BY <1>2 DEF Mapped, Tuple, All
<1>8. \A b \in 1 .. nb : Tuple(All[b], nm * nc)
  BY <1>6, <1>7
<1>9. nm * nc \in Nat \ {0} /\ nm * nc >= nc
  <2>1. \A x, y \in Nat \ {0} : x * y \in Nat \ {0} /\ x * y >= y
    OBVIOUS
  <2> QED
    BY <1>2, <2>1
<1> DEFINE size == nm * nc
<1>10. size \in Nat \ {0} /\ size >= nc
  BY <1>9
<1>11. /\ Tuple(FlattenSeq(All), nb * size)
       /\ \A b \in 1 .. nb : \A p \in 1 .. size :
            FlattenSeq(All)[(b - 1) * size + p] = All[b][p]
  <2>1. size \in Nat /\ \A b \in 1 .. nb : Tuple(All[b], size)
    BY <1>8, <1>10
  <2>2. nb \in Nat \ {0} /\ Tuple(All, nb)
    BY <1>2, <1>7, Zenon
  <2> HIDE DEF size
  <2> QED
    BY <2>1, <2>2, BlocksOf
<1>12. ASSUME NEW b \in 1 .. nb, NEW c \in 1 .. nc
       PROVE  /\ FlattenSeq(All)[(b - 1) * size + c].brand = spec.brands[b]
              /\ FlattenSeq(All)[(b - 1) * size + c].subtype = spec.subtype
  <2> HIDE DEF size
  <2>1. c \in 1 .. size
    BY <1>2, <1>10
  <2>2. FlattenSeq(All)[(b - 1) * size + c] = FlattenSeq(More(spec.brands[b]))[c]
    BY <1>7, <1>11, <2>1
  <2> QED
    BY <1>4, <1>6, <2>2
<1> QED
  BY <1>1, <1>11, <1>12

\* The number of the last product of each family.
LastOf == <<216, 306, 360, 390, 498, 525, 549, 558, 594, 606, 642, 648,
            656, 668, 680, 686, 722, 734, 758, 764, 776, 803, 839>>

\* How many products each family has.
LEMMA LengthsAre ==
  /\ Tuple(ProductsOfSpec(SUBTYPE_SPECS[1]), 216)
  /\ Tuple(ProductsOfSpec(SUBTYPE_SPECS[2]), 90)
  /\ Tuple(ProductsOfSpec(SUBTYPE_SPECS[3]), 54)
  /\ Tuple(ProductsOfSpec(SUBTYPE_SPECS[4]), 30)
  /\ Tuple(ProductsOfSpec(SUBTYPE_SPECS[5]), 108)
  /\ Tuple(ProductsOfSpec(SUBTYPE_SPECS[6]), 27)
  /\ Tuple(ProductsOfSpec(SUBTYPE_SPECS[7]), 24)
  /\ Tuple(ProductsOfSpec(SUBTYPE_SPECS[8]), 9)
  /\ Tuple(ProductsOfSpec(SUBTYPE_SPECS[9]), 36)
  /\ Tuple(ProductsOfSpec(SUBTYPE_SPECS[10]), 12)
  /\ Tuple(ProductsOfSpec(SUBTYPE_SPECS[11]), 36)
  /\ Tuple(ProductsOfSpec(SUBTYPE_SPECS[12]), 6)
  /\ Tuple(ProductsOfSpec(SUBTYPE_SPECS[13]), 8)
  /\ Tuple(ProductsOfSpec(SUBTYPE_SPECS[14]), 12)
  /\ Tuple(ProductsOfSpec(SUBTYPE_SPECS[15]), 12)
  /\ Tuple(ProductsOfSpec(SUBTYPE_SPECS[16]), 6)
  /\ Tuple(ProductsOfSpec(SUBTYPE_SPECS[17]), 36)
  /\ Tuple(ProductsOfSpec(SUBTYPE_SPECS[18]), 12)
  /\ Tuple(ProductsOfSpec(SUBTYPE_SPECS[19]), 24)
  /\ Tuple(ProductsOfSpec(SUBTYPE_SPECS[20]), 6)
  /\ Tuple(ProductsOfSpec(SUBTYPE_SPECS[21]), 12)
  /\ Tuple(ProductsOfSpec(SUBTYPE_SPECS[22]), 27)
  /\ Tuple(ProductsOfSpec(SUBTYPE_SPECS[23]), 36)
<1>1. Tuple(ProductsOfSpec(SUBTYPE_SPECS[1]), 4 * (3 * (6 * 3)))
  BY ShapesAre, FamilyIs, Zenon
<1>2. Tuple(ProductsOfSpec(SUBTYPE_SPECS[2]), 3 * (2 * (5 * 3)))
  BY ShapesAre, FamilyIs, Zenon
<1>3. Tuple(ProductsOfSpec(SUBTYPE_SPECS[3]), 3 * (3 * (6)))
  BY ShapesAre, FamilyIs, Zenon
<1>4. Tuple(ProductsOfSpec(SUBTYPE_SPECS[4]), 3 * (2 * (5)))
  BY ShapesAre, FamilyIs, Zenon
<1>5. Tuple(ProductsOfSpec(SUBTYPE_SPECS[5]), 3 * (1 * (3 * 4 * 3)))
  BY ShapesAre, FamilyIs, Zenon
<1>6. Tuple(ProductsOfSpec(SUBTYPE_SPECS[6]), 3 * (1 * (3 * 3)))
  BY ShapesAre, FamilyIs, Zenon
<1>7. Tuple(ProductsOfSpec(SUBTYPE_SPECS[7]), 3 * (1 * (2 * 4)))
  BY ShapesAre, FamilyIs, Zenon
<1>8. Tuple(ProductsOfSpec(SUBTYPE_SPECS[8]), 3 * (1 * (3 * 1)))
  BY ShapesAre, FamilyIs, Zenon
<1>9. Tuple(ProductsOfSpec(SUBTYPE_SPECS[9]), 3 * (3 * (4)))
  BY ShapesAre, FamilyIs, Zenon
<1>10. Tuple(ProductsOfSpec(SUBTYPE_SPECS[10]), 2 * (1 * (3 * 2)))
  BY ShapesAre, FamilyIs, Zenon
<1>11. Tuple(ProductsOfSpec(SUBTYPE_SPECS[11]), 3 * (1 * (3 * 4)))
  BY ShapesAre, FamilyIs, Zenon
<1>12. Tuple(ProductsOfSpec(SUBTYPE_SPECS[12]), 2 * (1 * (3)))
  BY ShapesAre, FamilyIs, Zenon
<1>13. Tuple(ProductsOfSpec(SUBTYPE_SPECS[13]), 2 * (1 * (4)))
  BY ShapesAre, FamilyIs, Zenon
<1>14. Tuple(ProductsOfSpec(SUBTYPE_SPECS[14]), 3 * (1 * (4)))
  BY ShapesAre, FamilyIs, Zenon
<1>15. Tuple(ProductsOfSpec(SUBTYPE_SPECS[15]), 3 * (1 * (4)))
  BY ShapesAre, FamilyIs, Zenon
<1>16. Tuple(ProductsOfSpec(SUBTYPE_SPECS[16]), 2 * (1 * (3)))
  BY ShapesAre, FamilyIs, Zenon
<1>17. Tuple(ProductsOfSpec(SUBTYPE_SPECS[17]), 3 * (1 * (4 * 3)))
  BY ShapesAre, FamilyIs, Zenon
<1>18. Tuple(ProductsOfSpec(SUBTYPE_SPECS[18]), 2 * (1 * (3 * 2)))
  BY ShapesAre, FamilyIs, Zenon
<1>19. Tuple(ProductsOfSpec(SUBTYPE_SPECS[19]), 2 * (1 * (3 * 2 * 2)))
  BY ShapesAre, FamilyIs, Zenon
<1>20. Tuple(ProductsOfSpec(SUBTYPE_SPECS[20]), 2 * (1 * (3)))
  BY ShapesAre, FamilyIs, Zenon
<1>21. Tuple(ProductsOfSpec(SUBTYPE_SPECS[21]), 2 * (2 * (3)))
  BY ShapesAre, FamilyIs, Zenon
<1>22. Tuple(ProductsOfSpec(SUBTYPE_SPECS[22]), 3 * (3 * (3)))
  BY ShapesAre, FamilyIs, Zenon
<1>23. Tuple(ProductsOfSpec(SUBTYPE_SPECS[23]), 2 * (3 * (3 * 2)))
  BY ShapesAre, FamilyIs, Zenon
<1> QED
  BY <1>1, <1>2, <1>3, <1>4, <1>5, <1>6, <1>7, <1>8, <1>9, <1>10, <1>11, <1>12,
     <1>13, <1>14, <1>15, <1>16, <1>17, <1>18, <1>19, <1>20, <1>21, <1>22, <1>23

\* A family's products are numbered after those of the families before it.
LEMMA NumbersAre ==
  /\ Tuple(GeneratedProducts, 839)
  /\ \A k \in 1 .. 23 : \A j \in Nat :
       LET before == IF k = 1 THEN 0 ELSE LastOf[k - 1] IN
       0 < j /\ before + j <= LastOf[k] =>
         GeneratedProducts[before + j] = ProductsOfSpec(SUBTYPE_SPECS[k])[j]
<1> DEFINE off == [k \in 0 .. 23 |-> IF k = 0 THEN 0 ELSE LastOf[k]]
           families == Mapped(SUBTYPE_SPECS, ProductsOfSpec)
<1>1. GeneratedProducts = FlattenSeq(families)
  BY Zenon DEF GeneratedProducts, FlatMapped
<1>2. families = [k \in 1 .. 23 |-> ProductsOfSpec(SUBTYPE_SPECS[k])]
  <2>1. DOMAIN SUBTYPE_SPECS = 1 .. 23
    BY DEF SUBTYPE_SPECS
  <2> QED
    BY <2>1 DEF Mapped
<1> HIDE DEF families
<1>3. /\ Tuple(families, 23)
      /\ \A k \in 1 .. 23 : families[k] = ProductsOfSpec(SUBTYPE_SPECS[k])
  BY <1>2 DEF Tuple
<1>4. off \in [0 .. 23 -> Nat]
  BY DEF LastOf
<1>5. /\ off[0] = 0
      /\ \A k \in 1 .. 23 : off[k] = LastOf[k]
      /\ \A k \in 1 .. 23 : off[k - 1] = IF k = 1 THEN 0 ELSE LastOf[k - 1]
  OBVIOUS
<1> HIDE DEF off
<1>6. /\ off[1] - off[0] = 216 /\ off[2] - off[1] = 90 /\ off[3] - off[2] = 54
      /\ off[4] - off[3] = 30 /\ off[5] - off[4] = 108 /\ off[6] - off[5] = 27
      /\ off[7] - off[6] = 24 /\ off[8] - off[7] = 9 /\ off[9] - off[8] = 36
      /\ off[10] - off[9] = 12 /\ off[11] - off[10] = 36 /\ off[12] - off[11] = 6
      /\ off[13] - off[12] = 8 /\ off[14] - off[13] = 12 /\ off[15] - off[14] = 12
      /\ off[16] - off[15] = 6 /\ off[17] - off[16] = 36 /\ off[18] - off[17] = 12
      /\ off[19] - off[18] = 24 /\ off[20] - off[19] = 6 /\ off[21] - off[20] = 12
      /\ off[22] - off[21] = 27 /\ off[23] - off[22] = 36
      /\ off[23] = 839
  BY <1>5 DEF LastOf
<1>7. /\ families[1] = ProductsOfSpec(SUBTYPE_SPECS[1])
      /\ families[2] = ProductsOfSpec(SUBTYPE_SPECS[2])
      /\ families[3] = ProductsOfSpec(SUBTYPE_SPECS[3])
      /\ families[4] = ProductsOfSpec(SUBTYPE_SPECS[4])
      /\ families[5] = ProductsOfSpec(SUBTYPE_SPECS[5])
      /\ families[6] = ProductsOfSpec(SUBTYPE_SPECS[6])
      /\ families[7] = ProductsOfSpec(SUBTYPE_SPECS[7])
      /\ families[8] = ProductsOfSpec(SUBTYPE_SPECS[8])
      /\ families[9] = ProductsOfSpec(SUBTYPE_SPECS[9])
      /\ families[10] = ProductsOfSpec(SUBTYPE_SPECS[10])
      /\ families[11] = ProductsOfSpec(SUBTYPE_SPECS[11])
      /\ families[12] = ProductsOfSpec(SUBTYPE_SPECS[12])
      /\ families[13] = ProductsOfSpec(SUBTYPE_SPECS[13])
      /\ families[14] = ProductsOfSpec(SUBTYPE_SPECS[14])
      /\ families[15] = ProductsOfSpec(SUBTYPE_SPECS[15])
      /\ families[16] = ProductsOfSpec(SUBTYPE_SPECS[16])
      /\ families[17] = ProductsOfSpec(SUBTYPE_SPECS[17])
      /\ families[18] = ProductsOfSpec(SUBTYPE_SPECS[18])
      /\ families[19] = ProductsOfSpec(SUBTYPE_SPECS[19])
      /\ families[20] = ProductsOfSpec(SUBTYPE_SPECS[20])
      /\ families[21] = ProductsOfSpec(SUBTYPE_SPECS[21])
      /\ families[22] = ProductsOfSpec(SUBTYPE_SPECS[22])
      /\ families[23] = ProductsOfSpec(SUBTYPE_SPECS[23])
  BY <1>3
<1>8. /\ Tuple(families[1], off[1] - off[0]) /\ Tuple(families[2], off[2] - off[1])
      /\ Tuple(families[3], off[3] - off[2]) /\ Tuple(families[4], off[4] - off[3])
      /\ Tuple(families[5], off[5] - off[4]) /\ Tuple(families[6], off[6] - off[5])
      /\ Tuple(families[7], off[7] - off[6]) /\ Tuple(families[8], off[8] - off[7])
      /\ Tuple(families[9], off[9] - off[8]) /\ Tuple(families[10], off[10] - off[9])
      /\ Tuple(families[11], off[11] - off[10]) /\ Tuple(families[12], off[12] - off[11])
      /\ Tuple(families[13], off[13] - off[12]) /\ Tuple(families[14], off[14] - off[13])
      /\ Tuple(families[15], off[15] - off[14]) /\ Tuple(families[16], off[16] - off[15])
      /\ Tuple(families[17], off[17] - off[16]) /\ Tuple(families[18], off[18] - off[17])
      /\ Tuple(families[19], off[19] - off[18]) /\ Tuple(families[20], off[20] - off[19])
      /\ Tuple(families[21], off[21] - off[20]) /\ Tuple(families[22], off[22] - off[21])
      /\ Tuple(families[23], off[23] - off[22])
  BY <1>6, <1>7, LengthsAre
<1>9. \A k \in 1 .. 23 : Tuple(families[k], off[k] - off[k - 1])
  BY <1>8
<1>10. \A k \in 1 .. 23 : off[k] - off[k - 1] \in Nat
  BY <1>6
<1>11. Offsets(families, 23, off)
  BY <1>4, <1>5, <1>9, <1>10 DEF Offsets
<1>12. /\ Tuple(FlattenSeq(families), off[23])
      /\ \A b \in 1 .. 23 : \A j \in 1 .. off[b] - off[b - 1] :
           FlattenSeq(families)[off[b - 1] + j] = families[b][j]
  BY <1>3, <1>11, FlattenIs
<1>13. ASSUME NEW k \in 1 .. 23, NEW j \in Nat, 0 < j, off[k - 1] + j <= off[k]
       PROVE  GeneratedProducts[off[k - 1] + j] = ProductsOfSpec(SUBTYPE_SPECS[k])[j]
  <2>1. off[k] \in Nat /\ off[k - 1] \in Nat
    BY <1>4
  <2>2. j \in 1 .. off[k] - off[k - 1]
    BY <1>13, <2>1
  <2> QED
    BY <1>1, <1>3, <1>12, <2>2
<1> QED
  <2>1. Tuple(GeneratedProducts, 839)
    BY <1>1, <1>6, <1>12
  <2>2. ASSUME NEW k \in 1 .. 23, NEW j \in Nat, NEW before,
               before = IF k = 1 THEN 0 ELSE LastOf[k - 1], 0 < j, before + j <= LastOf[k]
        PROVE  GeneratedProducts[before + j] = ProductsOfSpec(SUBTYPE_SPECS[k])[j]
    <3>1. off[k - 1] = before /\ off[k] = LastOf[k]
      BY <1>5, <2>2
    <3> QED
      BY <1>13, <2>2, <3>1
  <2> QED
    BY <2>1, <2>2, Zenon

\* The product at place c of brand b of family k has this number.
Numbered(k, nb, nm, nc, b, c, id) ==
  /\ k \in 1 .. 23 /\ b \in 1 .. nb /\ c \in 1 .. nc
  /\ id = (IF k = 1 THEN 0 ELSE LastOf[k - 1]) + ((b - 1) * (nm * nc) + c)
  /\ id <= LastOf[k]

LEMMA LastOfIs == \A k \in 1 .. 23 : LastOf[k] \in 1 .. 839
BY DEF LastOf

\* A product is found under its brand, its subtype and its number.
LEMMA NumberedIsKnown ==
  \A k, nb, nm, nc, b, c, id :
    Shape(SUBTYPE_SPECS[k], nb, nm, nc) /\ Numbered(k, nb, nm, nc, b, c, id) =>
      IsKnown(<<SUBTYPE_SPECS[k].brands[b], SUBTYPE_SPECS[k].subtype, id>>)
<1> SUFFICES ASSUME NEW k, NEW nb, NEW nm, NEW nc, NEW b, NEW c, NEW id,
                    Shape(SUBTYPE_SPECS[k], nb, nm, nc), Numbered(k, nb, nm, nc, b, c, id)
             PROVE  IsKnown(<<SUBTYPE_SPECS[k].brands[b], SUBTYPE_SPECS[k].subtype, id>>)
  BY Zenon
<1> DEFINE before == IF k = 1 THEN 0 ELSE LastOf[k - 1]
           j == (b - 1) * (nm * nc) + c
<1>1. /\ k \in 1 .. 23 /\ b \in 1 .. nb /\ c \in 1 .. nc
      /\ id = before + j /\ before + j <= LastOf[k]
  BY Zenon DEF Numbered
<1>2. before \in Nat
  <2>1. CASE k = 1
    BY <2>1
  <2>2. CASE k # 1
    <3>1. k - 1 \in 1 .. 23
      BY <1>1, <2>2
    <3>2. LastOf[k - 1] \in 1 .. 839
      BY <3>1, LastOfIs, Zenon
    <3> QED
      BY <2>2, <3>2
  <2> QED
    BY <2>1, <2>2
<1>3. j \in Nat /\ 0 < j
  <2>1. nm \in Nat /\ nc \in Nat /\ b - 1 \in Nat /\ c \in Nat /\ 0 < c
    BY <1>1 DEF Shape
  <2>2. \A x, y \in Nat : x * y \in Nat
    OBVIOUS
  <2>3. (b - 1) * (nm * nc) \in Nat
    BY <2>1, <2>2, Zenon
  <2> QED
    BY <2>1, <2>3
<1>4. /\ ProductsOfSpec(SUBTYPE_SPECS[k])[j].brand = SUBTYPE_SPECS[k].brands[b]
      /\ ProductsOfSpec(SUBTYPE_SPECS[k])[j].subtype = SUBTYPE_SPECS[k].subtype
  <2> DEFINE spec == SUBTYPE_SPECS[k]
             products == ProductsOfSpec(spec)
  <2>1. \A x \in 1 .. nb : \A y \in 1 .. nc :
          /\ products[(x - 1) * (nm * nc) + y].brand = spec.brands[x]
          /\ products[(x - 1) * (nm * nc) + y].subtype = spec.subtype
    BY FamilyIs
  <2> HIDE DEF spec, products
  <2>2. products[j].brand = spec.brands[b] /\ products[j].subtype = spec.subtype
    BY <1>1, <2>1, Zenon
  <2> QED
    BY <2>2 DEF spec, products
<1>5. GeneratedProducts[id] = ProductsOfSpec(SUBTYPE_SPECS[k])[j]
  <2> HIDE DEF j
  <2>1. GeneratedProducts[before + j] = ProductsOfSpec(SUBTYPE_SPECS[k])[j]
    BY <1>1, <1>3, NumbersAre, Zenon
  <2> HIDE DEF before
  <2> QED
    BY <1>1, <2>1, Zenon
<1>6. id \in DOMAIN GeneratedProducts
  <2>1. DOMAIN GeneratedProducts = 1 .. 839
    BY NumbersAre, Zenon DEF Tuple
  <2>2. id \in 1 .. 839
    <3> HIDE DEF before, j
    <3>1. LastOf[k] \in 1 .. 839
      BY <1>1, LastOfIs, Zenon
    <3>2. id = before + j /\ before + j <= LastOf[k]
      BY <1>1, Zenon
    <3>3. PICK last \in 1 .. 839 : last = LastOf[k]
      BY <3>1, Zenon
    <3>4. before + j \in 1 .. 839
      <4>1. before + j <= last
        BY <3>2, <3>3, Zenon
      <4> QED
        BY <1>2, <1>3, <4>1
    <3> QED
      BY <3>2, <3>4, Zenon
  <2> QED
    BY <2>1, <2>2
<1> HIDE DEF j
<1> QED
  BY <1>4, <1>5, <1>6 DEF IsKnown

\* The nine products the benches name (inventory_scenarios.py:17-20; latency.py:21-24).
LEMMA BenchSkusAreKnown ==
  /\ IsKnown(<<"IronClad", "Hex Bolt", 55>>)
  /\ IsKnown(<<"IronClad", "Circuit Breaker", 454>>)
  /\ IsKnown(<<"AceGrip", "Work Gloves", 583>>)
  /\ IsKnown(<<"DuraDrive", "AC Motor", 743>>)
  /\ IsKnown(<<"Titan", "Hex Bolt", 1>>)
  /\ IsKnown(<<"FlowMaster", "Ball Valve", 777>>)
  /\ IsKnown(<<"MaxForce", "Grinding Wheel", 687>>)
  /\ IsKnown(<<"Voltec", "Contactor", 499>>)
  /\ IsKnown(<<"DuraDrive", "V-Belt", 607>>)
<1>1. IsKnown(<<"IronClad", "Hex Bolt", 55>>)
  <2>1. SUBTYPE_SPECS[1].brands[2] = "IronClad" /\ SUBTYPE_SPECS[1].subtype = "Hex Bolt"
    BY DEF SUBTYPE_SPECS, Family
  <2>2. Numbered(1, 4, 3, 6 * 3, 2, 1, 55)
    BY DEF Numbered, LastOf
  <2>3. Shape(SUBTYPE_SPECS[1], 4, 3, 6 * 3)
    BY ShapesAre, Zenon
  <2>4. IsKnown(<<SUBTYPE_SPECS[1].brands[2], SUBTYPE_SPECS[1].subtype, 55>>)
    BY <2>2, <2>3, NumberedIsKnown
  <2> QED
    BY <2>1, <2>4, Zenon
<1>2. IsKnown(<<"IronClad", "Circuit Breaker", 454>>)
  <2>1. SUBTYPE_SPECS[5].brands[2] = "IronClad" /\ SUBTYPE_SPECS[5].subtype = "Circuit Breaker"
    BY DEF SUBTYPE_SPECS, Family
  <2>2. Numbered(5, 3, 1, 3 * 4 * 3, 2, 28, 454)
    BY DEF Numbered, LastOf
  <2>3. Shape(SUBTYPE_SPECS[5], 3, 1, 3 * 4 * 3)
    BY ShapesAre, Zenon
  <2>4. IsKnown(<<SUBTYPE_SPECS[5].brands[2], SUBTYPE_SPECS[5].subtype, 454>>)
    BY <2>2, <2>3, NumberedIsKnown
  <2> QED
    BY <2>1, <2>4, Zenon
<1>3. IsKnown(<<"AceGrip", "Work Gloves", 583>>)
  <2>1. SUBTYPE_SPECS[9].brands[3] = "AceGrip" /\ SUBTYPE_SPECS[9].subtype = "Work Gloves"
    BY DEF SUBTYPE_SPECS, Family
  <2>2. Numbered(9, 3, 3, 4, 3, 1, 583)
    BY DEF Numbered, LastOf
  <2>3. Shape(SUBTYPE_SPECS[9], 3, 3, 4)
    BY ShapesAre, Zenon
  <2>4. IsKnown(<<SUBTYPE_SPECS[9].brands[3], SUBTYPE_SPECS[9].subtype, 583>>)
    BY <2>2, <2>3, NumberedIsKnown
  <2> QED
    BY <2>1, <2>4, Zenon
<1>4. IsKnown(<<"DuraDrive", "AC Motor", 743>>)
  <2>1. SUBTYPE_SPECS[19].brands[1] = "DuraDrive" /\ SUBTYPE_SPECS[19].subtype = "AC Motor"
    BY DEF SUBTYPE_SPECS, Family
  <2>2. Numbered(19, 2, 1, 3 * 2 * 2, 1, 9, 743)
    BY DEF Numbered, LastOf
  <2>3. Shape(SUBTYPE_SPECS[19], 2, 1, 3 * 2 * 2)
    BY ShapesAre, Zenon
  <2>4. IsKnown(<<SUBTYPE_SPECS[19].brands[1], SUBTYPE_SPECS[19].subtype, 743>>)
    BY <2>2, <2>3, NumberedIsKnown
  <2> QED
    BY <2>1, <2>4, Zenon
<1>5. IsKnown(<<"Titan", "Hex Bolt", 1>>)
  <2>1. SUBTYPE_SPECS[1].brands[1] = "Titan" /\ SUBTYPE_SPECS[1].subtype = "Hex Bolt"
    BY DEF SUBTYPE_SPECS, Family
  <2>2. Numbered(1, 4, 3, 6 * 3, 1, 1, 1)
    BY DEF Numbered, LastOf
  <2>3. Shape(SUBTYPE_SPECS[1], 4, 3, 6 * 3)
    BY ShapesAre, Zenon
  <2>4. IsKnown(<<SUBTYPE_SPECS[1].brands[1], SUBTYPE_SPECS[1].subtype, 1>>)
    BY <2>2, <2>3, NumberedIsKnown
  <2> QED
    BY <2>1, <2>4, Zenon
<1>6. IsKnown(<<"FlowMaster", "Ball Valve", 777>>)
  <2>1. SUBTYPE_SPECS[22].brands[1] = "FlowMaster" /\ SUBTYPE_SPECS[22].subtype = "Ball Valve"
    BY DEF SUBTYPE_SPECS, Family
  <2>2. Numbered(22, 3, 3, 3, 1, 1, 777)
    BY DEF Numbered, LastOf
  <2>3. Shape(SUBTYPE_SPECS[22], 3, 3, 3)
    BY ShapesAre, Zenon
  <2>4. IsKnown(<<SUBTYPE_SPECS[22].brands[1], SUBTYPE_SPECS[22].subtype, 777>>)
    BY <2>2, <2>3, NumberedIsKnown
  <2> QED
    BY <2>1, <2>4, Zenon
<1>7. IsKnown(<<"MaxForce", "Grinding Wheel", 687>>)
  <2>1. SUBTYPE_SPECS[17].brands[1] = "MaxForce" /\ SUBTYPE_SPECS[17].subtype = "Grinding Wheel"
    BY DEF SUBTYPE_SPECS, Family
  <2>2. Numbered(17, 3, 1, 4 * 3, 1, 1, 687)
    BY DEF Numbered, LastOf
  <2>3. Shape(SUBTYPE_SPECS[17], 3, 1, 4 * 3)
    BY ShapesAre, Zenon
  <2>4. IsKnown(<<SUBTYPE_SPECS[17].brands[1], SUBTYPE_SPECS[17].subtype, 687>>)
    BY <2>2, <2>3, NumberedIsKnown
  <2> QED
    BY <2>1, <2>4, Zenon
<1>8. IsKnown(<<"Voltec", "Contactor", 499>>)
  <2>1. SUBTYPE_SPECS[6].brands[1] = "Voltec" /\ SUBTYPE_SPECS[6].subtype = "Contactor"
    BY DEF SUBTYPE_SPECS, Family
  <2>2. Numbered(6, 3, 1, 3 * 3, 1, 1, 499)
    BY DEF Numbered, LastOf
  <2>3. Shape(SUBTYPE_SPECS[6], 3, 1, 3 * 3)
    BY ShapesAre, Zenon
  <2>4. IsKnown(<<SUBTYPE_SPECS[6].brands[1], SUBTYPE_SPECS[6].subtype, 499>>)
    BY <2>2, <2>3, NumberedIsKnown
  <2> QED
    BY <2>1, <2>4, Zenon
<1>9. IsKnown(<<"DuraDrive", "V-Belt", 607>>)
  <2>1. SUBTYPE_SPECS[11].brands[1] = "DuraDrive" /\ SUBTYPE_SPECS[11].subtype = "V-Belt"
    BY DEF SUBTYPE_SPECS, Family
  <2>2. Numbered(11, 3, 1, 3 * 4, 1, 1, 607)
    BY DEF Numbered, LastOf
  <2>3. Shape(SUBTYPE_SPECS[11], 3, 1, 3 * 4)
    BY ShapesAre, Zenon
  <2>4. IsKnown(<<SUBTYPE_SPECS[11].brands[1], SUBTYPE_SPECS[11].subtype, 607>>)
    BY <2>2, <2>3, NumberedIsKnown
  <2> QED
    BY <2>1, <2>4, Zenon
<1> QED
  BY <1>1, <1>2, <1>3, <1>4, <1>5, <1>6, <1>7, <1>8, <1>9

\* Every SKU a bench asks for is found.
LEMMA BenchSkusAreFound ==
  /\ \A i \in 1 .. Len(SCENARIO_SKUS) : IsKnown(SCENARIO_SKUS[i])
  /\ \A i \in 1 .. Len(AVAILABILITY_SKUS) : IsKnown(AVAILABILITY_SKUS[i])
<1>1. /\ Len(SCENARIO_SKUS) = 8
      /\ IsKnown(SCENARIO_SKUS[1]) /\ IsKnown(SCENARIO_SKUS[2]) /\ IsKnown(SCENARIO_SKUS[3])
      /\ IsKnown(SCENARIO_SKUS[4]) /\ IsKnown(SCENARIO_SKUS[5]) /\ IsKnown(SCENARIO_SKUS[6])
      /\ IsKnown(SCENARIO_SKUS[7]) /\ IsKnown(SCENARIO_SKUS[8])
  BY BenchSkusAreKnown DEF SCENARIO_SKUS
<1>2. /\ Len(AVAILABILITY_SKUS) = 5
      /\ IsKnown(AVAILABILITY_SKUS[1]) /\ IsKnown(AVAILABILITY_SKUS[2])
      /\ IsKnown(AVAILABILITY_SKUS[3]) /\ IsKnown(AVAILABILITY_SKUS[4])
      /\ IsKnown(AVAILABILITY_SKUS[5])
  BY BenchSkusAreKnown DEF AVAILABILITY_SKUS
<1> QED
  BY <1>1, <1>2

\* The catalog has as many products as the documents say (README.md:106; RESULTS.md:81),
\* numbered without a gap.
THEOREM CatalogIsNumbered == DOMAIN GeneratedProducts = 1 .. 839
BY NumbersAre, Zenon DEF Tuple

-----------------------------------------------------------------------------
(* The suite that runs the evaluation first (bench/run_all.py) *)

\* No other measurement touches what the evaluation is at.
THEOREM SuiteEvaluates == EvaluationSpec => Spec
<1>1. EvaluationInit => Init
  BY DEF EvaluationInit
<1>2. [EvaluationNext]_<<vars, suite>> => [Next]_vars
  BY DEF EvaluationNext, RelevanceStep, EndRelevance, AtpScenario, EndAtpScenarios,
         LatencyRequest, Summarise, Begin, vars, suite
<1> QED
  BY <1>1, <1>2, PTL DEF EvaluationSpec, Spec

\* What the suite reports of the evaluation is measured as the theorems above say.
THEOREM SuiteMeasures ==
  EvaluationSpec => [](OnlyTheCapIsMissing /\ RankAndPrecisionAgree /\ OnlyTheLimitHides)
BY SuiteEvaluates, CapExplainsPrecision, MeasuresAgree, LimitHidesNoMore, PTL

Measured(n) == IF n <= Warmup THEN 0 ELSE n - Warmup

Scenarios == Len(SCENARIO_SKUS)
StockRows == Cardinality(WAREHOUSES)

\* What every stage leaves behind.
SuiteIInv ==
  /\ stage \in {"relevance", "alone", "atp", "latency", "summary", "failed"}
  /\ done \in Nat
  /\ stage = "relevance" => done = 0 /\ checked = 0 /\ timed = 0
  /\ stage = "atp" => done <= Scenarios /\ checked = done * StockRows /\ timed = 0
  /\ stage = "latency" => /\ done <= Iterations + Warmup
                          /\ checked = Scenarios * StockRows /\ timed = Measured(done)
  /\ stage = "summary" => TalliesAreWhole

\* Eight SKUs in five warehouses each.
LEMMA ScenariosAre == Scenarios = 8 /\ StockRows = 5
<1>1. Scenarios = 8
  BY DEF Scenarios, SCENARIO_SKUS
<1> DEFINE one == {"ILCHI"}
           two == one \cup {"TXDAL"}
           three == two \cup {"CALAX"}
           four == three \cup {"GAATL"}
           five == four \cup {"NJEWR"}
<1>2. IsFiniteSet(one) /\ Cardinality(one) = 1
  BY FS_Singleton
<1>3. IsFiniteSet(two) /\ Cardinality(two) = 2
  BY <1>2, FS_AddElement
<1>4. IsFiniteSet(three) /\ Cardinality(three) = 3
  BY <1>3, FS_AddElement
<1>5. IsFiniteSet(four) /\ Cardinality(four) = 4
  BY <1>4, FS_AddElement
<1>6. IsFiniteSet(five) /\ Cardinality(five) = 5
  BY <1>5, FS_AddElement
<1>7. WAREHOUSES = five
  BY DEF WAREHOUSES
<1> QED
  BY <1>1, <1>6, <1>7 DEF StockRows

LEMMA InitSuite == EvaluationInit => SuiteIInv
BY DEF EvaluationInit, SuiteIInv

LEMMA NextSuite == SuiteIInv /\ [EvaluationNext]_<<vars, suite>> => SuiteIInv'
<1> SUFFICES ASSUME SuiteIInv, [EvaluationNext]_<<vars, suite>> PROVE SuiteIInv'
  OBVIOUS
<1>1. Scenarios = 8 /\ StockRows = 5 /\ Iterations \in Nat /\ Warmup \in Nat
  BY ScenariosAre, EvaluationAssumption
<1>2. CASE RelevanceStep
  BY <1>2 DEF RelevanceStep, suite, SuiteIInv, Measured, TalliesAreWhole
<1>3. CASE EndRelevance
  BY <1>1, <1>3 DEF EndRelevance, Begin, SuiteIInv
<1>4. CASE AtpScenario
  <2>1. done < Scenarios
    BY <1>4 DEF AtpScenario, Scenarios
  <2>2. CASE stage' = "failed"
    BY <1>4, <2>2 DEF AtpScenario, Begin, SuiteIInv
  <2>3. CASE stage' # "failed"
    <3>1. /\ stage = "atp" /\ stage' = stage /\ timed' = timed
          /\ done' = done + 1 /\ checked' = checked + StockRows
      BY <1>4, <2>3 DEF AtpScenario, Begin, StockRows
    <3> QED
      BY <1>1, <2>1, <3>1 DEF SuiteIInv
  <2> QED
    BY <2>2, <2>3
<1>5. CASE EndAtpScenarios
  <2>1. /\ stage = "atp" /\ done = Scenarios /\ stage' = "latency" /\ done' = 0
        /\ checked' = checked /\ timed' = timed
    BY <1>5 DEF EndAtpScenarios, Begin, Scenarios
  <2> QED
    BY <1>1, <2>1 DEF SuiteIInv, Measured
<1>6. CASE LatencyRequest
  <2>1. CASE stage' = "failed"
    BY <1>6, <2>1 DEF LatencyRequest, Begin, SuiteIInv
  <2>2. CASE stage' # "failed"
    <3>1. /\ stage = "latency" /\ stage' = stage /\ checked' = checked
          /\ done < Iterations + Warmup /\ done' = done + 1
          /\ timed' = IF done >= Warmup THEN timed + 1 ELSE timed
      BY <1>6, <2>2 DEF LatencyRequest, Begin
    <3>2. Measured(done') = IF done >= Warmup THEN Measured(done) + 1 ELSE Measured(done)
      BY <1>1, <3>1 DEF SuiteIInv, Measured
    <3>3. timed' = Measured(done')
      BY <3>1, <3>2 DEF SuiteIInv
    <3> QED
      BY <1>1, <3>1, <3>3 DEF SuiteIInv
  <2> QED
    BY <2>1, <2>2
<1>7. CASE Summarise
  <2>1. /\ stage = "latency" /\ done = Iterations + Warmup /\ stage' = "summary" /\ done' = 0
        /\ checked' = checked /\ timed' = timed
    BY <1>7 DEF Summarise, Begin
  <2>2. timed = Iterations /\ checked = Scenarios * StockRows
    BY <1>1, <2>1 DEF SuiteIInv, Measured
  <2> QED
    BY <2>1, <2>2 DEF SuiteIInv, TalliesAreWhole, Scenarios, StockRows
<1>8. CASE UNCHANGED <<vars, suite>>
  BY <1>8 DEF suite, SuiteIInv, Measured, TalliesAreWhole
<1> QED
  BY <1>2, <1>3, <1>4, <1>5, <1>6, <1>7, <1>8 DEF EvaluationNext

\* A summary counts every stock row of every scenario and every measured request once,
\* forty rows of them, however many requests the latency bench times after however
\* many to warm up (inventory_scenarios.py:52-57; latency.py:53-68; RESULTS.md:107).
THEOREM SummaryIsWhole ==
  EvaluationSpec => [](stage = "summary" => checked = 40 /\ TalliesAreWhole)
<1>1. SuiteIInv => (stage = "summary" => checked = 40 /\ TalliesAreWhole)
  BY ScenariosAre DEF SuiteIInv, TalliesAreWhole, Scenarios, StockRows
<1> QED
  BY <1>1, InitSuite, NextSuite, PTL DEF EvaluationSpec

LEMMA NextNeverFails ==
  ASSUME BenchSkusExist, done \in Nat, [EvaluationNext]_<<vars, suite>>
  PROVE  BenchSkusExist'
<1>1. CASE AtpScenario
  <2>1. done + 1 \in 1 .. Len(SCENARIO_SKUS)
    <3>1. Len(SCENARIO_SKUS) = 8
      BY DEF SCENARIO_SKUS
    <3>2. done < Len(SCENARIO_SKUS)
      BY <1>1 DEF AtpScenario
    <3> QED
      BY <3>1, <3>2
  <2>2. IsKnown(SCENARIO_SKUS[done + 1])
    BY <2>1, BenchSkusAreFound
  <2> QED
    BY <1>1, <2>2 DEF AtpScenario, BenchSkusExist
<1>2. CASE LatencyRequest
  <2>1. (done % Len(AVAILABILITY_SKUS)) + 1 \in 1 .. Len(AVAILABILITY_SKUS)
    <3>1. Len(AVAILABILITY_SKUS) = 5
      BY DEF AVAILABILITY_SKUS
    <3> QED
      BY <3>1
  <2>2. IsKnown(AVAILABILITY_SKUS[(done % Len(AVAILABILITY_SKUS)) + 1])
    BY <2>1, BenchSkusAreFound
  <2> QED
    BY <1>2, <2>2 DEF LatencyRequest, BenchSkusExist
<1>3. CASE RelevanceStep \/ EndRelevance \/ EndAtpScenarios \/ Summarise
           \/ UNCHANGED <<vars, suite>>
  BY <1>3 DEF RelevanceStep, EndRelevance, EndAtpScenarios, Summarise, Begin, suite,
              BenchSkusExist
<1> QED
  BY <1>1, <1>2, <1>3 DEF EvaluationNext

\* The suite never fails on an unknown SKU, however long the benches run: the loops of
\* generate_products over the values in their table give the nine products the numbers
\* that are hard-coded elsewhere (seed.py:233-266; inventory_scenarios.py:17-20;
\* latency.py:21-24).
THEOREM BenchesFindTheirSkus == EvaluationSpec => []BenchSkusExist
<1>1. EvaluationInit => BenchSkusExist
  BY DEF EvaluationInit, BenchSkusExist
<1>2. SuiteIInv /\ BenchSkusExist /\ [EvaluationNext]_<<vars, suite>> => BenchSkusExist'
  BY NextNeverFails DEF SuiteIInv
<1> QED
  BY <1>1, <1>2, InitSuite, NextSuite, PTL DEF EvaluationSpec
=============================================================================
