----------------------------- MODULE Relevance ------------------------------
(***************************************************************************)
(* eval/relevance.py: every labelled query, and its misspelled variant if  *)
(* it has one, is searched for, and the ids that come back are measured    *)
(* against the ids that are relevant.  Fractions are kept as pairs of      *)
(* integers; rounding and the means over the rows are left out.            *)
(***************************************************************************)
EXTENDS Integers, Sequences, FiniteSets

CONSTANTS
  Ids,          \* ids of the catalog's products
  Labels,       \* number of labelled queries
  Relevant(_),  \* ids relevant to a label
  HasTypo(_),   \* whether the label has a misspelled variant
  KValueSets,   \* what the label file may give as k_values
  MaxKs,        \* what may be passed as max_k; 0 when it is not given
  Answers(_)    \* what search may answer to a label's query, at any length

\* A search never lists a product twice, and k_values is not empty.
ASSUME RelevanceAssumption ==
  /\ Labels \in Nat
  /\ MaxKs \subseteq Nat
  /\ \A values \in KValueSets :
       values \subseteq Nat /\ \E m \in values : \A k \in values : k <= m
  /\ \A n \in 1 .. Labels :
       /\ IsFiniteSet(Relevant(n))
       /\ \A a \in Answers(n) :
            /\ a \in Seq(Ids)
            /\ \A i, j \in DOMAIN a : a[i] = a[j] => i = j

VARIABLES
  k_values,  \* where precision and recall are taken
  max_k,     \* the argument of the call
  label,     \* the label the loop is at
  typo,      \* whether its misspelled variant is searched for
  answer,    \* what the search would have answered without a limit
  row        \* what is reported of it

vars == <<k_values, max_k, label, typo, answer, row>>

-----------------------------------------------------------------------------
(* The measures *)

Fraction(num, den) == [num |-> num, den |-> den]
Zero == Fraction(0, 1)

AtMost(p, q) == p.num * q.den <= q.num * p.den
Equal(p, q) == p.num * q.den = q.num * p.den
Times(p, q) == Fraction(p.num * q.num, p.den * q.den)
Less(p, hits) == Fraction(p.num - hits, p.den)

Lesser(m, n) == IF m < n THEN m ELSE n

\* The places of ranked[:k].
Top(ranked, k) == {i \in DOMAIN ranked : i <= k}

PrecisionAtK(ranked, relevant, k) ==
  IF k = 0 THEN Zero
  ELSE Fraction(Cardinality({i \in Top(ranked, k) : ranked[i] \in relevant}), k)

\* Mutant: places are counted from 0, and the first of them is skipped.
RankFromZero(ranked, relevant) ==
  IF \E i \in DOMAIN ranked : i > 1 /\ ranked[i] \in relevant
    THEN Fraction(1, (CHOOSE i \in DOMAIN ranked :
                        /\ i > 1 /\ ranked[i] \in relevant
                        /\ \A j \in 2 .. i - 1 : ranked[j] \notin relevant) - 1)
    ELSE Zero

\* One over the place of the first relevant product.
ReciprocalRank(ranked, relevant) ==
  IF \E i \in DOMAIN ranked : ranked[i] \in relevant
    THEN Fraction(1, CHOOSE i \in DOMAIN ranked :
                       /\ ranked[i] \in relevant
                       /\ \A j \in 1 .. i - 1 : ranked[j] \notin relevant)
    ELSE Zero

\* Mutant: the denominator is not capped by k.
RecallOfAll(ranked, relevant, k) ==
  IF relevant = {} THEN Zero
  ELSE Fraction(Cardinality({ranked[i] : i \in Top(ranked, k)} \cap relevant),
                Cardinality(relevant))

\* Divides by zero when k is 0 and something is relevant.
RecallAtK(ranked, relevant, k) ==
  IF relevant = {} THEN Zero
  ELSE Fraction(Cardinality({ranked[i] : i \in Top(ranked, k)} \cap relevant),
                Lesser(k, Cardinality(relevant)))

-----------------------------------------------------------------------------
(* run_relevance_eval *)

\* Mutant: the search is cut to the smallest k.
SmallestK ==
  IF max_k # 0 THEN max_k ELSE CHOOSE m \in k_values : \A k \in k_values : m <= k

\* max_k or max(k_values): how many results each search is asked for.  Nothing keeps
\* an explicit max_k from being below a k value.
TopK ==
  IF max_k # 0 THEN max_k ELSE CHOOSE m \in k_values : \A k \in k_values : k <= m

Limited(a) == SubSeq(a, 1, Lesser(TopK, Len(a)))

NoRow == [precision |-> <<>>, recall |-> <<>>, rr |-> Zero]

\* Recall is taken of the misspelled variants only.
RowOf(ranked, relevant, misspelled) ==
  [precision |-> [k \in k_values |-> PrecisionAtK(ranked, relevant, k)],
   recall |-> IF misspelled THEN [k \in k_values |-> RecallAtK(ranked, relevant, k)] ELSE <<>>,
   rr |-> ReciprocalRank(ranked, relevant)]

Init ==
  /\ k_values \in KValueSets
  /\ max_k \in MaxKs
  /\ label = 1 /\ typo = FALSE /\ answer = <<>> /\ row = NoRow

Evaluate ==
  /\ label <= Labels
  /\ row = NoRow
  /\ answer' \in Answers(label)
  /\ row' = RowOf(Limited(answer'), Relevant(label), typo)
  /\ UNCHANGED <<k_values, max_k, label, typo>>

\* A ZeroDivisionError leaves the loop.
Advance ==
  /\ row # NoRow
  /\ typo => \A k \in k_values : row.recall[k].den # 0
  /\ typo' = (~typo /\ HasTypo(label))
  /\ label' = IF typo' THEN label ELSE label + 1
  /\ answer' = <<>>
  /\ row' = NoRow
  /\ UNCHANGED <<k_values, max_k>>

Next == Evaluate \/ Advance

Spec == Init /\ [][Next]_vars

-----------------------------------------------------------------------------
(* Properties *)

\* No ranking is reported above what the first k places could hold at best, and the
\* recall of a typo is the share of that: precision@k freed of its cap, so that 1.0
\* says no other ranking does better, and precision@10 below 1.0 may be the cap alone.
\* Nothing may be relevant, or fewer than k products; only k = 0, which precision_at_k
\* puts up with, is a division by zero in recall_at_k, where anything is relevant
\* (relevance.py:39-40, 55-59; README.md:124; RESULTS.md:97).
OnlyTheCapIsMissing ==
  row # NoRow =>
    \A k \in k_values :
      LET cap == Fraction(Lesser(k, Cardinality(Relevant(label))), k) IN
      /\ k > 0 => AtMost(row.precision[k], cap)
      /\ typo =>
           /\ row.recall[k].den = 0 <=> k = 0 /\ Relevant(label) # {}
           /\ k > 0 => /\ AtMost(row.recall[k], Fraction(1, 1))
                       /\ Equal(Times(row.recall[k], cap), row.precision[k])

\* The reported measures agree: the first result is relevant exactly if the
\* reciprocal rank is 1, and there is a relevant one in the first k exactly if it is
\* at least 1/k (relevance.py:39-52).
RankAndPrecisionAgree ==
  row # NoRow =>
    \A k \in k_values \ {0} : row.precision[k].num > 0 <=> AtMost(Fraction(1, k), row.rr)

\* The relevant results among the first k that the search was not asked for.
Hidden(k) == {i \in Top(answer, k) : i > TopK /\ answer[i] \in Relevant(label)}

\* Asking the search for no more than top_k results costs precision and recall the
\* relevant results from place max_k + 1 to k and nothing else: nothing at all up to
\* max_k, or without one (relevance.py:98-115).
OnlyTheLimitHides ==
  row # NoRow =>
    \A k \in k_values :
      /\ (max_k = 0 \/ k <= max_k) => Hidden(k) = {}
      /\ LET lost == Cardinality(Hidden(k)) IN
         /\ row.precision[k] = Less(PrecisionAtK(answer, Relevant(label), k), lost)
         /\ typo => row.recall[k] = Less(RecallAtK(answer, Relevant(label), k), lost)
=============================================================================
