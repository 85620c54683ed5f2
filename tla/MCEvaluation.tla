---------------------------- MODULE MCEvaluation -----------------------------
(* Evaluation over the shipped catalog for TLC: the shipped labels, after one  *)
(* whose criteria no product meets.                                           *)
EXTENDS Evaluation

CONSTANT LongestAnswer   \* bound on the length of a search's answer

MCIds == DOMAIN GeneratedProducts
MCLabels == Len(LABELED_QUERIES) + 1

MCRelevant(n) == IF n = 1 THEN {} ELSE RelevantTo[n - 1]
MCHasTypo(n) == n = 1 \/ LABELED_QUERIES[n - 1].has_typo

\* The answer with hits and misses at the places the pattern says; which relevant and
\* which other products they are makes no difference to a measure.
Answer(hits, relevant, others) ==
  [i \in DOMAIN hits |->
     LET nth == Cardinality({j \in 1 .. i : hits[j] = hits[i]}) IN
     IF hits[i] THEN relevant[nth] ELSE others[nth]]

Patterns == UNION {[1 .. n -> BOOLEAN] : n \in 0 .. LongestAnswer}

MCAnswers(n) ==
  LET ids == [i \in MCIds |-> i]
      relevant == SelectSeq(ids, LAMBDA i : i \in MCRelevant(n))
      others == SelectSeq(ids, LAMBDA i : i \notin MCRelevant(n))
  IN {Answer(hits, relevant, others) :
        hits \in {h \in Patterns :
          Cardinality({i \in DOMAIN h : h[i]}) <= Cardinality(MCRelevant(n))}}
=============================================================================
