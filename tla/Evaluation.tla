----------------------------- MODULE Evaluation -----------------------------
(***************************************************************************)
(* bench/run_all.py on the generated catalog: the relevance evaluation,    *)
(* the ATP scenarios and the latency bench, one after the other.  The rest *)
(* of the inventory bench is InventoryBench; the security checks are the   *)
(* business of Gateway and RateLimiter.                                    *)
(***************************************************************************)
EXTENDS Relevance, LabeledQueries

CONSTANTS Iterations, Warmup   \* of the latency bench

ASSUME EvaluationAssumption == Iterations \in Nat /\ Warmup \in Nat

VARIABLES
  stage,    \* which measurement runs, or "alone" for an evaluation outside the suite
  done,     \* how many SKUs or requests it has been through
  checked,  \* stock rows whose ATP was checked
  timed     \* requests whose latency was recorded

suite == <<stage, done, checked, timed>>

\* The suite calls the evaluation without max_k; it may also be called on its own.
EvaluationInit ==
  /\ Init
  /\ \/ stage = "relevance" /\ max_k = 0
     \/ stage = "alone"
  /\ done = 0 /\ checked = 0 /\ timed = 0

RelevanceStep ==
  /\ stage \in {"relevance", "alone"}
  /\ Next
  /\ UNCHANGED suite

\* The next measurement starts on a fresh seeding, which is the same catalog.
Begin(next) == stage' = next /\ done' = 0 /\ UNCHANGED <<vars, checked, timed>>

EndRelevance ==
  /\ stage = "relevance"
  /\ label > Labels
  /\ Begin("atp")

\* run_atp_scenarios: every stock row of the SKU is one check; an unknown SKU raises
\* NotFoundError.
AtpScenario ==
  /\ stage = "atp"
  /\ done < Len(SCENARIO_SKUS)
  /\ LET sku == SCENARIO_SKUS[done + 1] IN
     IF IsKnown(sku)
       THEN /\ done' = done + 1
            /\ checked' = checked + Cardinality(WAREHOUSES)
            /\ UNCHANGED <<vars, stage, timed>>
       ELSE Begin("failed")

EndAtpScenarios ==
  /\ stage = "atp"
  /\ done = Len(SCENARIO_SKUS)
  /\ Begin("latency")

\* One round of run_latency_bench: a search, then an availability request, whose
\* status must be 200.
LatencyRequest ==
  /\ stage = "latency"
  /\ done < Iterations + Warmup
  /\ LET sku == AVAILABILITY_SKUS[(done % Len(AVAILABILITY_SKUS)) + 1] IN
     IF IsKnown(sku)
       THEN /\ done' = done + 1
            /\ timed' = IF done >= Warmup THEN timed + 1 ELSE timed
            /\ UNCHANGED <<vars, stage, checked>>
       ELSE Begin("failed")

Summarise ==
  /\ stage = "latency"
  /\ done = Iterations + Warmup
  /\ Begin("summary")

EvaluationNext ==
  \/ RelevanceStep \/ EndRelevance \/ AtpScenario \/ EndAtpScenarios
  \/ LatencyRequest \/ Summarise

EvaluationSpec == EvaluationInit /\ [][EvaluationNext]_<<vars, suite>>

-----------------------------------------------------------------------------
(* Properties *)

\* The SKUs the benches hard-code exist.  Ids number the whole catalog: one value
\* more in a family, or another order of the loops, renames every product after it
\* (seed.py:262-267; inventory_scenarios.py:16-20; latency.py:21-24).
BenchSkusExist == stage # "failed"

\* Every stock row of every scenario was checked, and the warm-up was not timed.
TalliesAreWhole ==
  /\ checked = Len(SCENARIO_SKUS) * Cardinality(WAREHOUSES)
  /\ timed = Iterations

Queries == DOMAIN LABELED_QUERIES
Typos == {n \in Queries : LABELED_QUERIES[n].has_typo}
FewRelevant == {n \in Queries : Sizes[n] < 10}

\* The sum over the labels of the most relevant products the first k places can hold.
Ceiling(labels, k) == MapThenSumSet(LAMBDA n : Min({k, Sizes[n]}), labels)

Ceilings == << Ceiling(Queries, 1), Ceiling(Queries, 5), Ceiling(Queries, 10),
               Ceiling(Typos, 1), Ceiling(Typos, 5), Ceiling(Typos, 10) >>

\* RESULTS.md:90-105 reports the most that any search engine could score: precision@1,
\* @5 and @10 of 16/16, 75/80 and 137/160 for the queries and of 10/10, 50/50 and
\* 96/100 for the typos; six queries have fewer than ten relevant products, from two to
\* nine.  Forty stock rows are checked (RESULTS.md:107), and the warm-up is not timed.
ReportedIsTheCeiling ==
  stage = "summary" =>
    /\ Ceilings = <<16, 75, 137, 10, 50, 96>>
    /\ Cardinality(FewRelevant) = 6
    /\ \A n \in FewRelevant : Sizes[n] \in 2 .. 9
    /\ checked = 40 /\ TalliesAreWhole
=============================================================================
