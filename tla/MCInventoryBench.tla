-------------------------- MODULE MCInventoryBench ---------------------------
(* Small instances of InventoryBench for TLC. *)
EXTENDS InventoryBench, TLC

Symmetry == Permutations(Workers)

MCLifecycleRow == <<"bolt", "TXDAL">>
MCLots == <<2, 1>>

\* More threads than lots, a remainder, and a shelf of less than a lot; the first
\* trial is on the row of the lifecycle, as in the bench.
MCTrials == <<[row |-> <<"bolt", "TXDAL">>, on_hand |-> 3, qty |-> 1],
              [row |-> <<"breaker", "CALAX">>, on_hand |-> 5, qty |-> 2],
              [row |-> <<"breaker", "TXDAL">>, on_hand |-> 1, qty |-> 2]>>
=============================================================================
