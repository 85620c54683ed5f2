----------------------------- MODULE MCSeeding ------------------------------
(* Small instances of Seeding for TLC. *)
EXTENDS Seeding, TLC

CONSTANTS w1, w2, s1, s2

MCOnHand == [r \in Rows |-> 2]

Symmetry == Permutations({w1, w2}) \cup Permutations({s1, s2})
=============================================================================
