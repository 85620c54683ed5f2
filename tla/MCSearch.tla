------------------------------ MODULE MCSearch ------------------------------
(* Small instances of Search for TLC. *)
EXTENDS Search

MCFacetValues ==
  [category |-> {"Fasteners", "Safety"}, brand |-> {"Titan"},
   material |-> {"Steel"}, attribute |-> {"M8"}]

\* A full hit, a hit in the description only, one that looks alike as well, a
\* typo and a stranger whose rank is high nevertheless.
MCJudgements ==
  {[lex_match |-> TRUE, lex_rank |-> 10, fuzzy |-> 95],
   [lex_match |-> TRUE, lex_rank |-> 1, fuzzy |-> 40],
   [lex_match |-> FALSE, lex_rank |-> 0, fuzzy |-> 95],
   [lex_match |-> FALSE, lex_rank |-> 12, fuzzy |-> 40]}
=============================================================================
