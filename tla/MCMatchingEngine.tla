--------------------------- MODULE MCMatchingEngine ---------------------------
(* Small instances of the matching engine for TLC. *)
EXTENDS MatchingEngine

\* Order ids and traders are only ever compared for equality.
Symmetry == Permutations(OrderIds) \cup Permutations(Traders)
=============================================================================
