----------------------------- MODULE MCRiskEngine -----------------------------
(* A small instance of the risk engine for TLC. *)
EXTENDS RiskEngine, TLC

\* Order ids and traders are only ever compared for equality.
Symmetry == Permutations(OrderIds) \cup Permutations(Traders)
=============================================================================
