------------------------------ MODULE MCRecovery ------------------------------
(* A small instance of the engine with crashes and recovery for TLC. *)
EXTENDS Recovery

\* The instance meets what the theorems about recovery ask of the constants.
ASSUME InstanceAssumption == FreshIds /\ WholeTicks /\ PoolHasRoom

\* Order ids are only ever compared for equality.
Symmetry == Permutations(OrderIds)
=============================================================================
