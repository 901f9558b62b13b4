----------------------------- MODULE MCOrderQueue -----------------------------
(* A small instance of the queues and their pool for TLC. *)
EXTENDS OrderQueue

\* Queues and the contents of orders are interchangeable.
Symmetry == Permutations(Queues) \cup Permutations(Orders)
=============================================================================
