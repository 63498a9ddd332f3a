------------------------------ MODULE MCDBPool ------------------------------
(* A pool that closes what comes back to two idle connections.             *)
EXTENDS DBPool, TLC

Symmetry == Permutations(Connections) \cup Permutations(Callables)
=============================================================================
