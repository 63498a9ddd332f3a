---------------------------- MODULE MCAccessSync ----------------------------
(* AccessSync for TLC: two callables outstanding at a time are enough for   *)
(* every pair of queries to race, next to the list that is always possible. *)
EXTENDS AccessSync
=============================================================================
