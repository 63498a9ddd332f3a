---------------------------- MODULE MCUserCache -----------------------------
(* UserCache for TLC: two names, the second the root admin, and a heap of   *)
(* five addresses, so that both names can be in both maps and in a list in  *)
(* flight while a leaked object still takes up space.                       *)
EXTENDS UserCache, TLC

Addresses == Permutations(Obj)
=============================================================================
