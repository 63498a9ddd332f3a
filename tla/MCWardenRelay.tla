--------------------------- MODULE MCWardenRelay ---------------------------
(* Bounds for WardenRelay: three sessions of two challenges, two faults.   *)
EXTENDS WardenRelay
=============================================================================
