--------------------------- MODULE MCConnection ---------------------------
(* Bounds for Connection: three packets under way, three faults.           *)
EXTENDS Connection
=============================================================================
