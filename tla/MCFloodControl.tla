--------------------------- MODULE MCFloodControl ---------------------------
(* FloodControl for TLC: the clock wraps after 20 s instead of 49.7 days,   *)
(* which is longer than any wait and a time of idleness; steps of one       *)
(* second and of eight fall short of, meet and exceed the waits of two      *)
(* sizes of packets.                                                        *)
EXTENDS FloodControl
=============================================================================
