----------------------------- MODULE MCBanSync ------------------------------
(* BanSync for TLC.  Names do not interact; two servers do, by the unban    *)
(* that names no server; two callables race with each other and the lists.  *)
EXTENDS BanSync
=============================================================================
