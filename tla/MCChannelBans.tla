--------------------------- MODULE MCChannelBans ----------------------------
(* Two users, a queue that takes two commands, two events under way, three *)
(* changes of the operator flag and of the channel.                        *)
EXTENDS ChannelBans, TLC

Symmetry == Permutations(Names)
=============================================================================
