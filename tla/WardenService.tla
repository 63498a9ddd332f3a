---------------------------- MODULE WardenService ----------------------------
(***************************************************************************)
(* What battle.net sees of the Warden relay: in each session it asks, and  *)
(* is answered in turn.  An answer may be missing (there is a server that  *)
(* computes them, which may fail), but none comes twice, out of turn, or   *)
(* from another session.                                                   *)
(***************************************************************************)
EXTENDS Naturals

VARIABLES session, asked, last  \* how often it asked in this session, and the last
                                \* question that was answered

vars == <<session, asked, last>>

Init == session = 0 /\ asked = 0 /\ last = 0

Begin == session' = session + 1 /\ asked' = 0 /\ last' = 0

Ask == asked' = asked + 1 /\ UNCHANGED <<session, last>>

Answer == last' \in (last + 1)..asked /\ UNCHANGED <<session, asked>>

Next == Begin \/ Ask \/ Answer

Spec == Init /\ [][Next]_vars
=============================================================================
