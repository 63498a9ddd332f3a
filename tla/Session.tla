------------------------------- MODULE Session -------------------------------
(***************************************************************************)
(* What the rest of the bot may rely on of a session with battle.net: it   *)
(* is down, or being tried, or logged in, or in chat; it passes through    *)
(* these in order, and falls back from any of them to down only.           *)
(***************************************************************************)
VARIABLE phase

Phases == {"down", "trying", "in", "chat"}

Init == phase = "down"

Try == phase = "down" /\ phase' = "trying"
LogIn == phase = "trying" /\ phase' = "in"
EnterChat == phase = "in" /\ phase' = "chat"
Fall == phase # "down" /\ phase' = "down"

Next == Try \/ LogIn \/ EnterChat \/ Fall

Spec == Init /\ [][Next]_phase
=============================================================================
