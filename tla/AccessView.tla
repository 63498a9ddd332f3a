----------------------------- MODULE AccessView -----------------------------
(***************************************************************************)
(* What the user cache of one battle.net connection promises, without its  *)
(* pointers: every name has ONE access level, whichever way it is looked   *)
(* up, however the user list (m_Users) and the channel list (m_Channel)    *)
(* come and go.  UserCache implements this specification.                  *)
(***************************************************************************)
EXTENDS Naturals

CONSTANTS
  Names,      \* user names, already lowercased as the maps' keys are
  Levels,     \* access levels
  RootLevel,  \* the level IsRootAdmin users are given when they talk
  Root        \* m_RootAdmin; need not be one of Names

VARIABLES
  listed,     \* names with an entry in the user list
  present,    \* names in the channel
  level       \* the access level a command of each name is judged by

viewVars == <<listed, present, level>>

ViewInit == /\ listed = {}
            /\ present = {}
            /\ level = [n \in Names |-> 0]

\* A stranger who talks becomes listed; the root admin's talk grants RootLevel.
Speaks(n, grant) ==
  /\ listed' = IF n \in listed \cup present THEN listed ELSE listed \cup {n}
  /\ level' = IF grant /\ n = Root THEN [level EXCEPT ![n] = RootLevel] ELSE level
  /\ UNCHANGED present

Joins(n) == present' = present \cup {n} /\ UNCHANGED <<listed, level>>

\* Names that leave the channel keep their level only if they are listed.
Departs(gone) ==
  /\ present' = present \ gone
  /\ level' = [n \in Names |-> IF n \in gone \ listed THEN 0 ELSE level[n]]
  /\ UNCHANGED listed

IsAdded(n, a) ==
  /\ listed' = listed \cup {n}
  /\ level' = [level EXCEPT ![n] = a]
  /\ UNCHANGED present

IsRemoved(n) ==
  /\ n \in listed
  /\ listed' = listed \ {n}
  /\ level' = [level EXCEPT ![n] = 0]
  /\ UNCHANGED present

\* The list is replaced by rows, a level for each name of its domain: listed
\* names without a row lose their level, names never listed keep theirs.
IsReplacedBy(rows) ==
  /\ listed' = DOMAIN rows
  /\ level' = [n \in Names |-> IF n \in DOMAIN rows THEN rows[n]
                               ELSE IF n \in listed THEN 0 ELSE level[n]]
  /\ UNCHANGED present

ViewNext ==
  \/ \E n \in Names : \/ \E grant \in BOOLEAN : Speaks(n, grant)
                      \/ Joins(n)
                      \/ IsRemoved(n)
                      \/ \E a \in Levels : IsAdded(n, a)
  \/ \E gone \in SUBSET Names : Departs(gone)
  \/ \E S \in SUBSET Names : \E rows \in [S -> Levels] : IsReplacedBy(rows)

ViewSpec == ViewInit /\ [][ViewNext]_viewVars
=============================================================================
