------------------------------ MODULE VoteKick ------------------------------
(***************************************************************************)
(* The votekick plugin: votes on users, kept for all servers together, and *)
(* counted when a minute is over.  What it says, and the kick, goes        *)
(* through the output queue of a server, which discards what comes when it *)
(* is full.                                                                *)
(***************************************************************************)
EXTENDS Integers, Sequences, FiniteSets

CONSTANTS
  Voters,
  Victims,
  Hosts,       \* the battle.net servers the bot is on
  VotesNeeded, \* votes that get a victim kicked: 4
  ChatRoom     \* how much a server's queue takes before it discards

VARIABLES
  votekicks,   \* victim -> count and voters, or NoVote
  overdue,     \* victims whose minute is over
  votekickBnet,\* the server of the last command, or NoHost
  chatQueue,   \* what waits in a server's queue
  ayes, noes   \* who voted how, as long as a vote lasts

voteVars == <<votekicks, overdue, votekickBnet, chatQueue, ayes, noes>>

NoHost == "none"
NoVote == [count |-> 0, voted |-> {}, open |-> FALSE]

VoteInit == /\ votekicks = [v \in Victims |-> NoVote]
            /\ overdue = {}
            /\ votekickBnet = NoHost
            /\ chatQueue = [h \in Hosts |-> <<>>]
            /\ ayes = [v \in Victims |-> {}] /\ noes = [v \in Victims |-> {}]

Queued(h, message) ==
  chatQueue' = IF Len(chatQueue[h]) > ChatRoom THEN chatQueue
               ELSE [chatQueue EXCEPT ![h] = Append(@, message)]

\* What the plugin says: a kick, or news about a vote.
Kick(v) == <<"kick", v>>
News == <<"news">>

\* Mutant: who has voted may vote again.
VoteYesAgain(u, h, v) ==
  /\ votekickBnet' = h
  /\ LET vote == votekicks[v]
     IN  /\ vote.count < VotesNeeded
         /\ votekicks' = [votekicks EXCEPT ![v] = [count |-> vote.count + 1,
                                 voted |-> vote.voted \cup {u}, open |-> TRUE]]
         /\ ayes' = [ayes EXCEPT ![v] = @ \cup {u}]
         /\ Queued(h, News)
  /\ UNCHANGED <<overdue, noes>>

\* "votekick v" or "votekick v yes" begins a vote or adds to it.
VoteYes(u, h, v) ==
  /\ votekickBnet' = h
  /\ IF u \in votekicks[v].voted THEN UNCHANGED <<votekicks, ayes, chatQueue>>
     ELSE /\ votekicks' = [votekicks EXCEPT ![v] = [count |-> @.count + 1,
                                 voted |-> @.voted \cup {u}, open |-> TRUE]]
          /\ ayes' = [ayes EXCEPT ![v] = @ \cup {u}]
          /\ Queued(h, News)
  /\ UNCHANGED <<overdue, noes>>

\* A vote against: the third word is taken for the victim, "votekick v no v".
VoteNo(u, h, v) ==
  /\ votekickBnet' = h
  /\ IF ~votekicks[v].open \/ u \in votekicks[v].voted
       THEN UNCHANGED <<votekicks, noes, chatQueue>>
       ELSE /\ votekicks' = [votekicks EXCEPT ![v] = [count |-> @.count - 1,
                                   voted |-> @.voted \cup {u}, open |-> TRUE]]
            /\ noes' = [noes EXCEPT ![v] = @ \cup {u}]
            /\ Queued(h, News)
  /\ UNCHANGED <<overdue, ayes>>

\* Any other command, on any server; "votekick v no" raises an exception after this.
OtherCommand(h) ==
  /\ votekickBnet' = h
  /\ UNCHANGED <<votekicks, overdue, chatQueue, ayes, noes>>

\* onUpdate: one vote whose minute is over.
Expire(v) ==
  /\ v \in overdue
  /\ Queued(votekickBnet, IF votekicks[v].count >= VotesNeeded THEN Kick(v) ELSE News)
  /\ votekicks' = [votekicks EXCEPT ![v] = NoVote]
  /\ overdue' = overdue \ {v}
  /\ ayes' = [ayes EXCEPT ![v] = {}] /\ noes' = [noes EXCEPT ![v] = {}]
  /\ UNCHANGED votekickBnet

MinutePasses(v) ==
  /\ votekicks[v].open /\ v \notin overdue
  /\ overdue' = overdue \cup {v}
  /\ UNCHANGED <<votekicks, votekickBnet, chatQueue, ayes, noes>>

\* CBNET sends what it has queued.
SendChat(h) ==
  /\ chatQueue[h] # <<>>
  /\ chatQueue' = [chatQueue EXCEPT ![h] = Tail(@)]
  /\ UNCHANGED <<votekicks, overdue, votekickBnet, ayes, noes>>

VoteNext == \/ \E u \in Voters, h \in Hosts, v \in Victims : VoteYes(u, h, v) \/ VoteNo(u, h, v)
            \/ \E h \in Hosts : OtherCommand(h) \/ SendChat(h)
            \/ \E v \in Victims : Expire(v) \/ MinutePasses(v)

-----------------------------------------------------------------------------
(* Properties.                                                             *)

\* A vote counts its voters for and against, each once, on whatever server they are and
\* however often they try; so a kick, which four votes more for than against decide, has
\* at least four users behind it.
VotesAreCounted ==
  \A v \in Victims : /\ votekicks[v].count = Cardinality(ayes[v]) - Cardinality(noes[v])
                     /\ ayes[v] \cap noes[v] = {}
                     /\ votekicks[v].voted = ayes[v] \cup noes[v]
=============================================================================
