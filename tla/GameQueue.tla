------------------------------ MODULE GameQueue ------------------------------
(***************************************************************************)
(* The gamequeue plugin: users queue games, and every three seconds the    *)
(* first is handed to a hosting bot that is in the channel, was not used   *)
(* within ten seconds, and has no game in the table gamelist, which the    *)
(* bots write themselves.  The order goes by whispers through the output   *)
(* queue, which may discard them.                                          *)
(***************************************************************************)
EXTENDS Naturals, Sequences, FiniteSets

CONSTANTS
  Owners,
  Bots,
  MaxGames  \* bound on the games queued

VARIABLES
  mapLoaded,  \* userMaps: users who have chosen a map
  games,      \* the games that were queued, by owner
  hostQueue,  \* numbers of games
  pausing,    \* lastTime is less than three seconds ago
  resting,    \* bots whose gqBotTime is less than ten seconds ago
  botsHere,   \* bots in the channel
  gamelist,   \* the table: the owner of a bot's game in lobby, or NoOwner
  orders,     \* games a bot was told to host and has not yet
  late,       \* history: bots whose ten seconds were over before they had hosted
  fate        \* history: what became of a game

gameVars == <<mapLoaded, games, hostQueue, pausing, resting, botsHere, gamelist, orders, late,
              fate>>

NoOwner == "none"
InQueue(g) == g \in {hostQueue[i] : i \in DOMAIN hostQueue}
HasQueued(u) == \E i \in DOMAIN hostQueue : games[hostQueue[i]] = u
InLobby(u) == \E b \in Bots : gamelist[b] = u

GameInit == /\ mapLoaded = {} /\ games = <<>> /\ hostQueue = <<>>
            /\ pausing = FALSE /\ resting = {} /\ botsHere = {}
            /\ gamelist = [b \in Bots |-> NoOwner] /\ orders = [b \in Bots |-> <<>>]
            /\ late = {} /\ fate = <<>>

-----------------------------------------------------------------------------
(* onCommand.                                                              *)

LoadMap(u) ==
  /\ mapLoaded' = mapLoaded \cup {u}
  /\ UNCHANGED <<games, hostQueue, pausing, resting, botsHere, gamelist, orders, late, fate>>

\* "pub" and "priv": one game in the queue for a user who has chosen a map.
QueueGame(u) ==
  /\ u \in mapLoaded /\ ~HasQueued(u) /\ Len(games) < MaxGames
  /\ games' = Append(games, u)
  /\ hostQueue' = Append(hostQueue, Len(games'))
  /\ fate' = Append(fate, "queued")
  /\ UNCHANGED <<mapLoaded, pausing, resting, botsHere, gamelist, orders, late>>

\* "unhost" takes the user's first game out of the queue.
Unhost(u) ==
  /\ \E i \in DOMAIN hostQueue :
       /\ games[hostQueue[i]] = u
       /\ \A j \in 1..(i - 1) : games[hostQueue[j]] # u
       /\ hostQueue' = SubSeq(hostQueue, 1, i - 1) \o SubSeq(hostQueue, i + 1, Len(hostQueue))
       /\ fate' = [fate EXCEPT ![hostQueue[i]] = "unhosted"]
  /\ UNCHANGED <<mapLoaded, games, pausing, resting, botsHere, gamelist, orders, late>>

-----------------------------------------------------------------------------
(* onUpdate.                                                               *)

\* Mutant: a bot may be used again at once.
PotentialTired == {b \in botsHere : gamelist[b] = NoOwner}

PotentialBots == {b \in botsHere \ resting : gamelist[b] = NoOwner}

\* The attempt of every three seconds, which takes the first game out if a bot is free.
Attempt == ~pausing /\ hostQueue # <<>> /\ pausing' = TRUE

TakeOut(what) == /\ PotentialBots # {}
                 /\ hostQueue' = Tail(hostQueue)
                 /\ fate' = [fate EXCEPT ![Head(hostQueue)] = what]

\* No bot is free, or the database fails before the game is taken out.
HostNothing ==
  /\ Attempt
  /\ UNCHANGED <<mapLoaded, games, hostQueue, resting, botsHere, gamelist, orders, late, fate>>

\* Its owner has a game in lobby; or the database fails on the question, and the game is
\* lost.
RefuseGame ==
  /\ Attempt
  /\ \/ InLobby(games[Head(hostQueue)]) /\ TakeOut("refused")
     \/ TakeOut("lost")
  /\ UNCHANGED <<mapLoaded, games, resting, botsHere, gamelist, orders, late>>

\* A bot is whispered the map and the game; if the output queue discards either, it does
\* not host.
HostGame(arrives) ==
  /\ Attempt /\ ~InLobby(games[Head(hostQueue)])
  /\ TakeOut(IF arrives THEN "ordered" ELSE "lost")
  /\ \E b \in PotentialBots :
       /\ resting' = resting \cup {b}
       /\ orders' = IF arrives THEN [orders EXCEPT ![b] = Append(@, Head(hostQueue))] ELSE orders
  /\ UNCHANGED <<mapLoaded, games, botsHere, gamelist, late>>

PauseOver ==
  /\ pausing
  /\ pausing' = FALSE
  /\ UNCHANGED <<mapLoaded, games, hostQueue, resting, botsHere, gamelist, orders, late, fate>>

\* Ten seconds are over, whether or not the bot has hosted: the whispers may still wait in
\* m_OutPackets, or the bot be slow.
RestOver(b) ==
  /\ b \in resting
  /\ resting' = resting \ {b}
  /\ late' = IF orders[b] = <<>> THEN late ELSE late \cup {b}
  /\ UNCHANGED <<mapLoaded, games, hostQueue, pausing, botsHere, gamelist, orders, fate>>

-----------------------------------------------------------------------------
(* The hosting bots.                                                       *)

\* A bot that has a game in lobby does not host another.
BotHosts(b) ==
  /\ orders[b] # <<>>
  /\ gamelist' = [gamelist EXCEPT ![b] = IF @ = NoOwner THEN games[Head(orders[b])] ELSE @]
  /\ orders' = [orders EXCEPT ![b] = Tail(@)]
  /\ late' = IF orders'[b] = <<>> THEN late \ {b} ELSE late
  /\ UNCHANGED <<mapLoaded, games, hostQueue, pausing, resting, botsHere, fate>>

BotStarts(b) ==
  /\ gamelist[b] # NoOwner
  /\ gamelist' = [gamelist EXCEPT ![b] = NoOwner]
  /\ UNCHANGED <<mapLoaded, games, hostQueue, pausing, resting, botsHere, orders, late, fate>>

BotMoves(b) ==
  /\ botsHere' = IF b \in botsHere THEN botsHere \ {b} ELSE botsHere \cup {b}
  /\ UNCHANGED <<mapLoaded, games, hostQueue, pausing, resting, gamelist, orders, late, fate>>

GameNext == \/ \E u \in Owners : LoadMap(u) \/ QueueGame(u) \/ Unhost(u)
            \/ HostNothing \/ RefuseGame \/ PauseOver
            \/ \E arrives \in BOOLEAN : HostGame(arrives)
            \/ \E b \in Bots : RestOver(b) \/ BotHosts(b) \/ BotStarts(b) \/ BotMoves(b)

-----------------------------------------------------------------------------
(* Properties.                                                             *)

\* A bot is given no game while it has another in lobby or still to host, though it lists
\* its game only some time after it was told, unless that takes it longer than the ten
\* seconds in which it is not chosen again; and games leave the queue in turn, one at a
\* time, to one end each, a user's next after his last.
GamesWellPlaced ==
  /\ \A b \in Bots \ late : Len(orders[b]) + (IF gamelist[b] = NoOwner THEN 0 ELSE 1) <= 1
  /\ \A g \in DOMAIN games : InQueue(g) <=> fate[g] = "queued"
  /\ \A i, j \in DOMAIN hostQueue :
       i < j => hostQueue[i] < hostQueue[j] /\ games[hostQueue[i]] # games[hostQueue[j]]
  /\ \A g, h \in DOMAIN games :
       g < h /\ games[g] = games[h] => fate[g] # "queued"
=============================================================================
