------------------------------ MODULE ChatQueue ------------------------------
(***************************************************************************)
(* The queue plugin: a master, whose chat commands go to whichever program *)
(* can say them first, and slaves that are connected to it.  Before a      *)
(* command is queued the master asks every slave for its delay, waits for  *)
(* the answers one slave after the other, and forwards the command if a    *)
(* slave is quicker.  It blocks meanwhile; the slaves go on.               *)
(*                                                                         *)
(* Whoever is to say a command queues it in its m_OutPackets, unless it is *)
(* not logged in or too much waits there already: then it discards it.     *)
(*                                                                         *)
(* A wire carries "ask", a command's header and its body (two sends); what *)
(* a slave has received is kept in packet_buf, which outlives connections. *)
(***************************************************************************)
EXTENDS Naturals, Sequences, FiniteSets

CONSTANTS
  Slaves,
  MaxCommands,     \* bound on the commands
  MaxConnections,  \* bound on the connections
  QueueLimit,      \* with more packets than this waiting, the next is discarded: 10
  MaxQueueFaults   \* bound on restarts and timeouts, and on losing battle.net

Master == "master"
Programs == Slaves \cup {Master}
Commands == 1..MaxCommands
Torn == 0  \* what a slave says if it takes other bytes for a command's body
NoConn == 0

ASSUME QueueAssumption == MaxCommands \in Nat /\ QueueLimit \in Nat /\ MaxQueueFaults \in Nat

VARIABLES
  waiting,      \* what waits in m_OutPackets of a program
  taken,        \* history: all that was left to a program to say, in order
  discarded,    \* history: what it discarded of that
  loggedIn,     \* programs whose CBNET has m_LoggedIn
  logouts,      \* connections to battle.net that were lost
  connections,  \* the master's list
  conn,         \* connections: slave, open at the master's and at the slave's end,
                \* requests on their way, delays on their way
  mainSocket,   \* a slave's connection
  packetBuf,    \* packet_buf of a slave
  at,           \* onQueue: "idle", "ask", "read", "forward"
  command,      \* the last command given to QueueChatCommand
  todo,         \* connections the comprehension has yet to go through
  kept,         \* those it keeps
  best,         \* best_connection and best_delay
  latest,       \* the variable of the comprehension, which Python 2 leaves behind
  queueFaults

queueVars == <<waiting, taken, discarded, loggedIn, logouts, connections, conn, mainSocket,
               packetBuf, at, command, todo, kept, best, latest, queueFaults>>
outs == <<waiting, taken, discarded, loggedIn, logouts>>
master == <<connections, at, command, todo, kept, best, latest>>
slaves == <<mainSocket, packetBuf>>

\* 600000 ms: more than any queue holds.
LoggedOutDelay == MaxCommands + 1
NoBest == [conn |-> NoConn, delay |-> MaxCommands + 2]

QueueInit == /\ waiting = [p \in Programs |-> <<>>] /\ taken = waiting
             /\ discarded = {} /\ loggedIn = Programs /\ logouts = 0
             /\ connections = <<>> /\ conn = <<>>
             /\ mainSocket = [s \in Slaves |-> NoConn]
             /\ packetBuf = [s \in Slaves |-> <<>>]
             /\ at = "idle" /\ command = 0 /\ todo = <<>> /\ kept = <<>>
             /\ best = NoBest /\ latest = NoConn
             /\ queueFaults = 0

QueueFault == queueFaults + logouts < MaxQueueFaults /\ queueFaults' = queueFaults + 1

\* totalDelayTime, in commands.
Delay(p) == Len(waiting[p])

\* QueueChatCommand after its handlers.
Queue(p, c) ==
  /\ taken' = [taken EXCEPT ![p] = Append(@, c)]
  /\ IF p \in loggedIn /\ Len(waiting[p]) <= QueueLimit
       THEN waiting' = [waiting EXCEPT ![p] = Append(@, c)] /\ UNCHANGED discarded
       ELSE discarded' = discarded \cup {c} /\ UNCHANGED waiting
  /\ UNCHANGED <<loggedIn, logouts>>

\* What a slave answers.
DelayTold(p) == IF p \in loggedIn THEN Delay(p) ELSE LoggedOutDelay

Ask == [what |-> "ask", command |-> Torn]
Header(c) == [what |-> "header", command |-> c]
Body(c) == [what |-> "body", command |-> c]

Send(c, bytes) == conn' = [conn EXCEPT ![c].requests = @ \o bytes]
CloseAtMaster(c) == conn' = [conn EXCEPT ![c].master = FALSE, ![c].delays = <<>>]

-----------------------------------------------------------------------------
(* The master: onQueue.                                                    *)

\* A command: without a delay, or without slaves, the master says it.
GiveCommand ==
  /\ at = "idle" /\ command < MaxCommands
  /\ command' = command + 1
  /\ best' = NoBest /\ kept' = <<>>
  /\ IF Delay(Master) = 0 \/ connections = <<>>
       THEN Queue(Master, command') /\ UNCHANGED <<at, todo>>
       ELSE at' = "ask" /\ todo' = connections /\ UNCHANGED outs
  /\ UNCHANGED <<connections, conn, slaves, latest, queueFaults>>

\* tryConnection( connection, 0 ): a socket whose other end is closed may take it or not.
AskDelay(works) ==
  /\ at = "ask" /\ todo # <<>>
  /\ LET c == Head(todo)
     IN  /\ works => conn[c].master
         /\ ~works => ~(conn[c].master /\ conn[c].slave)
         /\ latest' = c
         /\ IF works THEN Send(c, <<Ask>>) /\ kept' = Append(kept, c)
                     ELSE CloseAtMaster(c) /\ UNCHANGED kept
  /\ todo' = Tail(todo)
  /\ UNCHANGED <<outs, connections, slaves, at, command, best, queueFaults>>

\* connections[:] = [...]: the first time round, then the second.
Comprehended ==
  /\ at \in {"ask", "read"} /\ todo = <<>>
  /\ connections' = kept
  /\ IF at = "ask" THEN at' = "read" /\ todo' = kept /\ kept' = <<>>
                   ELSE at' = "forward" /\ UNCHANGED <<todo, kept>>
  /\ UNCHANGED <<outs, conn, slaves, command, best, latest, queueFaults>>

\* tryConnection( connection, 1 ): wait for the answer.
ReadDelay ==
  /\ at = "read" /\ todo # <<>> /\ conn[Head(todo)].delays # <<>>
  /\ LET c == Head(todo)
         delay == Head(conn[c].delays)
     IN  /\ latest' = c
         /\ conn' = [conn EXCEPT ![c].delays = Tail(@)]
         /\ kept' = Append(kept, c)
         /\ best' = IF delay < best.delay THEN [conn |-> c, delay |-> delay] ELSE best
  /\ todo' = Tail(todo)
  /\ UNCHANGED <<outs, connections, slaves, at, command, queueFaults>>

\* Or the slave has closed the connection, or a second has passed.
ReadFails ==
  /\ at = "read" /\ todo # <<>> /\ conn[Head(todo)].delays = <<>>
  /\ IF conn[Head(todo)].slave THEN QueueFault ELSE UNCHANGED queueFaults
  /\ latest' = Head(todo)
  /\ CloseAtMaster(Head(todo))
  /\ todo' = Tail(todo)
  /\ UNCHANGED <<outs, connections, slaves, at, command, kept, best>>

Quicker == best.conn # NoConn /\ best.delay < Delay(Master)

\* Mutant: the master says the command too.
ForwardAndSay ==
  /\ at = "forward" /\ Quicker /\ conn[latest].master
  /\ at' = "idle"
  /\ Send(best.conn, <<Header(command), Body(command)>>)
  /\ Queue(Master, command)
  /\ UNCHANGED <<connections, slaves, command, todo, kept, best, latest, queueFaults>>

\* Mutant: the body is not sent.
ForwardHeader ==
  /\ at = "forward" /\ Quicker /\ conn[latest].master
  /\ at' = "idle"
  /\ Send(best.conn, <<Header(command)>>)
  /\ UNCHANGED <<outs, connections, slaves, command, todo, kept, best, latest,
                 queueFaults>>

\* The command is sent to the best connection.
Forward ==
  /\ at = "forward" /\ Quicker /\ conn[latest].master
  /\ at' = "idle"
  /\ Send(best.conn, <<Header(command), Body(command)>>)
  /\ UNCHANGED <<outs, connections, slaves, command, todo, kept, best, latest,
                 queueFaults>>

\* It is lost if that connection has failed meanwhile, and if the print before it raises
\* an exception: it names the connection read last, which may be closed.
LoseCommand ==
  /\ at = "forward" /\ Quicker
  /\ ~conn[latest].master \/ ~conn[best.conn].slave \/ ~conn[latest].slave
  /\ at' = "idle"
  /\ IF conn[latest].master /\ ~conn[best.conn].slave THEN CloseAtMaster(best.conn)
                                                      ELSE UNCHANGED conn
  /\ UNCHANGED <<outs, connections, slaves, command, todo, kept, best, latest,
                 queueFaults>>

SayMyself ==
  /\ at = "forward" /\ ~Quicker
  /\ at' = "idle"
  /\ Queue(Master, command)
  /\ UNCHANGED <<connections, conn, slaves, command, todo, kept, best, latest, queueFaults>>

-----------------------------------------------------------------------------
(* onUpdate.                                                               *)

\* The master accepts a connection.
Accept ==
  /\ at = "idle"
  /\ \E c \in DOMAIN conn :
       /\ ~conn[c].accepted
       /\ connections' = Append(connections, c)
       /\ conn' = [conn EXCEPT ![c].accepted = TRUE]
  /\ UNCHANGED <<outs, slaves, at, command, todo, kept, best, latest, queueFaults>>

\* A slave connects, five seconds after it tried or failed.
ConnectSlave(s) ==
  /\ mainSocket[s] = NoConn /\ Len(conn) < MaxConnections
  /\ conn' = Append(conn, [of |-> s, master |-> TRUE, slave |-> TRUE, accepted |-> FALSE,
                           requests |-> <<>>, delays |-> <<>>])
  /\ mainSocket' = [mainSocket EXCEPT ![s] = Len(conn')]
  /\ UNCHANGED <<outs, master, packetBuf, queueFaults>>

\* It reads what has arrived of the requests, or finds the connection closed.
ReadRequests(s, k) ==
  /\ mainSocket[s] # NoConn
  /\ LET c == mainSocket[s]
     IN  /\ k \in 1..Len(conn[c].requests)
         /\ packetBuf' = [packetBuf EXCEPT ![s] = @ \o SubSeq(conn[c].requests, 1, k)]
         /\ conn' = [conn EXCEPT ![c].requests = SubSeq(@, k + 1, Len(@))]
  /\ UNCHANGED <<outs, master, mainSocket, queueFaults>>

FindClosed(s) ==
  /\ mainSocket[s] # NoConn
  /\ LET c == mainSocket[s]
     IN  /\ ~conn[c].master /\ conn[c].requests = <<>>
         /\ conn' = [conn EXCEPT ![c].slave = FALSE]
  /\ mainSocket' = [mainSocket EXCEPT ![s] = NoConn]
  /\ UNCHANGED <<outs, master, packetBuf, queueFaults>>

\* One packet of packet_buf: the delay is sent, a long one by who is not logged in.
AnswerDelay(s) ==
  /\ mainSocket[s] # NoConn
  /\ packetBuf[s] # <<>> /\ Head(packetBuf[s]).what = "ask"
  /\ packetBuf' = [packetBuf EXCEPT ![s] = Tail(@)]
  /\ LET c == mainSocket[s]
     IN  conn' = IF conn[c].master THEN [conn EXCEPT ![c].delays = Append(@, DelayTold(s))]
                                   ELSE conn
  /\ UNCHANGED <<outs, master, mainSocket, queueFaults>>

\* A command: the bytes behind the header, as many as it says, whatever they are.
TakeCommand(s) ==
  /\ mainSocket[s] # NoConn
  /\ Len(packetBuf[s]) >= 2 /\ Head(packetBuf[s]).what # "ask"
  /\ packetBuf' = [packetBuf EXCEPT ![s] = SubSeq(@, 3, Len(@))]
  /\ Queue(s, IF packetBuf[s][2].what = "body" THEN packetBuf[s][2].command ELSE Torn)
  /\ UNCHANGED <<master, conn, mainSocket, queueFaults>>

\* A program says what it has queued.
SayQueued(p) ==
  /\ p \in loggedIn /\ waiting[p] # <<>>
  /\ waiting' = [waiting EXCEPT ![p] = Tail(@)]
  /\ UNCHANGED <<taken, discarded, loggedIn, logouts, master, slaves, conn, queueFaults>>

\* It loses its connection to battle.net, with what it has queued, which is thrown away
\* when it connects again; and logs on.
LogOut(p) ==
  /\ p \in loggedIn /\ queueFaults + logouts < MaxQueueFaults
  /\ logouts' = logouts + 1
  /\ loggedIn' = loggedIn \ {p}
  /\ UNCHANGED <<waiting, taken, discarded, master, slaves, conn, queueFaults>>

Reconnect(p) ==
  /\ p \notin loggedIn /\ waiting[p] # <<>>
  /\ waiting' = [waiting EXCEPT ![p] = <<>>]
  /\ UNCHANGED <<taken, discarded, loggedIn, logouts, master, slaves, conn, queueFaults>>

LogIn(p) ==
  /\ p \notin loggedIn /\ waiting[p] = <<>>
  /\ loggedIn' = loggedIn \cup {p}
  /\ UNCHANGED <<waiting, taken, discarded, logouts, master, slaves, conn, queueFaults>>

\* A slave ends and is started again, without a connection to battle.net yet.
RestartSlave(s) ==
  /\ QueueFault
  /\ mainSocket[s] # NoConn
  /\ conn' = [conn EXCEPT ![mainSocket[s]].slave = FALSE]
  /\ mainSocket' = [mainSocket EXCEPT ![s] = NoConn]
  /\ packetBuf' = [packetBuf EXCEPT ![s] = <<>>]
  /\ waiting' = [waiting EXCEPT ![s] = <<>>]
  /\ loggedIn' = loggedIn \ {s}
  /\ UNCHANGED <<taken, discarded, logouts, master>>

\* What onQueue does without waiting for anybody but the slaves, and a slave's onUpdate.
OnQueue == \/ \E works \in BOOLEAN : AskDelay(works)
           \/ Comprehended \/ ReadDelay \/ ReadFails \/ Forward \/ LoseCommand \/ SayMyself

SlaveUpdate(s) == \/ FindClosed(s) \/ AnswerDelay(s) \/ TakeCommand(s)
                  \/ \E k \in 1..2 * MaxCommands : ReadRequests(s, k)

QueueNext == \/ GiveCommand \/ OnQueue \/ Accept
             \/ \E s \in Slaves : ConnectSlave(s) \/ SlaveUpdate(s) \/ RestartSlave(s)
             \/ \E p \in Programs : SayQueued(p) \/ LogOut(p) \/ Reconnect(p) \/ LogIn(p)

-----------------------------------------------------------------------------
(* Properties.                                                             *)

Takings(c) == {taking \in Programs \X Commands :
                 LET p == taking[1]
                     i == taking[2]
                 IN  i \in DOMAIN taken[p] /\ taken[p][i] = c}

\* Every command is left to one program at most, and once, so that it is not said twice
\* nor said by one after another has discarded it; and only whole commands are.
SaidOnce == /\ \A c \in Commands : Cardinality(Takings(c)) <= 1
            /\ Takings(Torn) = {}

\* The end of each command, if no slave was restarted or late: it is queued to be said, or
\* a program that was not logged in or had too much to say has discarded it.  None is left
\* in a buffer or taken for what it is not, and the master does not wait for an answer
\* that does not come.
IsSaid(c) == c \notin discarded /\ \E p \in Programs : \E i \in DOMAIN taken[p] : taken[p][i] = c
AllSaid == \A c \in Commands : command = c ~> IsSaid(c) \/ c \in discarded \/ queueFaults > 0

\* Until then the master has it, or it is in what it has sent to a slave, or in what the
\* slave has received.
Carried(u, c) == \E i \in DOMAIN u : u[i].what = "body" /\ u[i].command = c
Underway(c) ==
  \/ at # "idle" /\ c = command
  \/ \E s \in Slaves :
       \/ Carried(packetBuf[s], c)
       \/ mainSocket[s] # NoConn /\ Carried(conn[mainSocket[s]].requests, c)
CommandsKept == queueFaults = 0 =>
                  \A c \in 1..command : Underway(c) \/ IsSaid(c) \/ c \in discarded
=============================================================================
