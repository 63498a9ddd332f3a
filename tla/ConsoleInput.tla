----------------------------- MODULE ConsoleInput -----------------------------
(***************************************************************************)
(* Lines typed at the console.  A thread of its own reads them and puts    *)
(* each into the one slot m_InputMessage; the main loop takes what it      *)
(* finds there to every server in turn, under the same mutex.  A line that *)
(* begins with a server's command trigger is a command for it; what is no  *)
(* command for a server is said there.                                     *)
(***************************************************************************)
EXTENDS Naturals, Sequences, FiniteSets

CONSTANTS
  Triggers,  \* the command triggers of the servers, in the order of m_BNETs
  MaxLines   \* bound on the lines typed

ASSUME ConsoleAssumption == Triggers \in Seq(STRING) /\ MaxLines \in Nat

VARIABLES
  typed,         \* the lines typed: [begins, exit, blank]
  readLine,      \* the line inputLoop has read and not stored, or NoLine
  inputMessage,  \* the line in the slot, or NoLine
  mainHolds,     \* the main loop holds m_InputMutex
  serverTurn,    \* the server it is at
  exitingServers,\* servers whose m_Exiting is set
  bnetExit,      \* BNETExit
  ended,         \* the main loop has ended
  ran,           \* history: [line, server, as]
  overwritten    \* history: lines that were replaced in the slot

consoleVars == <<typed, readLine, inputMessage, mainHolds, serverTurn, exitingServers,
                 bnetExit, ended, ran, overwritten>>

NoLine == 0
Lines == 1..MaxLines
ServerNumbers == DOMAIN Triggers
LineKinds ==
  {[begins |-> Triggers[s], exit |-> e, blank |-> FALSE] : s \in ServerNumbers, e \in BOOLEAN}
    \cup {[begins |-> "text", exit |-> FALSE, blank |-> b] : b \in BOOLEAN}

ConsoleInit == /\ typed = <<>> /\ readLine = NoLine /\ inputMessage = NoLine
               /\ mainHolds = FALSE /\ serverTurn = 1
               /\ exitingServers = {} /\ bnetExit = FALSE /\ ended = FALSE
               /\ ran = <<>> /\ overwritten = {}

\* inputLoop: CONSOLE_Read returns a line, perhaps a blank one.
ReadLine(kind) ==
  /\ readLine = NoLine /\ Len(typed) < MaxLines
  /\ typed' = Append(typed, kind)
  /\ readLine' = Len(typed')
  /\ UNCHANGED <<inputMessage, mainHolds, serverTurn, exitingServers, bnetExit, ended, ran,
                 overwritten>>

\* Mutant: the mutex is not taken.
StoreUnlocked ==
  /\ readLine # NoLine
  /\ inputMessage' = IF typed[readLine].blank THEN NoLine ELSE readLine
  /\ overwritten' = IF inputMessage = NoLine THEN overwritten
                    ELSE overwritten \cup {inputMessage}
  /\ readLine' = NoLine
  /\ UNCHANGED <<typed, mainHolds, serverTurn, exitingServers, bnetExit, ended, ran>>

\* inputLoop: the line goes into the slot, whether or not the one before was taken; a blank
\* one empties it.
StoreLine ==
  /\ readLine # NoLine /\ ~mainHolds
  /\ inputMessage' = IF typed[readLine].blank THEN NoLine ELSE readLine
  /\ overwritten' = IF inputMessage = NoLine THEN overwritten
                    ELSE overwritten \cup {inputMessage}
  /\ readLine' = NoLine
  /\ UNCHANGED <<typed, mainHolds, serverTurn, exitingServers, bnetExit, ended, ran>>

\* CChOP::Update up to the console: the servers are updated, and a server that is to exit
\* says so; then the mutex is taken.
BeginInput ==
  /\ ~ended /\ ~mainHolds
  /\ bnetExit' = (exitingServers # {})
  /\ mainHolds' = TRUE
  /\ serverTurn' = IF inputMessage = NoLine THEN Len(Triggers) + 1 ELSE 1
  /\ UNCHANGED <<typed, readLine, inputMessage, exitingServers, ended, ran, overwritten>>

\* The line is a command for the next server, or said there.
RunLine ==
  /\ mainHolds /\ serverTurn \in ServerNumbers
  /\ LET line == typed[inputMessage]
         forIt == line.begins = Triggers[serverTurn]
     IN  /\ ran' = Append(ran, [line |-> inputMessage, server |-> serverTurn,
                                as |-> IF forIt THEN "command" ELSE "chat"])
         /\ exitingServers' = IF forIt /\ line.exit THEN exitingServers \cup {serverTurn}
                                                    ELSE exitingServers
  /\ serverTurn' = serverTurn + 1
  /\ UNCHANGED <<typed, readLine, inputMessage, mainHolds, bnetExit, ended, overwritten>>

\* Mutant: the mutex is not given back.
EndInputHolding ==
  /\ mainHolds /\ serverTurn > Len(Triggers)
  /\ inputMessage' = NoLine
  /\ ended' = bnetExit
  /\ UNCHANGED <<typed, readLine, mainHolds, serverTurn, exitingServers, bnetExit, ran, overwritten>>

\* The slot is emptied and the mutex given back; the program ends if a server said so in
\* this pass.
EndInput ==
  /\ mainHolds /\ serverTurn > Len(Triggers)
  /\ inputMessage' = NoLine
  /\ mainHolds' = FALSE /\ serverTurn' = 1
  /\ ended' = bnetExit
  /\ UNCHANGED <<typed, readLine, exitingServers, bnetExit, ran, overwritten>>

ConsoleNext == \/ \E kind \in LineKinds : ReadLine(kind)
               \/ StoreLine \/ BeginInput \/ RunLine \/ EndInput

MainLoop == BeginInput \/ RunLine \/ EndInput

-----------------------------------------------------------------------------
(* Properties.                                                             *)

RanAt(l) == {ran[i].server : i \in {j \in DOMAIN ran : ran[j].line = l}}
Done(l) == RanAt(l) = ServerNumbers

\* Lines are run in the order in which they were typed, each by all servers before the
\* next one, and by each server once; a line that is neither in the slot nor on its way
\* there was run by all of them, or was replaced before any of them ran it.
LinesInOrder ==
  /\ \A i, j \in DOMAIN ran : i < j =>
       \/ ran[i].line < ran[j].line /\ Done(ran[i].line)
       \/ ran[i].line = ran[j].line /\ ran[i].server < ran[j].server
  /\ \A l \in DOMAIN typed \ {readLine, inputMessage} :
       typed[l].blank \/ Done(l) \/ (l \in overwritten /\ RanAt(l) = {})

\* A line that is not replaced is run by all servers, unless an exit comes before it: the
\* reader is not shut out by the main loop, nor the main loop by the reader.
LineRuns == \A l \in Lines :
  l = readLine ~> ended \/ l \in overwritten \/ (l \in DOMAIN typed /\ (typed[l].blank \/ Done(l)))
=============================================================================
