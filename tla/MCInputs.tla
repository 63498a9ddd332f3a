------------------------------ MODULE MCInputs ------------------------------
(* What the main loop serves besides battle.net's protocol: the console,   *)
(* what users say and order, and the plugins with a protocol of their own. *)
(* They share nothing that is modelled, so each is run by itself: active   *)
(* names the one that is.                                                  *)
EXTENDS Trivia, VoteKick, ChatQueue, GameQueue, ConsoleInput, ChatInput

VARIABLE active

vars == <<triviaVars, voteVars, queueVars, gameVars, consoleVars, chatVars, active>>

TwoTriggers == <<"!", ".">>

Access == [stranger |-> 0, member |-> 3]
Levels == [owner |-> 0, uptime |-> 12, version |-> -1, say |-> 3, invite |-> 0, seen |-> 0,
           stats |-> 0, clear |-> 0]
Strict == [antiSpam |-> TRUE, antiYell |-> TRUE, phraseKick |-> TRUE, disablePublic |-> TRUE,
           disableBanned |-> FALSE, whisperAllowed |-> FALSE, displayNoAccess |-> TRUE]
Open == [antiSpam |-> FALSE, antiYell |-> FALSE, phraseKick |-> FALSE, disablePublic |-> FALSE,
         disableBanned |-> TRUE, whisperAllowed |-> TRUE, displayNoAccess |-> FALSE]
TwoSettings == {Strict, Open}

Init == /\ TriviaInit /\ VoteInit /\ QueueInit /\ GameInit /\ ConsoleInit /\ ChatInit
        /\ active \in {"trivia", "votekick", "queue", "games", "console", "chat"}
        /\ active # "chat" => settings = Open /\ spamCacheSize = LongestCache

Next ==
  /\ UNCHANGED active
  /\ \/ active = "trivia" /\ TriviaNext
        /\ UNCHANGED <<voteVars, queueVars, gameVars, consoleVars, chatVars>>
     \/ active = "votekick" /\ VoteNext
        /\ UNCHANGED <<triviaVars, queueVars, gameVars, consoleVars, chatVars>>
     \/ active = "queue" /\ QueueNext
        /\ UNCHANGED <<triviaVars, voteVars, gameVars, consoleVars, chatVars>>
     \/ active = "games" /\ GameNext
        /\ UNCHANGED <<triviaVars, voteVars, queueVars, consoleVars, chatVars>>
     \/ active = "console" /\ ConsoleNext
        /\ UNCHANGED <<triviaVars, voteVars, queueVars, gameVars, chatVars>>
     \/ active = "chat" /\ ChatNext
        /\ UNCHANGED <<triviaVars, voteVars, queueVars, gameVars, consoleVars>>

\* The Update handlers are called again and again while the clock goes on, and the
\* queues are sent; a slave's too, which is connected or connects, and reads what it is
\* sent.  The main loop goes on until it ends, and sleeps for up to 50 ms in every pass
\* without the mutex, so that the reader gets it.  Nobody is owed a command, an answer,
\* a vote or a line.
Fairness ==
  /\ WF_triviaVars(active = "trivia" /\ Hint)
  /\ WF_queueVars(active = "queue" /\ OnQueue)
  /\ \A s \in Slaves : WF_queueVars(active = "queue" /\ SlaveUpdate(s))
  /\ WF_consoleVars(active = "console" /\ MainLoop)
  /\ SF_consoleVars(active = "console" /\ StoreLine)

Spec == Init /\ [][Next]_vars /\ Fairness
=============================================================================
