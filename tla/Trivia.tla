------------------------------- MODULE Trivia -------------------------------
(***************************************************************************)
(* The trivia plugin and the scores it keeps in PluginDB: a cache of       *)
(* scores and row numbers, read from the table plugindb when the plugin is *)
(* loaded, and a row per user which every point is written to.             *)
(*                                                                         *)
(* A statement may fail, before or after the database has carried it out;  *)
(* PluginDB.execute tries once more and then lets the exception through,   *)
(* which ends the handler it was called from.  The plugin, or the program, *)
(* may end at any time, and is started again.                              *)
(***************************************************************************)
EXTENDS Naturals, Sequences, FiniteSets

CONSTANTS
  Players,
  MaxScore,        \* bound on the points of a player
  MaxQuestions,    \* bound on the questions fetched at a time
  MaxTriviaFaults  \* bound on failing statements and downloads, and on restarts

VARIABLES
  loaded,     \* the plugin is loaded
  enabled,    \* trivia_enabled
  stage,      \* trivia_state: 0, or how much has been shown of the question asked
  questions,  \* how many trivia_questions there are
  scores,     \* scoreTuple[0]: key -> score
  userids,    \* scoreTuple[1]: key -> number of its row, 0 if it is not known
  rows,       \* the table: rows in order of their numbers
  announced,  \* the last score of a player the channel was told
  solvers,    \* history: players credited for the question that was asked last
  earned,     \* history: how many questions a player has been credited for
  spoilt,     \* history: points of his that raised an exception
  triviaFaults

triviaVars == <<loaded, enabled, stage, questions, scores, userids, rows, announced, solvers,
                earned, spoilt, triviaFaults>>

None0 == [p \in Players |-> 0]

TriviaInit == /\ loaded = TRUE /\ enabled = FALSE /\ stage = 0 /\ questions = 0
              /\ scores = None0 /\ userids = None0 /\ rows = <<>>
              /\ announced = None0 /\ solvers = {} /\ earned = None0 /\ spoilt = None0
              /\ triviaFaults = 0

TriviaFault == triviaFaults < MaxTriviaFaults /\ triviaFaults' = triviaFaults + 1

-----------------------------------------------------------------------------
(* PluginDB.                                                               *)

RowsOf(p) == {i \in DOMAIN rows : rows[i].key = p}
LastRow(p) == CHOOSE i \in RowsOf(p) : \A j \in RowsOf(p) : j <= i

\* What dbGetScores finds for a player: a later row replaces an earlier one.
Stored(p) == IF RowsOf(p) = {} THEN 0 ELSE rows[LastRow(p)].val
StoredId(p) == IF RowsOf(p) = {} THEN 0 ELSE LastRow(p)

\* A statement is carried out once as a rule.  If the database fails it may have been
\* carried out without an answer, and again by the second try: twice and well, or any
\* number of times and the exception goes to the caller.
Executions == [ok : {TRUE}, times : 1..2] \cup [ok : {FALSE}, times : 0..2]
Smooth(e) == e.ok /\ e.times = 1

\* Mutant: the row number is not kept, so that every point adds a row for one point.
ScoreAddAnew(p, e) ==
  /\ scores' = [scores EXCEPT ![p] = @ + 1]
  /\ rows' = rows \o [i \in 1..e.times |-> [key |-> p, val |-> 1]]
  /\ UNCHANGED userids

\* dbScoreAdd: the cache first, then the row, whose number a new one gives back.
ScoreAdd(p, e) ==
  /\ scores' = [scores EXCEPT ![p] = @ + 1]
  /\ IF userids[p] # 0
       THEN /\ rows' = IF e.times = 0 THEN rows ELSE [rows EXCEPT ![userids[p]].val = scores'[p]]
            /\ UNCHANGED userids
       ELSE /\ rows' = rows \o [i \in 1..e.times |-> [key |-> p, val |-> scores'[p]]]
            /\ userids' = IF e.ok THEN [userids EXCEPT ![p] = Len(rows')] ELSE userids

-----------------------------------------------------------------------------
(* The handlers.                                                           *)

\* For the history: a question counts once for a player, whatever his points.
Credit(p) == /\ solvers' = solvers \cup {p}
             /\ earned' = IF p \in solvers THEN earned ELSE [earned EXCEPT ![p] = @ + 1]

\* A point and the news of it, unless the point raises an exception.
Point(p, e) ==
  /\ loaded /\ enabled /\ stage > 0 /\ scores[p] < MaxScore
  /\ ScoreAdd(p, e)
  /\ IF Smooth(e) THEN UNCHANGED triviaFaults ELSE TriviaFault
  /\ IF e.ok THEN /\ announced' = [announced EXCEPT ![p] = scores'[p]]
                  /\ Credit(p) /\ UNCHANGED spoilt
             ELSE /\ spoilt' = [spoilt EXCEPT ![p] = @ + 1]
                  /\ UNCHANGED <<announced, solvers, earned>>
  /\ UNCHANGED <<loaded, enabled, questions>>

\* Mutant: the question stays open after the right answer.
RightAnswerAgain(p, e) == Point(p, e) /\ UNCHANGED stage

\* onTalk, a right answer: the point, and the question is over.
RightAnswer(p, e) == Point(p, e) /\ stage' = IF e.ok THEN 0 ELSE stage

\* onUpdate when a question is due.  New ones are fetched if there are none; if that
\* fails, trivia is disabled, and the entry put in their place has no category, so that
\* askQuestion raises an exception after it has taken it out.
AskQuestion ==
  /\ loaded /\ enabled /\ stage = 0
  /\ \/ /\ questions > 0 /\ questions' = questions - 1
        /\ stage' = 1 /\ solvers' = {} /\ UNCHANGED <<enabled, triviaFaults>>
     \/ /\ questions = 0 /\ questions' \in 0..(MaxQuestions - 1)
        /\ stage' = 1 /\ solvers' = {} /\ UNCHANGED <<enabled, triviaFaults>>
     \/ /\ questions = 0 /\ TriviaFault
        /\ enabled' = FALSE /\ UNCHANGED <<questions, stage, solvers>>
  /\ UNCHANGED <<loaded, scores, userids, rows, announced, earned, spoilt>>

\* Mutant: the last hint is shown for ever.
HintForever ==
  /\ loaded /\ enabled /\ stage > 0
  /\ stage' = IF stage < 4 THEN stage + 1 ELSE stage
  /\ UNCHANGED <<loaded, enabled, questions, scores, userids, rows, announced, solvers, earned,
                 spoilt, triviaFaults>>

\* onUpdate when a question has been open for a while: three hints, then the answer.
Hint ==
  /\ loaded /\ enabled /\ stage > 0
  /\ stage' = IF stage < 4 THEN stage + 1 ELSE 0
  /\ UNCHANGED <<loaded, enabled, questions, scores, userids, rows, announced, solvers, earned,
                 spoilt, triviaFaults>>

\* onCommand: "on" begins anew, "off", and "category" and "difficulty" forget the
\* questions that were fetched.
SwitchOn ==
  /\ loaded
  /\ enabled' = TRUE /\ stage' = 0
  /\ UNCHANGED <<loaded, questions, scores, userids, rows, announced, solvers, earned, spoilt,
                 triviaFaults>>

SwitchOff ==
  /\ loaded
  /\ enabled' = FALSE
  /\ UNCHANGED <<loaded, stage, questions, scores, userids, rows, announced, solvers, earned, spoilt,
                 triviaFaults>>

ForgetQuestions ==
  /\ loaded
  /\ questions' = 0
  /\ UNCHANGED <<loaded, enabled, stage, scores, userids, rows, announced, solvers, earned, spoilt,
                 triviaFaults>>

\* The program ends; at the next start the scores are read again.
EndProgram ==
  /\ loaded /\ TriviaFault
  /\ loaded' = FALSE
  /\ enabled' = FALSE /\ stage' = 0 /\ questions' = 0
  /\ scores' = None0 /\ userids' = None0
  /\ UNCHANGED <<rows, announced, solvers, earned, spoilt>>

LoadScores ==
  /\ ~loaded
  /\ loaded' = TRUE
  /\ scores' = [p \in Players |-> Stored(p)]
  /\ userids' = [p \in Players |-> StoredId(p)]
  /\ UNCHANGED <<enabled, stage, questions, rows, announced, solvers, earned, spoilt, triviaFaults>>

TriviaNext == \/ \E p \in Players, e \in Executions : RightAnswer(p, e)
              \/ AskQuestion \/ Hint \/ SwitchOn \/ SwitchOff \/ ForgetQuestions
              \/ EndProgram \/ LoadScores

-----------------------------------------------------------------------------
(* Properties.                                                             *)

\* A score the channel has been told is in the table, in the row that the next start of
\* the program reads: neither a statement carried out twice, nor one that raised an
\* exception in between and left a row whose number was not kept, takes it back.
ScoresSurvive == \A p \in Players : announced[p] <= Stored(p)

\* A question is worth one point, to one player: nobody else is credited for it, and he
\* has no more points than questions.  Only a point that raised an exception is one too
\* many, as it leaves the question open.
PointsAreEarned == /\ \A p, q \in solvers : p = q
                   /\ \A p \in Players : scores[p] <= earned[p] + spoilt[p]

\* A question does not stay open: it is answered, given away, or trivia is stopped.
QuestionCloses == stage > 0 ~> stage = 0 \/ ~enabled
=============================================================================
