----------------------------- MODULE AccessSync -----------------------------
(***************************************************************************)
(* Access levels: the users table, the cache CBNET judges commands by, and *)
(* what is between them.  A command is judged when it is given; its query  *)
(* runs in a thread of its own; its result is applied to the cache when    *)
(* CBNET::Update finds the callable ready; and every minute the cache is   *)
(* replaced by a list another thread has read.  Threads finish in any      *)
(* order, and Update can find any ready one first.                         *)
(*                                                                         *)
(* A level of 0 and not being listed are the same here (AccessView tells   *)
(* them apart).  The table has no unique key, so a name has a SET of       *)
(* levels: those of its rows.  A name is one user however it is spelled;   *)
(* the spelling is only told apart where the code does.                    *)
(***************************************************************************)
EXTENDS Naturals, FiniteSets

CONSTANTS
  Names,        \* user names
  Root,         \* m_RootAdmin, one of Names or not
  Slots,        \* callables that may be outstanding at a time: a bound
  Levels,       \* access levels
  Full,         \* 10: may do anything to anybody
  MinAccess,    \* what command.txt demands for add and del
  MaxCommands,  \* bound on commands given
  MaxFailures   \* bound on failed queries

ASSUME SyncAssumption == /\ Levels \subseteq Nat
                         /\ 0 \in Levels
                         /\ Full \in Levels
                         /\ \A l \in Levels : l <= Full
                         /\ MinAccess \in Nat \ {0}
                         /\ MaxCommands \in Nat
                         /\ MaxFailures \in Nat

VARIABLES
  rows,       \* levels of each name's rows in the users table
  cache,      \* level of each name in m_Users and m_Channel
  jobs,       \* the outstanding callable of each slot
  listStage,  \* m_CallableUserList: "none", "running", "ready"
  snapshot,   \* its result
  commands,   \* commands given so far
  failures,   \* queries failed so far
  peak,       \* history: the highest level granted with full access, or at first
  synced      \* history: names nothing has disturbed since a clean refresh: no
              \* race, and no statement carried out without an answer

vars == <<rows, cache, jobs, listStage, snapshot, commands, failures, peak, synced>>

Free == [op |-> "none"]
Ops == {"add", "del", "seen"}
Stages == {"run", "selected", "ready", "failed"}
Job == [op : Ops, name : Names, level : Levels, stage : Stages,
        found : BOOLEAN]

TypeOK == /\ rows \in [Names -> SUBSET Levels]
          /\ cache \in [Names -> Levels]
          /\ jobs \in [Slots -> Job \cup {Free}]
          /\ listStage \in {"none", "running", "ready"}
          /\ snapshot \in [Names -> Levels]
          /\ commands \in 0..MaxCommands
          /\ failures \in 0..MaxFailures
          /\ peak \in Levels
          /\ synced \subseteq Names

\* The table as some earlier run left it, one row for a name at most; the
\* constructor's first list is running.
Init == /\ peak \in Levels
        /\ rows \in [Names -> {{}} \cup {{l} : l \in {k \in Levels : k <= peak}}]
        /\ peak = 0 \/ \E n \in Names : peak \in rows[n]
        /\ cache = [n \in Names |-> 0]
        /\ jobs = [s \in Slots |-> Free]
        /\ listStage = "running"
        /\ snapshot = [n \in Names |-> 0]
        /\ commands = 0
        /\ failures = 0
        /\ synced = {}

Busy(n) == \E s \in Slots : jobs[s] # Free /\ jobs[s].name = n

\* m_DB->Threaded...: a new callable, outstanding until Update recovers it.
Spawn(op, n, a) ==
  /\ \E s \in Slots :
       /\ jobs[s] = Free
       /\ jobs' = [jobs EXCEPT ![s] = [op |-> op, name |-> n, level |-> a,
                                       stage |-> "run", found |-> FALSE]]
  /\ synced' = IF Busy(n) THEN synced \ {n} ELSE synced
  /\ commands < MaxCommands
  /\ commands' = commands + 1

-----------------------------------------------------------------------------
(* Commands.  The console is a user with full access.                      *)

\* Mutant: a user may hand out his own level, and more.
MayAddAnyLevel(access, target, a) == access >= Full \/ access > target

\* "only allow users with access < 10 to add other users with less access"
MayAdd(access, target, a) == access >= Full \/ (access > target /\ access > a)

\* The root admin is nobody's target, if he is spelled as m_RootAdmin is.
AddCommand(access, n, lower, a) ==
  /\ access >= MinAccess
  /\ ~(n = Root /\ lower)
  /\ MayAdd(access, cache[n], a)
  /\ Spawn("add", n, a)
  /\ peak' = IF access >= Full /\ a > peak THEN a ELSE peak
  /\ UNCHANGED <<rows, cache, listStage, snapshot, failures>>

DelCommand(access, n, lower) ==
  /\ access >= MinAccess
  /\ ~(n = Root /\ lower)
  /\ access >= Full \/ access > cache[n]
  /\ Spawn("del", n, 0)
  /\ UNCHANGED <<rows, cache, listStage, snapshot, failures, peak>>

\* Somebody left the channel (UpdateSeen).
SomebodyLeaves(n) ==
  /\ Spawn("seen", n, 0)
  /\ UNCHANGED <<rows, cache, listStage, snapshot, failures, peak>>

\* Whatever the table says, whoever talks under the root admin's name is root.
RootTalks ==
  /\ Root \in Names
  /\ cache' = [cache EXCEPT ![Root] = Full]
  /\ UNCHANGED <<rows, jobs, listStage, snapshot, commands, failures, peak, synced>>

-----------------------------------------------------------------------------
(* Database threads.                                                       *)

\* SELECT: is there a row?  (MySQLUserAdd, MySQLUserSetSeen)
Select(s) ==
  /\ jobs[s].op \in {"add", "seen"}
  /\ jobs[s].stage = "run"
  /\ jobs' = [jobs EXCEPT ![s].stage = "selected", ![s].found = rows[jobs[s].name] # {}]
  /\ UNCHANGED <<rows, cache, listStage, snapshot, commands, failures, peak, synced>>

\* Mutant: the seen time of somebody without a row inserts him with full access.
WrittenSeenIsFull(job) ==
  CASE job.op = "del" -> {}
    [] job.op # "del" /\ job.found ->
         IF job.op = "add" /\ rows[job.name] # {} THEN {job.level} ELSE rows[job.name]
    [] job.op # "del" /\ ~job.found -> rows[job.name] \cup {IF job.op = "add" THEN job.level ELSE Full}

\* Rows of the job's name after its last statement: DELETE, an UPDATE of the rows
\* there are by now (perhaps none), or an INSERT.
Written(job) ==
  CASE job.op = "del" -> {}
    [] job.op # "del" /\ job.found ->
         IF job.op = "add" /\ rows[job.name] # {} THEN {job.level} ELSE rows[job.name]
    [] job.op # "del" /\ ~job.found -> rows[job.name] \cup {job.level}

Write(s) ==
  /\ jobs[s] # Free
  /\ jobs[s].stage = IF jobs[s].op = "del" THEN "run" ELSE "selected"
  /\ rows' = [rows EXCEPT ![jobs[s].name] = Written(jobs[s])]
  /\ jobs' = [jobs EXCEPT ![s].stage = "ready"]
  /\ synced' = IF listStage = "ready" THEN synced \ {jobs[s].name} ELSE synced
  /\ UNCHANGED <<cache, listStage, snapshot, commands, failures, peak>>

\* No connection, or a statement the server did not carry out.
JobFails(s) ==
  /\ jobs[s] # Free
  /\ jobs[s].stage \in {"run", "selected"}
  /\ failures < MaxFailures
  /\ failures' = failures + 1
  /\ jobs' = [jobs EXCEPT ![s].stage = "failed"]
  /\ UNCHANGED <<rows, cache, listStage, snapshot, commands, peak, synced>>

\* The connection is lost after the server has carried out the last statement and
\* before its answer: the query has failed, though its rows have changed.
AnswerLost(s) ==
  /\ jobs[s] # Free
  /\ jobs[s].stage = IF jobs[s].op = "del" THEN "run" ELSE "selected"
  /\ failures < MaxFailures
  /\ failures' = failures + 1
  /\ rows' = [rows EXCEPT ![jobs[s].name] = Written(jobs[s])]
  /\ jobs' = [jobs EXCEPT ![s].stage = "failed"]
  /\ synced' = synced \ {jobs[s].name}
  /\ UNCHANGED <<cache, listStage, snapshot, commands, peak>>

\* SELECT name, access ... WHERE access>0; the last row of a name wins.
ReadList ==
  /\ listStage = "running"
  /\ listStage' = "ready"
  /\ \E snap \in [Names -> Levels] :
       /\ \A n \in Names : IF rows[n] \subseteq {0} THEN snap[n] = 0
                           ELSE snap[n] \in rows[n] \ {0}
       /\ snapshot' = snap
  /\ synced' = {n \in Names : ~Busy(n)}
  /\ UNCHANGED <<rows, cache, jobs, commands, failures, peak>>

\* A list query that fails leaves an empty list, which nobody tells from a table
\* without users.
ListFails ==
  /\ listStage = "running"
  /\ failures < MaxFailures
  /\ failures' = failures + 1
  /\ listStage' = "ready"
  /\ snapshot' = [n \in Names |-> 0]
  /\ synced' = {}
  /\ UNCHANGED <<rows, cache, jobs, commands, peak>>

-----------------------------------------------------------------------------
(* CBNET::Update.                                                          *)

\* Mutant: what a query would have done is applied though it failed.
AppliedThoughFailed(job) == IF job.op = "seen" THEN cache[job.name] ELSE job.level

Applied(job) ==
  IF job.stage = "failed" \/ job.op = "seen" THEN cache[job.name] ELSE job.level

Apply(s) ==
  /\ jobs[s] # Free
  /\ jobs[s].stage \in {"ready", "failed"}
  /\ cache' = [cache EXCEPT ![jobs[s].name] = Applied(jobs[s])]
  /\ jobs' = [jobs EXCEPT ![s] = Free]
  /\ UNCHANGED <<rows, listStage, snapshot, commands, failures, peak, synced>>

\* The minute is over.
StartList ==
  /\ listStage = "none"
  /\ listStage' = "running"
  /\ UNCHANGED <<rows, cache, jobs, snapshot, commands, failures, peak, synced>>

\* Mutant: the refresh only ever raises levels, so that deleted users stay.
RefreshRaises ==
  /\ listStage = "ready"
  /\ listStage' = "none"
  /\ cache' = [n \in Names |-> IF snapshot[n] > cache[n] THEN snapshot[n] ELSE cache[n]]
  /\ UNCHANGED <<rows, jobs, snapshot, commands, failures, peak, synced>>

Refresh ==
  /\ listStage = "ready"
  /\ listStage' = "none"
  /\ cache' = snapshot
  /\ snapshot' = [n \in Names |-> 0]
  /\ UNCHANGED <<rows, jobs, commands, failures, peak, synced>>

-----------------------------------------------------------------------------
Command ==
  \E n \in Names :
    \/ \E access \in {Full} \cup {cache[m] : m \in Names}, lower \in BOOLEAN :
         \/ DelCommand(access, n, lower)
         \/ \E a \in Levels : AddCommand(access, n, lower, a)
    \/ SomebodyLeaves(n)

Thread == \E s \in Slots : Select(s) \/ Write(s) \/ JobFails(s) \/ AnswerLost(s)

Next == \/ Command
        \/ RootTalks
        \/ Thread
        \/ ReadList \/ ListFails
        \/ \E s \in Slots : Apply(s)
        \/ StartList \/ Refresh

Spec == Init /\ [][Next]_vars

\* Threads end, and Update keeps being called: it applies what is ready, starts a
\* list each minute and takes it when it is there.  Commands are never owed.
Fairness == /\ \A s \in Slots : WF_vars(Select(s) \/ Write(s)) /\ WF_vars(Apply(s))
            /\ WF_vars(ReadList)
            /\ WF_vars(StartList)
            /\ WF_vars(Refresh)

FairSpec == Spec /\ Fairness

-----------------------------------------------------------------------------
(* Properties.                                                             *)

AgreesWithTable(n) == IF rows[n] \subseteq {0} THEN cache[n] = 0
                      ELSE cache[n] \in rows[n] \ {0}

\* However commands, threads, failed and unanswered queries and stale lists have
\* raced: once the commands stop, the cache comes to agree with the table and stays so.
Convergence == <>[](\A n \in Names \ {Root} : AgreesWithTable(n))

\* Nobody can be lifted above the highest level that somebody with full access
\* granted, not even by racing the checks of add and del, which read the cache.
NoEscalation ==
  /\ \A n \in Names : \A l \in rows[n] : l <= peak
  /\ \A n \in Names \ {Root} : cache[n] <= peak

\* As long as the commands on a name follow one another, no list overlaps them and
\* no statement is carried out without an answer, cache and table agree on the name
\* whenever none is outstanding, failed commands and failed lists included.
SyncedAgrees ==
  listStage = "none" =>
    \A n \in synced \ {Root} : ~Busy(n) => AgreesWithTable(n)
=============================================================================
