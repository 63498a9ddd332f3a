------------------------------ MODULE BanSync -------------------------------
(***************************************************************************)
(* Bans: one table for all servers, and for every server a CBNET with a    *)
(* list of its own (m_Bans), which a ban or unban command changes when its *)
(* query has run and which is replaced by the table's rows of that server  *)
(* five minutes after the last time.  GHost++ bots write to the same table. *)
(*                                                                         *)
(* Table and list are bags: nothing keeps a name from being in them twice, *)
(* so both are counts.  An unban deletes all rows of a name, of every      *)
(* server, but takes one entry from the list of one server.                *)
(***************************************************************************)
EXTENDS Naturals, FiniteSets

CONSTANTS
  Servers,      \* the CBNETs
  Names,        \* user names, lowercased
  Slots,        \* callables that may be outstanding at a time: a bound
  MaxRows,      \* bound on the rows of a name other programs write
  MaxCommands,  \* bound on commands given
  MaxFailures   \* bound on failed queries

ASSUME BanAssumption == MaxRows \in Nat /\ MaxCommands \in Nat /\ MaxFailures \in Nat

VARIABLES
  rows,       \* rows of each name in the bans table, by server
  bans,       \* entries of each name in m_Bans, by server
  jobs,       \* the outstanding callable of each slot
  listStage,  \* m_CallableBanList of each server: "none", "running", "ready"
  snapshot,   \* its result
  commands,   \* commands given so far
  failures,   \* queries failed so far
  synced      \* history: <<server, name>>s nothing has raced on since a refresh, nor
              \* has an INSERT been carried out without an answer

vars == <<rows, bans, jobs, listStage, snapshot, commands, failures, synced>>

Free == [op |-> "none"]
Job == [op : {"ban", "unban"}, server : Servers, name : Names,
        stage : {"run", "ready", "failed"}]
NoBans == [n \in Names |-> 0]

TypeOK == /\ rows \in [Servers -> [Names -> Nat]]
          /\ bans \in [Servers -> [Names -> Nat]]
          /\ jobs \in [Slots -> Job \cup {Free}]
          /\ listStage \in [Servers -> {"none", "running", "ready"}]
          /\ snapshot \in [Servers -> [Names -> Nat]]
          /\ commands \in 0..MaxCommands
          /\ failures \in 0..MaxFailures
          /\ synced \subseteq Servers \X Names

Init == /\ rows \in [Servers -> [Names -> 0..MaxRows]]
        /\ bans = [v \in Servers |-> NoBans]
        /\ jobs = [s \in Slots |-> Free]
        /\ listStage = [v \in Servers |-> "running"]
        /\ snapshot = [v \in Servers |-> NoBans]
        /\ commands = 0
        /\ failures = 0
        /\ synced = {}

Busy(n) == \E s \in Slots : jobs[s] # Free /\ jobs[s].name = n
IsBannedName(v, n) == bans[v][n] > 0

Spawn(op, v, n) ==
  /\ commands < MaxCommands
  /\ commands' = commands + 1
  /\ \E s \in Slots :
       /\ jobs[s] = Free
       /\ jobs' = [jobs EXCEPT ![s] = [op |-> op, server |-> v, name |-> n,
                                       stage |-> "run"]]

-----------------------------------------------------------------------------
(* Commands.                                                               *)

\* Mutant: names that are banned already are added again.
BanCommandAgain(v, n) ==
  /\ Spawn("ban", v, n)
  /\ synced' = {p \in synced : p[2] = n => ~Busy(n)}
  /\ UNCHANGED <<rows, bans, listStage, snapshot, failures>>

BanCommand(v, n) ==
  /\ ~IsBannedName(v, n)
  /\ Spawn("ban", v, n)
  /\ synced' = {p \in synced : p[2] = n => ~Busy(n)}
  /\ UNCHANGED <<rows, bans, listStage, snapshot, failures>>

\* The delete query names no server: it is a race with every other CBNET.
UnbanCommand(v, n) ==
  /\ Spawn("unban", v, n)
  /\ synced' = {p \in synced : p[2] = n => p[1] = v /\ ~Busy(n)}
  /\ UNCHANGED <<rows, bans, listStage, snapshot, failures>>

\* A game host that shares the database bans somebody.
GHostBans(v, n) ==
  /\ rows[v][n] < MaxRows
  /\ rows' = [rows EXCEPT ![v][n] = @ + 1]
  /\ synced' = synced \ {<<v, n>>}
  /\ UNCHANGED <<bans, jobs, listStage, snapshot, commands, failures>>

-----------------------------------------------------------------------------
(* Database threads.                                                       *)

\* Rows of name n and server v after the query of a job on n: INSERT, or DELETE
\* of the name on every server.
Written(job, v, n) ==
  CASE job.op = "unban" -> 0
    [] job.op = "ban"   -> rows[v][n] + IF job.server = v THEN 1 ELSE 0

Write(s) ==
  /\ jobs[s] # Free
  /\ jobs[s].stage = "run"
  /\ rows' = [v \in Servers |->
                [rows[v] EXCEPT ![jobs[s].name] = Written(jobs[s], v, jobs[s].name)]]
  /\ jobs' = [jobs EXCEPT ![s].stage = "ready"]
  /\ synced' = {p \in synced : p[2] = jobs[s].name => listStage[p[1]] # "ready"}
  /\ UNCHANGED <<bans, listStage, snapshot, commands, failures>>

\* No connection, or a statement the server did not carry out.
JobFails(s) ==
  /\ jobs[s] # Free
  /\ jobs[s].stage = "run"
  /\ failures < MaxFailures
  /\ failures' = failures + 1
  /\ jobs' = [jobs EXCEPT ![s].stage = "failed"]
  /\ UNCHANGED <<rows, bans, listStage, snapshot, commands, synced>>

\* The connection is lost between the server's carrying out the statement and its
\* answer.  An INSERT so carried out parts list and table; a DELETE only leaves
\* entries behind, as it does on the other servers.
AnswerLost(s) ==
  /\ jobs[s] # Free
  /\ jobs[s].stage = "run"
  /\ failures < MaxFailures
  /\ failures' = failures + 1
  /\ rows' = [v \in Servers |->
                [rows[v] EXCEPT ![jobs[s].name] = Written(jobs[s], v, jobs[s].name)]]
  /\ jobs' = [jobs EXCEPT ![s].stage = "failed"]
  /\ synced' = {p \in synced : p[2] = jobs[s].name =>
                               /\ listStage[p[1]] # "ready"
                               /\ jobs[s].op = "ban" => p[1] # jobs[s].server}
  /\ UNCHANGED <<bans, listStage, snapshot, commands>>

ReadList(v) ==
  /\ listStage[v] = "running"
  /\ listStage' = [listStage EXCEPT ![v] = "ready"]
  /\ snapshot' = [snapshot EXCEPT ![v] = rows[v]]
  /\ synced' = {p \in synced : p[1] # v} \cup {<<v, n>> : n \in {m \in Names : ~Busy(m)}}
  /\ UNCHANGED <<rows, bans, jobs, commands, failures>>

\* As for the users: a failed list is an empty list.
ListFails(v) ==
  /\ listStage[v] = "running"
  /\ failures < MaxFailures
  /\ failures' = failures + 1
  /\ listStage' = [listStage EXCEPT ![v] = "ready"]
  /\ snapshot' = [snapshot EXCEPT ![v] = NoBans]
  /\ synced' = {p \in synced : p[1] # v}
  /\ UNCHANGED <<rows, bans, jobs, commands>>

-----------------------------------------------------------------------------
(* CBNET::Update.                                                          *)

\* AddBan appends an entry, RemoveBan erases the first of the name.
Applied(job, c) ==
  IF job.stage = "failed" THEN c
  ELSE IF job.op = "ban" THEN c + 1
  ELSE IF c > 0 THEN c - 1 ELSE 0

Apply(s) ==
  /\ jobs[s] # Free
  /\ jobs[s].stage \in {"ready", "failed"}
  /\ bans' = [bans EXCEPT ![jobs[s].server][jobs[s].name] = Applied(jobs[s], @)]
  /\ jobs' = [jobs EXCEPT ![s] = Free]
  /\ UNCHANGED <<rows, listStage, snapshot, commands, failures, synced>>

StartList(v) ==
  /\ listStage[v] = "none"
  /\ listStage' = [listStage EXCEPT ![v] = "running"]
  /\ UNCHANGED <<rows, bans, jobs, snapshot, commands, failures, synced>>

\* Mutant: entries the list lacks are kept.
RefreshMerges(v) ==
  /\ listStage[v] = "ready"
  /\ listStage' = [listStage EXCEPT ![v] = "none"]
  /\ bans' = [bans EXCEPT ![v] = [n \in Names |-> IF snapshot[v][n] > @[n]
                                                  THEN snapshot[v][n] ELSE @[n]]]
  /\ snapshot' = [snapshot EXCEPT ![v] = NoBans]
  /\ UNCHANGED <<rows, jobs, commands, failures, synced>>

Refresh(v) ==
  /\ listStage[v] = "ready"
  /\ listStage' = [listStage EXCEPT ![v] = "none"]
  /\ bans' = [bans EXCEPT ![v] = snapshot[v]]
  /\ snapshot' = [snapshot EXCEPT ![v] = NoBans]
  /\ UNCHANGED <<rows, jobs, commands, failures, synced>>

-----------------------------------------------------------------------------
Next == \/ \E v \in Servers, n \in Names :
             BanCommand(v, n) \/ UnbanCommand(v, n) \/ GHostBans(v, n)
        \/ \E s \in Slots : Write(s) \/ JobFails(s) \/ AnswerLost(s) \/ Apply(s)
        \/ \E v \in Servers : ReadList(v) \/ ListFails(v) \/ StartList(v) \/ Refresh(v)

Spec == Init /\ [][Next]_vars

\* Threads end and Update keeps being called.
Fairness == /\ \A s \in Slots : WF_vars(Write(s)) /\ WF_vars(Apply(s))
            /\ \A v \in Servers : /\ WF_vars(ReadList(v))
                                  /\ WF_vars(StartList(v))
                                  /\ WF_vars(Refresh(v))

FairSpec == Spec /\ Fairness

-----------------------------------------------------------------------------
(* Properties.                                                             *)

\* Once nobody gives commands, each server's list comes to be the table's, with
\* whatever duplicates races have left in it (bnet.cpp:485-503).
Convergence == <>[](bans = rows)

Quiet(v, n) == <<v, n>> \in synced /\ ~Busy(n) /\ listStage[v] = "none"

\* Commands that follow one another, failed ones included, keep list and table the
\* same, entry by row, but for the entries an unban leaves behind; only an INSERT
\* carried out without an answer parts them until the next list.  So no ban is forgotten, and the
\* test of IsBannedName before an insert (command.cpp:252) keeps doubles away.
SyncedAgrees == \A v \in Servers, n \in Names :
                  Quiet(v, n) => rows[v][n] = 0 \/ bans[v][n] = rows[v][n]
=============================================================================
