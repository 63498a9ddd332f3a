------------------------- MODULE AccessSync_proofs --------------------------
(***************************************************************************)
(* Nobody is ever lifted above what full access granted, for any number of *)
(* names, outstanding queries, levels, commands and failures.  NoEscalation *)
(* is not inductive: a level can also come back from a query that is       *)
(* outstanding or from a list that has been read, so the invariant bounds  *)
(* those too; and the root admin's cached level, which bounds nothing, is  *)
(* full access whenever it exceeds the bound.                              *)
(***************************************************************************)
EXTENDS AccessSync, TLAPS

RowsBounded == \A n \in Names : \A l \in rows[n] : l <= peak
CacheBounded == \A n \in Names : cache[n] <= peak \/ (n = Root /\ cache[n] = Full)
JobsBounded == \A s \in Slots : jobs[s] # Free => jobs[s].level <= peak
ListBounded == \A n \in Names : snapshot[n] <= peak

Bounded == RowsBounded /\ CacheBounded /\ JobsBounded /\ ListBounded

IInv == TypeOK /\ Bounded

-----------------------------------------------------------------------------
LEMMA LevelsNat == \A l \in Levels : l \in Nat /\ 0 <= l /\ l <= Full
  BY SyncAssumption

LEMMA InitInv == Init => IInv
<1> SUFFICES ASSUME Init PROVE IInv
  OBVIOUS
<1>1. \A n \in Names : \A l \in rows[n] : l \in Levels /\ l <= peak
  BY DEF Init
<1>2. TypeOK
  BY <1>1, SyncAssumption DEF Init, TypeOK
<1>3. Bounded
  BY <1>1, SyncAssumption, LevelsNat
  DEF Init, Bounded, RowsBounded, CacheBounded, JobsBounded, ListBounded
<1> QED
  BY <1>2, <1>3 DEF IInv

\* A new callable carries a level that is already bounded.
LEMMA SpawnInv ==
  ASSUME IInv, NEW op \in Ops, NEW n \in Names, NEW a \in Levels,
         Spawn(op, n, a), peak' \in Levels, peak <= peak', a <= peak',
         UNCHANGED <<rows, cache, listStage, snapshot, failures>>
  PROVE  IInv'
<1> USE DEF IInv
<1>1. PICK s \in Slots :
        /\ jobs[s] = Free
        /\ jobs' = [jobs EXCEPT ![s] = [op |-> op, name |-> n, level |-> a,
                                        stage |-> "run", found |-> FALSE]]
  BY DEF Spawn
<1>2. jobs' \in [Slots -> Job \cup {Free}]
  BY <1>1 DEF TypeOK, Job, Stages
<1>3. commands' \in 0..MaxCommands
  BY SyncAssumption DEF Spawn, TypeOK
<1>4. synced' \subseteq Names
  BY DEF Spawn, TypeOK
<1>5. TypeOK'
  BY <1>2, <1>3, <1>4 DEF TypeOK
<1>6. \A l \in Levels : l <= peak => l <= peak'
  BY LevelsNat DEF TypeOK
<1>7. RowsBounded' /\ CacheBounded' /\ ListBounded'
  BY <1>6 DEF TypeOK, Bounded, RowsBounded, CacheBounded, ListBounded
<1>8. \A t \in Slots : jobs'[t] # Free => jobs'[t].level <= peak'
  <2> TAKE t \in Slots
  <2>1. CASE t = s
    BY <1>1, <2>1 DEF TypeOK
  <2>2. CASE t # s
    <3>1. jobs'[t] = jobs[t]
      BY <1>1, <2>2 DEF TypeOK
    <3>2. jobs[t] # Free => jobs[t].level \in Levels
      BY DEF TypeOK, Job
    <3> QED
      BY <3>1, <3>2, <1>6 DEF Bounded, JobsBounded
  <2> QED
    BY <2>1, <2>2
<1> QED
  BY <1>5, <1>7, <1>8 DEF Bounded, JobsBounded

LEMMA AddInv ==
  ASSUME IInv, NEW n \in Names, NEW lower \in BOOLEAN, NEW a \in Levels,
         NEW access \in {Full} \cup {cache[m] : m \in Names},
         AddCommand(access, n, lower, a)
  PROVE  IInv'
<1>1. access \in Levels /\ cache[n] \in Levels /\ peak \in Levels
  BY SyncAssumption DEF IInv, TypeOK
<1>2. access >= Full \/ access <= peak
  BY <1>1, LevelsNat DEF IInv, Bounded, CacheBounded
<1>3. access >= Full \/ a < access
  BY <1>1, LevelsNat DEF AddCommand, MayAdd
<1>4. peak' \in Levels /\ peak <= peak' /\ a <= peak'
  BY <1>1, <1>2, <1>3, LevelsNat DEF AddCommand
<1> QED
  BY <1>1, <1>4, SpawnInv DEF AddCommand, Ops

LEMMA DelInv ==
  ASSUME IInv, NEW n \in Names, NEW lower \in BOOLEAN,
         NEW access \in {Full} \cup {cache[m] : m \in Names},
         DelCommand(access, n, lower)
  PROVE  IInv'
<1>1. access \in Levels /\ peak \in Levels
  BY SyncAssumption DEF IInv, TypeOK
<1>2. 0 \in Levels /\ 0 <= peak /\ peak <= peak
  BY <1>1, SyncAssumption, LevelsNat
<1> QED
  BY <1>1, <1>2, SpawnInv DEF DelCommand, Ops

LEMMA LeaveInv ==
  ASSUME IInv, NEW n \in Names, SomebodyLeaves(n)
  PROVE  IInv'
<1>1. peak \in Levels
  BY DEF IInv, TypeOK
<1>2. 0 \in Levels /\ 0 <= peak /\ peak <= peak
  BY <1>1, SyncAssumption, LevelsNat
<1> QED
  BY <1>1, <1>2, SpawnInv DEF SomebodyLeaves, Ops

LEMMA RootTalksInv == ASSUME IInv, RootTalks PROVE IInv'
<1> USE DEF IInv, RootTalks
<1>1. TypeOK'
  BY SyncAssumption DEF TypeOK
<1>2. CacheBounded'
  BY DEF Bounded, CacheBounded, TypeOK
<1> QED
  BY <1>1, <1>2 DEF Bounded, RowsBounded, JobsBounded, ListBounded

-----------------------------------------------------------------------------
\* A callable that moves on keeps its level.
LEMMA StageInv ==
  ASSUME IInv, NEW s \in Slots, NEW stage \in Stages, NEW found \in BOOLEAN,
         jobs[s] # Free,
         jobs' = [jobs EXCEPT ![s] = [jobs[s] EXCEPT !.stage = stage, !.found = found]]
  PROVE  jobs' \in [Slots -> Job \cup {Free}] /\ (peak' = peak => JobsBounded')
<1>1. jobs[s] \in Job
  BY DEF IInv, TypeOK
<1>2. jobs'[s] \in Job /\ jobs'[s].level = jobs[s].level
  BY <1>1 DEF Job, IInv, TypeOK
<1>3. jobs' \in [Slots -> Job \cup {Free}]
  BY <1>2 DEF IInv, TypeOK
<1>4. \A t \in Slots : t # s => jobs'[t] = jobs[t]
  BY DEF IInv, TypeOK
<1> QED
  BY <1>2, <1>3, <1>4 DEF IInv, Bounded, JobsBounded

LEMMA SelectInv == ASSUME IInv, NEW s \in Slots, Select(s) PROVE IInv'
<1>1. jobs[s] # Free
  BY DEF Select, Free, Job, IInv, TypeOK
<1>2. jobs[s] \in Job
  BY <1>1 DEF IInv, TypeOK
<1> DEFINE found == rows[jobs[s].name] # {}
<1>3. jobs' = [jobs EXCEPT ![s] = [jobs[s] EXCEPT !.stage = "selected", !.found = found]]
  BY DEF Select, IInv, TypeOK
<1>4. found \in BOOLEAN /\ "selected" \in Stages
  BY DEF Stages
<1> HIDE DEF found
<1>5. jobs' \in [Slots -> Job \cup {Free}] /\ (peak' = peak => JobsBounded')
  BY <1>1, <1>3, <1>4, StageInv
<1> QED
  BY <1>5 DEF Select, IInv, TypeOK, Bounded, RowsBounded, CacheBounded, ListBounded

LEMMA WriteInv == ASSUME IInv, NEW s \in Slots, Write(s) PROVE IInv'
<1>1. jobs[s] # Free /\ jobs[s] \in Job
  BY DEF Write, IInv, TypeOK
<1>2. jobs[s].found \in BOOLEAN /\ "ready" \in Stages
  BY <1>1 DEF Job, Stages
<1>3. jobs' = [jobs EXCEPT ![s] = [jobs[s] EXCEPT !.stage = "ready",
                                                  !.found = jobs[s].found]]
  BY <1>1 DEF Write, Job, IInv, TypeOK
<1>4. jobs' \in [Slots -> Job \cup {Free}] /\ (peak' = peak => JobsBounded')
  BY <1>1, <1>2, <1>3, StageInv
<1>5. jobs[s].name \in Names /\ jobs[s].level \in Levels /\ jobs[s].level <= peak
  BY <1>1 DEF Job, IInv, Bounded, JobsBounded
<1>6. \A l \in Written(jobs[s]) : l \in Levels /\ l <= peak
  BY <1>5 DEF Written, IInv, TypeOK, Bounded, RowsBounded
<1>7. rows' \in [Names -> SUBSET Levels]
  BY <1>5, <1>6 DEF Write, IInv, TypeOK
<1>8. RowsBounded'
  BY <1>5, <1>6 DEF Write, IInv, TypeOK, Bounded, RowsBounded
<1>9. synced' \subseteq Names
  BY DEF Write, IInv, TypeOK
<1> QED
  BY <1>4, <1>7, <1>8, <1>9
  DEF Write, IInv, TypeOK, Bounded, CacheBounded, ListBounded

LEMMA JobFailsInv == ASSUME IInv, NEW s \in Slots, JobFails(s) PROVE IInv'
<1>1. jobs[s] # Free /\ jobs[s] \in Job
  BY DEF JobFails, IInv, TypeOK
<1>2. jobs[s].found \in BOOLEAN /\ "failed" \in Stages
  BY <1>1 DEF Job, Stages
<1>3. jobs' = [jobs EXCEPT ![s] = [jobs[s] EXCEPT !.stage = "failed",
                                                  !.found = jobs[s].found]]
  BY <1>1 DEF JobFails, Job, IInv, TypeOK
<1>4. jobs' \in [Slots -> Job \cup {Free}] /\ (peak' = peak => JobsBounded')
  BY <1>1, <1>2, <1>3, StageInv
<1>5. failures' \in 0..MaxFailures
  BY SyncAssumption DEF JobFails, IInv, TypeOK
<1> QED
  BY <1>4, <1>5 DEF JobFails, IInv, TypeOK, Bounded, RowsBounded, CacheBounded, ListBounded

LEMMA AnswerLostInv == ASSUME IInv, NEW s \in Slots, AnswerLost(s) PROVE IInv'
<1>1. jobs[s] # Free /\ jobs[s] \in Job
  BY DEF AnswerLost, IInv, TypeOK
<1>2. jobs[s].found \in BOOLEAN /\ "failed" \in Stages
  BY <1>1 DEF Job, Stages
<1>3. jobs' = [jobs EXCEPT ![s] = [jobs[s] EXCEPT !.stage = "failed",
                                                  !.found = jobs[s].found]]
  BY <1>1 DEF AnswerLost, Job, IInv, TypeOK
<1>4. jobs' \in [Slots -> Job \cup {Free}] /\ (peak' = peak => JobsBounded')
  BY <1>1, <1>2, <1>3, StageInv
<1>5. jobs[s].name \in Names /\ jobs[s].level \in Levels /\ jobs[s].level <= peak
  BY <1>1 DEF Job, IInv, Bounded, JobsBounded
<1>6. \A l \in Written(jobs[s]) : l \in Levels /\ l <= peak
  BY <1>5 DEF Written, IInv, TypeOK, Bounded, RowsBounded
<1>7. rows' \in [Names -> SUBSET Levels] /\ RowsBounded'
  BY <1>5, <1>6 DEF AnswerLost, IInv, TypeOK, Bounded, RowsBounded
<1>8. synced' \subseteq Names /\ failures' \in 0..MaxFailures
  BY SyncAssumption DEF AnswerLost, IInv, TypeOK
<1> QED
  BY <1>4, <1>7, <1>8
  DEF AnswerLost, IInv, TypeOK, Bounded, CacheBounded, ListBounded

LEMMA ListInv == ASSUME IInv, ReadList \/ ListFails PROVE IInv'
<1> USE DEF IInv
<1>1. CASE ReadList
  <2> USE <1>1 DEF ReadList
  <2>1. snapshot' \in [Names -> Levels]
    OBVIOUS
  <2>2. \A n \in Names : snapshot'[n] <= peak
    <3> TAKE n \in Names
    <3>1. snapshot'[n] = 0 \/ snapshot'[n] \in rows[n]
      OBVIOUS
    <3> QED
      BY <3>1, LevelsNat DEF TypeOK, Bounded, RowsBounded
  <2> QED
    BY <2>1, <2>2 DEF TypeOK, Bounded, RowsBounded, CacheBounded, JobsBounded, ListBounded
<1>2. CASE ListFails
  <2> USE <1>2 DEF ListFails
  <2>1. TypeOK'
    BY SyncAssumption DEF TypeOK
  <2>2. ListBounded'
    BY LevelsNat DEF TypeOK, ListBounded
  <2> QED
    BY <2>1, <2>2 DEF Bounded, RowsBounded, CacheBounded, JobsBounded
<1> QED
  BY <1>1, <1>2

LEMMA ApplyInv == ASSUME IInv, NEW s \in Slots, Apply(s) PROVE IInv'
<1>1. jobs[s] # Free /\ jobs[s] \in Job
  BY DEF Apply, IInv, TypeOK
<1>2. jobs[s].name \in Names /\ jobs[s].level \in Levels /\ jobs[s].level <= peak
  BY <1>1 DEF Job, IInv, Bounded, JobsBounded
<1>3. /\ Applied(jobs[s]) \in Levels
      /\ Applied(jobs[s]) <= peak \/ Applied(jobs[s]) = cache[jobs[s].name]
  BY <1>2 DEF Applied, IInv, TypeOK
<1>4. cache' \in [Names -> Levels] /\ CacheBounded'
  BY <1>2, <1>3 DEF Apply, IInv, TypeOK, Bounded, CacheBounded
<1>5. jobs' \in [Slots -> Job \cup {Free}] /\ JobsBounded'
  BY DEF Apply, IInv, TypeOK, Bounded, JobsBounded
<1> QED
  BY <1>4, <1>5 DEF Apply, IInv, TypeOK, Bounded, RowsBounded, ListBounded

LEMMA RefreshInv == ASSUME IInv, StartList \/ Refresh PROVE IInv'
<1> USE DEF IInv, TypeOK, Bounded, RowsBounded, CacheBounded, JobsBounded, ListBounded
<1>1. CASE StartList
  BY <1>1 DEF StartList
<1>2. CASE Refresh
  BY <1>2, SyncAssumption, LevelsNat DEF Refresh
<1> QED
  BY <1>1, <1>2

-----------------------------------------------------------------------------
LEMMA NextInv == ASSUME IInv, [Next]_vars PROVE IInv'
<1>1. CASE Command
  BY <1>1, AddInv, DelInv, LeaveInv DEF Command
<1>2. CASE Thread
  BY <1>2, SelectInv, WriteInv, JobFailsInv, AnswerLostInv DEF Thread
<1>3. CASE \E s \in Slots : Apply(s)
  BY <1>3, ApplyInv
<1>4. CASE UNCHANGED vars
  BY <1>4 DEF vars, IInv, TypeOK, Bounded, RowsBounded, CacheBounded, JobsBounded,
              ListBounded
<1> QED
  BY <1>1, <1>2, <1>3, <1>4, RootTalksInv, ListInv, RefreshInv DEF Next

THEOREM Invariance == Spec => []IInv
  BY InitInv, NextInv, PTL DEF Spec

\* Every variable keeps its type.
THEOREM TypeCorrect == Spec => []TypeOK
  BY Invariance, PTL DEF IInv

\* Commands raced against queries and refreshes lift nobody above the highest
\* level granted by full access (command.cpp:161, bnet.cpp:355).
THEOREM Escalation == Spec => []NoEscalation
<1>1. IInv => NoEscalation
  BY DEF IInv, Bounded, RowsBounded, CacheBounded, NoEscalation
<1> QED
  BY <1>1, Invariance, PTL
-----------------------------------------------------------------------------
(* Cache and table agree on a name nothing has raced on.  While a list is  *)
(* ready it is the list that agrees with the table, and nothing may have   *)
(* been written since; otherwise it is the cache, or, if the one query of  *)
(* the name has written, what its result will make of the cache.           *)

Agree(level, levels) == IF levels \subseteq {0} THEN level = 0
                        ELSE level \in levels \ {0}

JobOf(s, n) == jobs[s] # Free /\ jobs[s].name = n
Outcome(s) == Applied(jobs[s])

Alone == \A n \in synced : \A s, t \in Slots : JobOf(s, n) /\ JobOf(t, n) => s = t
NoLevel == \A s \in Slots : jobs[s] # Free /\ jobs[s].op # "add" => jobs[s].level = 0
FoundIsTrue ==
  \A n \in synced : \A s \in Slots :
    JobOf(s, n) /\ jobs[s].stage = "selected" => jobs[s].found = (rows[n] # {})
ListIsFresh ==
  listStage = "ready" =>
    \A n \in synced : /\ Agree(snapshot[n], rows[n])
                      /\ \A s \in Slots : JobOf(s, n) => jobs[s].stage # "ready"
ResultIsFresh ==
  listStage # "ready" =>
    \A n \in synced \ {Root} : \A s \in Slots :
      JobOf(s, n) /\ jobs[s].stage = "ready" => Agree(Outcome(s), rows[n])
CacheIsFresh ==
  listStage # "ready" =>
    \A n \in synced \ {Root} :
      (\A s \in Slots : JobOf(s, n) => jobs[s].stage # "ready") => Agree(cache[n], rows[n])

SyncInv == /\ Alone
           /\ NoLevel
           /\ FoundIsTrue
           /\ ListIsFresh
           /\ ResultIsFresh
           /\ CacheIsFresh

LEMMA InitSync == Init => SyncInv
  BY DEF Init, SyncInv, Alone, NoLevel, FoundIsTrue, ListIsFresh, ResultIsFresh,
         CacheIsFresh, JobOf

\* A second query takes its name out of synced; a first one changes nothing yet.
LEMMA SpawnSync ==
  ASSUME TypeOK, SyncInv, NEW op \in Ops, NEW n \in Names, NEW a \in Levels,
         Spawn(op, n, a), op # "add" => a = 0,
         UNCHANGED <<rows, cache, listStage, snapshot>>
  PROVE  SyncInv'
<1> USE DEF SyncInv
<1>1. PICK s \in Slots :
        /\ jobs[s] = Free
        /\ jobs' = [jobs EXCEPT ![s] = [op |-> op, name |-> n, level |-> a,
                                        stage |-> "run", found |-> FALSE]]
  BY DEF Spawn
<1>2. /\ jobs'[s] # Free /\ jobs'[s].name = n /\ jobs'[s].stage = "run"
      /\ jobs'[s].op = op /\ jobs'[s].level = a
  BY <1>1 DEF TypeOK, Free
<1>3. \A t \in Slots : t # s => jobs'[t] = jobs[t]
  BY <1>1 DEF TypeOK
<1>4. synced' \subseteq synced
  BY DEF Spawn
<1>5. n \in synced' => \A t \in Slots : ~JobOf(t, n)
  BY DEF Spawn, Busy, JobOf
<1>6. Alone'
  BY <1>2, <1>3, <1>4, <1>5 DEF Alone, JobOf
<1>7. NoLevel'
  BY <1>2, <1>3 DEF NoLevel
<1>8. FoundIsTrue'
  BY <1>2, <1>3, <1>4 DEF FoundIsTrue, JobOf
<1>9. ListIsFresh'
  BY <1>2, <1>3, <1>4 DEF ListIsFresh, JobOf
<1>10. ResultIsFresh'
  BY <1>2, <1>3, <1>4 DEF ResultIsFresh, JobOf, Outcome, Applied
<1>11. CacheIsFresh'
  BY <1>1, <1>2, <1>3, <1>4 DEF CacheIsFresh, JobOf
<1> QED
  BY <1>6, <1>7, <1>8, <1>9, <1>10, <1>11

LEMMA CommandSync == ASSUME TypeOK, SyncInv, Command PROVE SyncInv'
<1>1. 0 \in Levels
  BY SyncAssumption
<1> QED
  BY <1>1, SpawnSync DEF Command, AddCommand, DelCommand, SomebodyLeaves, Ops

LEMMA RootTalksSync == ASSUME TypeOK, SyncInv, RootTalks PROVE SyncInv'
<1> USE DEF SyncInv, RootTalks
<1>1. \A n \in Names \ {Root} : cache'[n] = cache[n]
  BY DEF TypeOK
<1>2. Alone' /\ NoLevel' /\ FoundIsTrue' /\ ListIsFresh'
  BY DEF Alone, NoLevel, FoundIsTrue, ListIsFresh, JobOf
<1>3. ResultIsFresh'
  <2> SUFFICES ASSUME listStage # "ready", NEW n \in synced \ {Root}, NEW s \in Slots,
                      JobOf(s, n), jobs[s].stage = "ready"
               PROVE  Agree(Outcome(s)', rows[n])
    BY DEF ResultIsFresh, JobOf
  <2>1. Outcome(s)' = Outcome(s)
    BY <1>1 DEF Outcome, Applied, JobOf, TypeOK
  <2> QED
    BY <2>1 DEF ResultIsFresh
<1>4. CacheIsFresh'
  BY <1>1 DEF CacheIsFresh, JobOf, TypeOK
<1> QED
  BY <1>2, <1>3, <1>4

-----------------------------------------------------------------------------
LEMMA SelectSync == ASSUME TypeOK, SyncInv, NEW s \in Slots, Select(s) PROVE SyncInv'
<1> USE DEF SyncInv
<1>0. UNCHANGED <<rows, cache, listStage, snapshot, synced>>
  BY DEF Select
<1>1. jobs[s] # Free /\ jobs[s] \in Job
  BY DEF Select, Free, Job, TypeOK
<1>2. /\ jobs'[s] # Free /\ jobs'[s].name = jobs[s].name /\ jobs'[s].op = jobs[s].op
      /\ jobs'[s].level = jobs[s].level /\ jobs'[s].stage = "selected"
      /\ jobs'[s].found = (rows[jobs[s].name] # {})
  BY <1>1 DEF Select, TypeOK, Job, Free
<1>3. \A t \in Slots : t # s => jobs'[t] = jobs[t]
  BY DEF Select, TypeOK
<1>4. Alone' /\ NoLevel'
  BY <1>0, <1>1, <1>2, <1>3 DEF Alone, NoLevel, JobOf
<1>5. FoundIsTrue'
  BY <1>0, <1>1, <1>2, <1>3 DEF FoundIsTrue, JobOf
<1>6. ListIsFresh'
  BY <1>0, <1>1, <1>2, <1>3 DEF ListIsFresh, JobOf
<1>7. ResultIsFresh'
  BY <1>0, <1>1, <1>2, <1>3 DEF ResultIsFresh, JobOf, Outcome, Applied
<1>8. CacheIsFresh'
  <2>1. jobs[s].stage = "run"
    BY DEF Select
  <2>2. \A t \in Slots : \A n \in synced : JobOf(t, n)' <=> JobOf(t, n)
    BY <1>1, <1>2, <1>3 DEF JobOf
  <2>3. \A t \in Slots : jobs[t].stage = "ready" => jobs'[t].stage = "ready"
    BY <2>1, <1>3
  <2> QED
    BY <1>0, <2>2, <2>3 DEF CacheIsFresh
<1> QED
  BY <1>4, <1>5, <1>6, <1>7, <1>8

\* What the last statement leaves agrees with what its result will be applied as.
LEMMA WrittenAgrees ==
  ASSUME TypeOK, SyncInv, NEW s \in Slots, Write(s), listStage # "ready",
         jobs[s].name \in synced \ {Root}
  PROVE  Agree(Applied([jobs[s] EXCEPT !.stage = "ready"]), Written(jobs[s]))
<1> DEFINE job == jobs[s]
           n == job.name
<1>1. job # Free /\ job \in Job /\ JobOf(s, n)
  BY DEF Write, TypeOK, JobOf
<1>2. [job EXCEPT !.stage = "ready"].op = job.op
      /\ [job EXCEPT !.stage = "ready"].level = job.level
      /\ [job EXCEPT !.stage = "ready"].name = job.name
      /\ [job EXCEPT !.stage = "ready"].stage = "ready"
  BY <1>1 DEF Job
<1>3. Agree(cache[n], rows[n])
  <2>1. \A t \in Slots : JobOf(t, n) => t = s
    BY <1>1 DEF SyncInv, Alone
  <2>2. job.stage # "ready"
    BY DEF Write
  <2> QED
    BY <2>1, <2>2 DEF SyncInv, CacheIsFresh
<1>4. CASE job.op = "del"
  <2>1. job.level = 0
    BY <1>1, <1>4 DEF SyncInv, NoLevel
  <2>2. Applied([job EXCEPT !.stage = "ready"]) = 0
    BY <1>2, <1>4, <2>1 DEF Applied
  <2>3. Written(job) = {}
    BY <1>4 DEF Written
  <2> QED
    BY <2>2, <2>3 DEF Agree
<1>5. CASE job.op = "add"
  <2>1. job.found = (rows[n] # {})
    BY <1>1, <1>5 DEF Write, SyncInv, FoundIsTrue
  <2>2. Written(job) = {job.level}
    BY <1>5, <2>1 DEF Written
  <2> QED
    BY <1>2, <1>5, <2>2 DEF Applied, Agree
<1>6. CASE job.op = "seen"
  <2>1. job.found = (rows[n] # {}) /\ job.level = 0
    BY <1>1, <1>6 DEF Write, SyncInv, FoundIsTrue, NoLevel
  <2>2. Applied([job EXCEPT !.stage = "ready"]) = cache[n]
    BY <1>2, <1>6 DEF Applied
  <2>3. Written(job) = IF rows[n] # {} THEN rows[n] ELSE {0}
    BY <1>6, <2>1 DEF Written
  <2> QED
    BY <1>3, <2>2, <2>3 DEF Agree
<1> QED
  BY <1>1, <1>4, <1>5, <1>6 DEF Job, Ops

LEMMA WriteSync == ASSUME TypeOK, SyncInv, NEW s \in Slots, Write(s) PROVE SyncInv'
<1> USE DEF SyncInv, Write
<1> DEFINE n == jobs[s].name
<1>1. jobs[s] # Free /\ jobs[s] \in Job /\ JobOf(s, n) /\ n \in Names
  BY DEF TypeOK, JobOf, Job
<1>2. /\ jobs'[s] = [jobs[s] EXCEPT !.stage = "ready"]
      /\ jobs'[s] # Free /\ jobs'[s].name = n /\ jobs'[s].op = jobs[s].op
      /\ jobs'[s].level = jobs[s].level /\ jobs'[s].stage = "ready"
  BY <1>1 DEF TypeOK, Job, Free
<1>3. \A t \in Slots : t # s => jobs'[t] = jobs[t]
  BY DEF TypeOK
<1>4. synced' \subseteq synced /\ (listStage = "ready" => n \notin synced')
  OBVIOUS
<1>5. n \in synced' => \A t \in Slots : JobOf(t, n) => t = s
  BY <1>1, <1>4 DEF Alone
<1>6. rows'[n] = Written(jobs[s]) /\ \A m \in Names : m # n => rows'[m] = rows[m]
  BY <1>1 DEF TypeOK
<1>7. synced' \subseteq Names
  BY <1>4 DEF TypeOK
<1>8. Alone' /\ NoLevel'
  BY <1>1, <1>2, <1>3, <1>4 DEF Alone, NoLevel, JobOf
<1>9. FoundIsTrue'
  BY <1>2, <1>3, <1>4, <1>5, <1>6, <1>7 DEF FoundIsTrue, JobOf
<1>10. ListIsFresh'
  BY <1>2, <1>3, <1>4, <1>6, <1>7 DEF ListIsFresh, JobOf
<1>11. ResultIsFresh'
  <2> SUFFICES ASSUME listStage # "ready", NEW m \in synced' \ {Root}, NEW t \in Slots,
                      JobOf(t, m)', jobs'[t].stage = "ready"
               PROVE  Agree(Outcome(t)', rows'[m])
    BY DEF ResultIsFresh
  <2>1. Outcome(t)' = Applied(jobs'[t])
    BY DEF Outcome, Applied
  <2>2. CASE t = s
    <3>1. m = n
      BY <1>2, <2>2 DEF JobOf
    <3>2. Agree(Applied([jobs[s] EXCEPT !.stage = "ready"]), Written(jobs[s]))
      BY <3>1, <1>4, WrittenAgrees
    <3> QED
      BY <2>1, <2>2, <3>1, <3>2, <1>2, <1>6
  <2>3. CASE t # s
    <3>1. jobs'[t] = jobs[t] /\ JobOf(t, m)
      BY <2>3, <1>3 DEF JobOf
    <3>2. m # n
      BY <3>1, <2>3, <1>5
    <3>3. Agree(Applied(jobs[t]), rows[m])
      BY <3>1, <1>4 DEF ResultIsFresh, Outcome
    <3> QED
      BY <2>1, <3>1, <3>2, <3>3, <1>6, <1>7
  <2> QED
    BY <2>2, <2>3
<1>12. CacheIsFresh'
  <2> SUFFICES ASSUME listStage # "ready", NEW m \in synced' \ {Root},
                      \A t \in Slots : JobOf(t, m)' => jobs'[t].stage # "ready"
               PROVE  Agree(cache[m], rows'[m])
    BY DEF CacheIsFresh
  <2>1. m # n
    BY <1>2 DEF JobOf
  <2>2. \A t \in Slots : JobOf(t, m) => jobs[t].stage # "ready"
    BY <2>1, <1>3 DEF JobOf
  <2> QED
    BY <2>1, <2>2, <1>4, <1>6, <1>7 DEF CacheIsFresh
<1> QED
  BY <1>8, <1>9, <1>10, <1>11, <1>12

LEMMA JobFailsSync == ASSUME TypeOK, SyncInv, NEW s \in Slots, JobFails(s) PROVE SyncInv'
<1> USE DEF SyncInv, JobFails
<1>1. jobs[s] # Free /\ jobs[s] \in Job
  BY DEF TypeOK
<1>2. /\ jobs'[s] # Free /\ jobs'[s].name = jobs[s].name /\ jobs'[s].op = jobs[s].op
      /\ jobs'[s].level = jobs[s].level /\ jobs'[s].stage = "failed"
  BY <1>1 DEF TypeOK, Job, Free
<1>3. \A t \in Slots : t # s => jobs'[t] = jobs[t]
  BY DEF TypeOK
<1>4. Alone' /\ NoLevel'
  BY <1>1, <1>2, <1>3 DEF Alone, NoLevel, JobOf
<1>5. FoundIsTrue' /\ ListIsFresh'
  BY <1>2, <1>3 DEF FoundIsTrue, ListIsFresh, JobOf
<1>6. ResultIsFresh'
  BY <1>2, <1>3 DEF ResultIsFresh, JobOf, Outcome, Applied
<1>7. CacheIsFresh'
  BY <1>1, <1>2, <1>3 DEF CacheIsFresh, JobOf
<1> QED
  BY <1>4, <1>5, <1>6, <1>7

\* The name whose rows changed behind the cache's back is no longer synced.
LEMMA AnswerLostSync ==
  ASSUME TypeOK, SyncInv, NEW s \in Slots, AnswerLost(s)
  PROVE  SyncInv'
<1> USE DEF SyncInv, AnswerLost
<1>1. jobs[s] # Free /\ jobs[s] \in Job
  BY DEF TypeOK
<1>2. /\ jobs'[s] # Free /\ jobs'[s].name = jobs[s].name /\ jobs'[s].op = jobs[s].op
      /\ jobs'[s].level = jobs[s].level /\ jobs'[s].stage = "failed"
  BY <1>1 DEF TypeOK, Job, Free
<1>3. \A t \in Slots : t # s => jobs'[t] = jobs[t]
  BY DEF TypeOK
<1>4. \A n \in synced' : n \in synced /\ n # jobs[s].name /\ rows'[n] = rows[n]
  BY DEF TypeOK
<1>5. \A n \in synced' : \A t \in Slots : JobOf(t, n)' => t # s /\ JobOf(t, n)
  BY <1>2, <1>3, <1>4 DEF JobOf
<1>6. \A n \in synced' : \A t \in Slots : JobOf(t, n) => JobOf(t, n)' /\ jobs'[t] = jobs[t]
  BY <1>3, <1>4 DEF JobOf
<1>7. Alone'
  BY <1>4, <1>5 DEF Alone
<1>8. NoLevel'
  BY <1>1, <1>2, <1>3 DEF NoLevel
<1>9. FoundIsTrue' /\ ListIsFresh'
  BY <1>3, <1>4, <1>5 DEF FoundIsTrue, ListIsFresh
<1>10. ResultIsFresh'
  BY <1>3, <1>4, <1>5 DEF ResultIsFresh, Outcome, Applied
<1>11. CacheIsFresh'
  BY <1>4, <1>6 DEF CacheIsFresh
<1> QED
  BY <1>7, <1>8, <1>9, <1>10, <1>11

LEMMA ListSync == ASSUME TypeOK, SyncInv, ReadList \/ ListFails PROVE SyncInv'
<1> USE DEF SyncInv, Alone, NoLevel, FoundIsTrue, ListIsFresh, ResultIsFresh, CacheIsFresh
<1>1. CASE ReadList
  <2>1. \A n \in synced' : n \in Names /\ \A s \in Slots : ~JobOf(s, n)
    BY <1>1 DEF ReadList, Busy, JobOf
  <2>2. \A n \in Names : Agree(snapshot'[n], rows[n])
    BY <1>1 DEF ReadList, Agree
  <2> QED
    BY <1>1, <2>1, <2>2 DEF ReadList, JobOf
<1>2. CASE ListFails
  BY <1>2 DEF ListFails
<1> QED
  BY <1>1, <1>2

LEMMA ApplySync == ASSUME TypeOK, SyncInv, NEW s \in Slots, Apply(s) PROVE SyncInv'
<1> USE DEF SyncInv, Apply
<1> DEFINE n == jobs[s].name
<1>1. jobs[s] # Free /\ jobs[s] \in Job /\ JobOf(s, n) /\ n \in Names
  BY DEF TypeOK, JobOf, Job
<1>2. jobs'[s] = Free /\ \A t \in Slots : t # s => jobs'[t] = jobs[t]
  BY DEF TypeOK
<1>3. cache'[n] = Applied(jobs[s]) /\ \A m \in Names : m # n => cache'[m] = cache[m]
  BY <1>1 DEF TypeOK
<1>4. synced \subseteq Names
  BY DEF TypeOK
<1>5. Alone' /\ NoLevel' /\ FoundIsTrue' /\ ListIsFresh'
  BY <1>2 DEF Alone, NoLevel, FoundIsTrue, ListIsFresh, JobOf
<1>6. ResultIsFresh'
  <2> SUFFICES ASSUME listStage # "ready", NEW m \in synced \ {Root}, NEW t \in Slots,
                      JobOf(t, m)', jobs'[t].stage = "ready"
               PROVE  Agree(Outcome(t)', rows[m])
    BY DEF ResultIsFresh
  <2>1. t # s /\ jobs'[t] = jobs[t] /\ JobOf(t, m)
    BY <1>2 DEF JobOf
  <2>2. m # n
    BY <1>1, <2>1 DEF Alone
  <2>3. Outcome(t)' = Outcome(t)
    BY <2>1, <2>2, <1>3, <1>4 DEF Outcome, Applied, JobOf
  <2> QED
    BY <2>1, <2>3 DEF ResultIsFresh
<1>7. CacheIsFresh'
  <2> SUFFICES ASSUME listStage # "ready", NEW m \in synced \ {Root},
                      \A t \in Slots : JobOf(t, m)' => jobs'[t].stage # "ready"
               PROVE  Agree(cache'[m], rows[m])
    BY DEF CacheIsFresh
  <2>1. \A t \in Slots \ {s} : JobOf(t, m) => jobs[t].stage # "ready"
    BY <1>2 DEF JobOf
  <2>2. CASE m # n
    <3>1. \A t \in Slots : JobOf(t, m) => jobs[t].stage # "ready"
      BY <2>1, <2>2 DEF JobOf
    <3> QED
      BY <2>2, <3>1, <1>3, <1>4 DEF CacheIsFresh
  <2>3. CASE m = n /\ jobs[s].stage = "ready"
    BY <2>3, <1>1, <1>3 DEF ResultIsFresh, Outcome
  <2>4. CASE m = n /\ jobs[s].stage = "failed"
    <3>1. \A t \in Slots : JobOf(t, m) => jobs[t].stage # "ready"
      BY <2>1, <2>4
    <3>2. cache'[m] = cache[m]
      BY <2>4, <1>3 DEF Applied
    <3> QED
      BY <3>1, <3>2 DEF CacheIsFresh
  <2> QED
    BY <2>2, <2>3, <2>4
<1> QED
  BY <1>5, <1>6, <1>7

LEMMA RefreshSync == ASSUME TypeOK, SyncInv, StartList \/ Refresh PROVE SyncInv'
<1> USE DEF SyncInv
<1>1. CASE StartList
  BY <1>1 DEF StartList, Alone, NoLevel, FoundIsTrue, ListIsFresh, ResultIsFresh,
              CacheIsFresh, JobOf, Outcome, Applied
<1>2. CASE Refresh
  <2> USE <1>2 DEF Refresh
  <2>1. Alone' /\ NoLevel' /\ FoundIsTrue' /\ ListIsFresh'
    BY DEF Alone, NoLevel, FoundIsTrue, ListIsFresh, JobOf
  <2>2. ResultIsFresh' /\ CacheIsFresh'
    BY DEF ListIsFresh, ResultIsFresh, CacheIsFresh, JobOf
  <2> QED
    BY <2>1, <2>2
<1> QED
  BY <1>1, <1>2

LEMMA NextSync == ASSUME TypeOK, SyncInv, [Next]_vars PROVE SyncInv'
<1>1. CASE Thread
  BY <1>1, SelectSync, WriteSync, JobFailsSync, AnswerLostSync DEF Thread
<1>2. CASE \E s \in Slots : Apply(s)
  BY <1>2, ApplySync
<1>3. CASE UNCHANGED vars
  BY <1>3 DEF vars, SyncInv, Alone, NoLevel, FoundIsTrue, ListIsFresh, ResultIsFresh,
              CacheIsFresh, JobOf, Outcome, Applied
<1> QED
  BY <1>1, <1>2, <1>3, CommandSync, RootTalksSync, ListSync, RefreshSync DEF Next

\* On a name whose commands followed one another, with no list read among them and
\* no statement carried out without an answer, the cache is what the table says (bnet.cpp:351-483, dbmysql.cpp:773-895).
THEOREM Agreement == Spec => []SyncedAgrees
<1>1. TypeOK /\ SyncInv => SyncedAgrees
  BY DEF SyncInv, CacheIsFresh, SyncedAgrees, AgreesWithTable, Agree, Busy, JobOf, TypeOK
<1> QED
  BY <1>1, InitSync, NextSync, TypeCorrect, PTL DEF Spec
=============================================================================
