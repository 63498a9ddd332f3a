--------------------------- MODULE BanSync_proofs ---------------------------
(***************************************************************************)
(* A server's list of bans and its rows of the table agree on every name   *)
(* nothing has raced on, for any number of servers, names, commands and    *)
(* outstanding queries.  While a list has been read, it is what agrees     *)
(* with the table; otherwise it is m_Bans, or what the one query that has  *)
(* written will make of it.  A ban must find list and rows equal, not only *)
(* in agreement: an entry an unban left behind would be counted with it.   *)
(* IsBannedName sees to that when the command is given.                    *)
(***************************************************************************)
EXTENDS BanSync, TLAPS

Agree(entries, stored) == stored = 0 \/ entries = stored

JobOf(s, n) == jobs[s] # Free /\ jobs[s].name = n
Synced(v, n) == v \in Servers /\ n \in Names /\ <<v, n>> \in synced

\* Entries of n in the list of v once the job of slot s has been applied.
Outcome(s, v, n) == IF jobs[s].server = v THEN Applied(jobs[s], bans[v][n])
                    ELSE bans[v][n]

Alone == \A v, n : Synced(v, n) => \A s, t \in Slots : JobOf(s, n) /\ JobOf(t, n) => s = t
ListIsFresh ==
  \A v, n : Synced(v, n) /\ listStage[v] = "ready" =>
    /\ snapshot[v][n] = rows[v][n]
    /\ \A s \in Slots : JobOf(s, n) => jobs[s].stage # "ready"
BanIsNew ==
  \A v, n : Synced(v, n) /\ listStage[v] # "ready" =>
    \A s \in Slots :
      JobOf(s, n) /\ jobs[s].op = "ban" /\ jobs[s].server = v /\ jobs[s].stage = "run"
        => bans[v][n] = rows[v][n]
ResultIsFresh ==
  \A v, n : Synced(v, n) /\ listStage[v] # "ready" =>
    \A s \in Slots :
      JobOf(s, n) /\ jobs[s].stage = "ready" => Agree(Outcome(s, v, n), rows[v][n])
BansAreFresh ==
  \A v, n : Synced(v, n) /\ listStage[v] # "ready" =>
    ((\A s \in Slots : JobOf(s, n) => jobs[s].stage # "ready")
       => Agree(bans[v][n], rows[v][n]))

SyncInv == Alone /\ ListIsFresh /\ BanIsNew /\ ResultIsFresh /\ BansAreFresh

-----------------------------------------------------------------------------
LEMMA InitType == Init => TypeOK
  BY BanAssumption DEF Init, TypeOK, NoBans

LEMMA SpawnType ==
  ASSUME TypeOK, NEW op \in {"ban", "unban"}, NEW v \in Servers, NEW n \in Names,
         Spawn(op, v, n)
  PROVE  jobs' \in [Slots -> Job \cup {Free}] /\ commands' \in 0..MaxCommands
  BY BanAssumption DEF TypeOK, Spawn, Job

LEMMA NextType == ASSUME TypeOK, [Next]_vars PROVE TypeOK'
<1> USE DEF TypeOK
<1>1. ASSUME NEW v \in Servers, NEW n \in Names, BanCommand(v, n) \/ UnbanCommand(v, n)
      PROVE  TypeOK'
  BY <1>1, SpawnType DEF BanCommand, UnbanCommand
<1>2. ASSUME NEW v \in Servers, NEW n \in Names, GHostBans(v, n) PROVE TypeOK'
  <2>1. rows[v] \in [Names -> Nat] /\ rows[v][n] + 1 \in Nat
    OBVIOUS
  <2>2. rows' \in [Servers -> [Names -> Nat]]
    BY <1>2, <2>1 DEF GHostBans
  <2> QED
    BY <1>2, <2>2 DEF GHostBans
<1>3. ASSUME NEW s \in Slots, Write(s) PROVE TypeOK'
  <2>1. jobs[s] \in Job
    BY <1>3 DEF Write
  <2>2. \A v \in Servers : Written(jobs[s], v, jobs[s].name) \in Nat
    BY <2>1 DEF Written, Job
  <2>3. rows' \in [Servers -> [Names -> Nat]]
    BY <1>3, <2>1, <2>2 DEF Write, Job
  <2>4. jobs' \in [Slots -> Job \cup {Free}]
    BY <1>3, <2>1 DEF Write, Job
  <2> QED
    BY <1>3, <2>3, <2>4 DEF Write
<1>4. ASSUME NEW s \in Slots, JobFails(s) PROVE TypeOK'
  <2>1. jobs[s] \in Job
    BY <1>4 DEF JobFails
  <2>2. jobs' \in [Slots -> Job \cup {Free}]
    BY <1>4, <2>1 DEF JobFails, Job
  <2>3. failures' \in 0..MaxFailures
    BY <1>4, BanAssumption DEF JobFails
  <2> QED
    BY <1>4, <2>2, <2>3 DEF JobFails
<1>5. ASSUME NEW s \in Slots, Apply(s) PROVE TypeOK'
  <2>1. jobs[s].server \in Servers /\ jobs[s].name \in Names
    BY <1>5 DEF Apply, Job
  <2>2. Applied(jobs[s], bans[jobs[s].server][jobs[s].name]) \in Nat
    BY <2>1 DEF Applied
  <2>3. bans' \in [Servers -> [Names -> Nat]]
    BY <1>5, <2>1, <2>2 DEF Apply
  <2> QED
    BY <1>5, <2>3 DEF Apply
<1>6. ASSUME NEW v \in Servers, ReadList(v) \/ ListFails(v) \/ StartList(v) \/ Refresh(v)
      PROVE  TypeOK'
  <2>1. NoBans \in [Names -> Nat]
    BY DEF NoBans
  <2>2. CASE ReadList(v)
    BY <2>2 DEF ReadList
  <2>3. CASE ListFails(v)
    BY <2>1, <2>3, BanAssumption DEF ListFails
  <2>4. CASE StartList(v)
    BY <2>4 DEF StartList
  <2>5. CASE Refresh(v)
    BY <2>1, <2>5 DEF Refresh
  <2> QED
    BY <1>6, <2>2, <2>3, <2>4, <2>5
<1>7. ASSUME NEW s \in Slots, AnswerLost(s) PROVE TypeOK'
  <2>1. jobs[s] \in Job
    BY <1>7 DEF AnswerLost
  <2>2. \A v \in Servers : Written(jobs[s], v, jobs[s].name) \in Nat
    BY <2>1 DEF Written, Job
  <2>3. rows' \in [Servers -> [Names -> Nat]]
    BY <1>7, <2>1, <2>2 DEF AnswerLost, Job
  <2>4. jobs' \in [Slots -> Job \cup {Free}]
    BY <1>7, <2>1 DEF AnswerLost, Job
  <2>5. failures' \in 0..MaxFailures
    BY <1>7, BanAssumption DEF AnswerLost
  <2> QED
    BY <1>7, <2>3, <2>4, <2>5 DEF AnswerLost
<1>8. CASE UNCHANGED vars
  BY <1>8 DEF vars
<1> QED
  BY <1>1, <1>2, <1>3, <1>4, <1>5, <1>6, <1>7, <1>8 DEF Next

-----------------------------------------------------------------------------
LEMMA InitSync == Init => SyncInv
  BY DEF Init, SyncInv, Alone, ListIsFresh, BanIsNew, ResultIsFresh, BansAreFresh, Synced

\* A query on a busy name takes it out of synced.  One on a name without a query
\* has written nothing; if it is a ban, the server's list has no entry of the name.
LEMMA SpawnSync ==
  ASSUME TypeOK, SyncInv, NEW op \in {"ban", "unban"}, NEW v \in Servers, NEW n \in Names,
         Spawn(op, v, n), op = "ban" => ~IsBannedName(v, n),
         synced' \subseteq synced, \A w \in Servers : <<w, n>> \in synced' => ~Busy(n),
         UNCHANGED <<rows, bans, listStage, snapshot>>
  PROVE  SyncInv'
<1> USE DEF SyncInv
<1>1. PICK s \in Slots :
        /\ jobs[s] = Free
        /\ jobs' = [jobs EXCEPT ![s] = [op |-> op, server |-> v, name |-> n,
                                        stage |-> "run"]]
  BY DEF Spawn
<1>2. /\ jobs'[s] # Free /\ jobs'[s].name = n /\ jobs'[s].stage = "run"
      /\ jobs'[s].op = op /\ jobs'[s].server = v
  BY <1>1 DEF TypeOK, Free
<1>3. \A t \in Slots : t # s => jobs'[t] = jobs[t]
  BY <1>1 DEF TypeOK
<1>4. \A w, m : Synced(w, m)' => Synced(w, m)
  BY DEF Synced
<1>5. \A w : Synced(w, n)' => \A t \in Slots : ~JobOf(t, n)
  BY DEF Busy, JobOf, Synced
<1>6. Alone'
  BY <1>2, <1>3, <1>4, <1>5 DEF Alone, JobOf
<1>7. ListIsFresh'
  BY <1>2, <1>3, <1>4 DEF ListIsFresh, JobOf
<1>8. ResultIsFresh'
  BY <1>2, <1>3, <1>4 DEF ResultIsFresh, JobOf, Outcome
<1>9. BansAreFresh'
  BY <1>1, <1>2, <1>3, <1>4 DEF BansAreFresh, JobOf
<1>10. BanIsNew'
  <2> SUFFICES ASSUME NEW w, NEW m, Synced(w, m)', listStage[w] # "ready",
                      NEW t \in Slots, JobOf(t, m)', jobs'[t].op = "ban",
                      jobs'[t].server = w, jobs'[t].stage = "run"
               PROVE  bans[w][m] = rows[w][m]
    BY DEF BanIsNew
  <2>1. CASE t # s
    BY <2>1, <1>3, <1>4 DEF BanIsNew, JobOf
  <2>2. CASE t = s
    <3>1. w = v /\ m = n /\ op = "ban"
      BY <2>2, <1>2 DEF JobOf
    <3>2. Agree(bans[v][n], rows[v][n])
      BY <3>1, <1>4, <1>5 DEF BansAreFresh
    <3> QED
      BY <3>1, <3>2 DEF IsBannedName, Agree, TypeOK
  <2> QED
    BY <2>1, <2>2
<1> QED
  BY <1>6, <1>7, <1>8, <1>9, <1>10

LEMMA CommandSync ==
  ASSUME TypeOK, SyncInv, NEW v \in Servers, NEW n \in Names,
         BanCommand(v, n) \/ UnbanCommand(v, n)
  PROVE  SyncInv'
  BY SpawnSync DEF BanCommand, UnbanCommand

LEMMA GHostSync ==
  ASSUME TypeOK, SyncInv, NEW v \in Servers, NEW n \in Names, GHostBans(v, n)
  PROVE  SyncInv'
<1> USE DEF SyncInv
<1>1. UNCHANGED <<bans, jobs, listStage, snapshot>>
  BY DEF GHostBans
<1>2. \A w, m : Synced(w, m)' => Synced(w, m) /\ rows'[w][m] = rows[w][m]
  BY DEF GHostBans, Synced, TypeOK
<1> QED
  BY <1>1, <1>2 DEF Alone, ListIsFresh, BanIsNew, ResultIsFresh, BansAreFresh, JobOf, Outcome

-----------------------------------------------------------------------------
LEMMA WriteSync == ASSUME TypeOK, SyncInv, NEW s \in Slots, Write(s) PROVE SyncInv'
<1> USE DEF SyncInv
<1>0. jobs[s] # Free /\ jobs[s] \in Job /\ jobs[s].stage = "run"
  BY DEF Write, TypeOK
<1> PICK n \in Names : n = jobs[s].name
  BY <1>0 DEF Job
<1>1. jobs[s] # Free /\ jobs[s] \in Job /\ jobs[s].stage = "run" /\ JobOf(s, n) /\ n \in Names
  BY <1>0 DEF JobOf
<1>2. /\ jobs'[s] # Free /\ jobs'[s].name = n /\ jobs'[s].op = jobs[s].op
      /\ jobs'[s].server = jobs[s].server /\ jobs'[s].stage = "ready"
  BY <1>1 DEF Write, TypeOK, Job, Free
<1>3. \A t \in Slots : t # s => jobs'[t] = jobs[t]
  BY DEF Write, TypeOK
<1>4. UNCHANGED <<bans, listStage, snapshot>>
  BY DEF Write
<1>5. \A v, m : Synced(v, m)' => Synced(v, m) /\ (m = n => listStage[v] # "ready")
  BY DEF Write, Synced
<1>6. \A v, m : Synced(v, m)' =>
        rows'[v][m] = IF m = n THEN Written(jobs[s], v, n) ELSE rows[v][m]
  BY <1>1 DEF Write, Synced, TypeOK
<1>7. \A v : Synced(v, n)' => \A t \in Slots : JobOf(t, n) => t = s
  BY <1>1, <1>5 DEF Alone
<1>8. Alone'
  BY <1>1, <1>2, <1>3, <1>5 DEF Alone, JobOf
<1>9. ListIsFresh'
  BY <1>2, <1>3, <1>4, <1>5, <1>6 DEF ListIsFresh, JobOf
<1>10. BanIsNew'
  BY <1>2, <1>3, <1>4, <1>5, <1>6, <1>7 DEF BanIsNew, JobOf
<1>11. BansAreFresh'
  <2> SUFFICES ASSUME NEW v, NEW m, Synced(v, m)', listStage[v] # "ready",
                      \A t \in Slots : JobOf(t, m)' => jobs'[t].stage # "ready"
               PROVE  Agree(bans[v][m], rows'[v][m])
    BY <1>4 DEF BansAreFresh
  <2>1. m # n
    BY <1>2 DEF JobOf
  <2>2. \A t \in Slots : JobOf(t, m) => jobs[t].stage # "ready"
    BY <2>1, <1>1, <1>3 DEF JobOf
  <2> QED
    BY <2>1, <2>2, <1>5, <1>6 DEF BansAreFresh
<1>12. ResultIsFresh'
  <2> SUFFICES ASSUME NEW v, NEW m, Synced(v, m)', listStage[v] # "ready",
                      NEW t \in Slots, JobOf(t, m)', jobs'[t].stage = "ready"
               PROVE  Agree(Outcome(t, v, m)', rows'[v][m])
    BY <1>4 DEF ResultIsFresh
  <2>1. CASE t # s
    <3>1. jobs'[t] = jobs[t] /\ JobOf(t, m) /\ Outcome(t, v, m)' = Outcome(t, v, m)
      BY <2>1, <1>3, <1>4 DEF JobOf, Outcome
    <3>2. m # n
      BY <3>1, <2>1, <1>7
    <3> QED
      BY <3>1, <3>2, <1>5, <1>6 DEF ResultIsFresh
  <2>2. CASE t = s
    <3>1. m = n /\ Synced(v, n)
      BY <2>2, <1>2, <1>5 DEF JobOf
    <3>2. rows'[v][n] = Written(jobs[s], v, n)
      BY <3>1, <1>6
    <3>3. CASE jobs[s].op = "unban"
      BY <3>1, <3>2, <3>3 DEF Written, Agree
    <3>4. CASE jobs[s].op = "ban" /\ jobs[s].server = v
      <4>1. bans[v][n] = rows[v][n]
        BY <3>1, <3>4, <1>1 DEF BanIsNew
      <4>2. Outcome(s, v, n)' = bans[v][n] + 1
        BY <3>4, <1>2, <1>4 DEF Outcome, Applied
      <4>3. rows'[v][n] = rows[v][n] + 1
        BY <3>2, <3>4 DEF Written
      <4> QED
        BY <2>2, <3>1, <4>1, <4>2, <4>3 DEF Agree
    <3>5. CASE jobs[s].op = "ban" /\ jobs[s].server # v
      <4>1. Agree(bans[v][n], rows[v][n])
        BY <3>1, <1>1, <1>7 DEF BansAreFresh
      <4>2. Outcome(s, v, n)' = bans[v][n]
        BY <3>5, <1>2, <1>4 DEF Outcome
      <4>3. rows'[v][n] = rows[v][n] + 0 /\ rows[v][n] \in Nat
        BY <3>1, <3>2, <3>5 DEF Written, Synced, TypeOK
      <4> QED
        BY <2>2, <3>1, <4>1, <4>2, <4>3 DEF Agree
    <3> QED
      BY <3>3, <3>4, <3>5, <1>1 DEF Job
  <2> QED
    BY <2>1, <2>2
<1> QED
  BY <1>8, <1>9, <1>10, <1>11, <1>12

LEMMA JobFailsSync == ASSUME TypeOK, SyncInv, NEW s \in Slots, JobFails(s) PROVE SyncInv'
<1> USE DEF SyncInv
<1>1. jobs[s] # Free /\ jobs[s] \in Job /\ jobs[s].stage = "run"
  BY DEF JobFails, TypeOK
<1>2. /\ jobs'[s] # Free /\ jobs'[s].name = jobs[s].name /\ jobs'[s].stage = "failed"
  BY <1>1 DEF JobFails, TypeOK, Job, Free
<1>3. \A t \in Slots : t # s => jobs'[t] = jobs[t]
  BY DEF JobFails, TypeOK
<1>4. UNCHANGED <<rows, bans, listStage, snapshot, synced>>
  BY DEF JobFails
<1>5. \A t \in Slots : \A n : JobOf(t, n)' <=> JobOf(t, n)
  BY <1>1, <1>2, <1>3 DEF JobOf
<1>6. \A t \in Slots : jobs'[t].stage \in {"ready", "run"} => jobs'[t] = jobs[t]
  BY <1>2, <1>3
<1>7. \A t \in Slots : jobs[t].stage = "ready" => jobs'[t].stage = "ready"
  BY <1>1, <1>3
<1>8. \A v, n : Synced(v, n)' <=> Synced(v, n)
  BY <1>4 DEF Synced
<1> QED
  BY <1>4, <1>5, <1>6, <1>7, <1>8
  DEF Alone, ListIsFresh, BanIsNew, ResultIsFresh, BansAreFresh, Outcome

\* Where the pair is still synced, an unanswered unban leaves no rows and an
\* unanswered ban was of another server.
LEMMA AnswerLostSync ==
  ASSUME TypeOK, SyncInv, NEW s \in Slots, AnswerLost(s)
  PROVE  SyncInv'
<1> USE DEF SyncInv
<1>0. jobs[s] # Free /\ jobs[s] \in Job /\ jobs[s].stage = "run"
  BY DEF AnswerLost, TypeOK
<1> PICK n \in Names : n = jobs[s].name
  BY <1>0 DEF Job
<1>1. jobs[s] # Free /\ jobs[s] \in Job /\ jobs[s].stage = "run" /\ JobOf(s, n) /\ n \in Names
  BY <1>0 DEF JobOf
<1>2. /\ jobs'[s] # Free /\ jobs'[s].name = n /\ jobs'[s].stage = "failed"
  BY <1>1 DEF AnswerLost, TypeOK, Job, Free
<1>3. \A t \in Slots : t # s => jobs'[t] = jobs[t]
  BY DEF AnswerLost, TypeOK
<1>4. UNCHANGED <<bans, listStage, snapshot>>
  BY DEF AnswerLost
<1>5. \A v, m : Synced(v, m)' =>
        /\ Synced(v, m)
        /\ m = n => listStage[v] # "ready" /\ (jobs[s].op = "ban" => jobs[s].server # v)
  BY DEF AnswerLost, Synced
<1>6. \A v, m : Synced(v, m)' =>
        rows'[v][m] = IF m = n THEN Written(jobs[s], v, n) ELSE rows[v][m]
  BY <1>1 DEF AnswerLost, Synced, TypeOK
<1>7. \A v : Synced(v, n)' => \A t \in Slots : JobOf(t, n) => t = s
  BY <1>1, <1>5 DEF Alone
<1>8. \A t \in Slots : \A m : JobOf(t, m)' <=> JobOf(t, m)
  BY <1>1, <1>2, <1>3 DEF JobOf
<1>9. \A v, m : \A t \in Slots :
        Synced(v, m)' /\ JobOf(t, m) /\ t # s => m # n /\ jobs'[t] = jobs[t]
  BY <1>3, <1>7
<1>10. Alone'
  BY <1>5, <1>8 DEF Alone
<1>11. ListIsFresh'
  <2>1. \A v, m : Synced(v, m)' /\ listStage[v] = "ready" =>
          Synced(v, m) /\ rows'[v][m] = rows[v][m]
    BY <1>5, <1>6
  <2>2. \A t \in Slots : jobs'[t].stage = "ready" => jobs[t].stage = "ready"
    BY <1>2, <1>3
  <2> QED
    BY <1>4, <1>8, <2>1, <2>2 DEF ListIsFresh
<1>12. BanIsNew'
  BY <1>2, <1>4, <1>5, <1>6, <1>8, <1>9 DEF BanIsNew
<1>13. ResultIsFresh'
  BY <1>2, <1>4, <1>5, <1>6, <1>8, <1>9 DEF ResultIsFresh, Outcome
<1>14. BansAreFresh'
  <2> SUFFICES ASSUME NEW v, NEW m, Synced(v, m)', listStage[v] # "ready",
                      \A t \in Slots : JobOf(t, m) => jobs'[t].stage # "ready"
               PROVE  Agree(bans[v][m], rows'[v][m])
    BY <1>4, <1>8 DEF BansAreFresh
  <2>1. \A t \in Slots : JobOf(t, m) => jobs[t].stage # "ready"
    BY <1>1, <1>3
  <2>2. Agree(bans[v][m], rows[v][m])
    BY <2>1, <1>5 DEF BansAreFresh
  <2>3. CASE m # n
    BY <2>2, <2>3, <1>6
  <2>4. CASE m = n /\ jobs[s].op = "unban"
    BY <2>4, <1>6 DEF Written, Agree
  <2>5. CASE m = n /\ jobs[s].op = "ban"
    <3>1. rows'[v][n] = rows[v][n] + 0 /\ rows[v][n] \in Nat
      BY <2>5, <1>5, <1>6 DEF Written, Synced, TypeOK
    <3> QED
      BY <2>2, <2>5, <3>1
  <2> QED
    BY <2>3, <2>4, <2>5, <1>1 DEF Job
<1> QED
  BY <1>10, <1>11, <1>12, <1>13, <1>14

LEMMA ApplySync == ASSUME TypeOK, SyncInv, NEW s \in Slots, Apply(s) PROVE SyncInv'
<1> USE DEF SyncInv
<1> DEFINE n == jobs[s].name
<1>1. /\ jobs[s] # Free /\ jobs[s] \in Job /\ JobOf(s, n)
      /\ n \in Names /\ jobs[s].server \in Servers
  BY DEF Apply, TypeOK, JobOf, Job
<1>2. jobs'[s] = Free /\ \A t \in Slots : t # s => jobs'[t] = jobs[t]
  BY DEF Apply, TypeOK
<1>3. UNCHANGED <<rows, listStage, snapshot, synced>>
  BY DEF Apply
<1>4. \A v \in Servers, m \in Names :
        bans'[v][m] = IF m = n THEN Outcome(s, v, m) ELSE bans[v][m]
  BY <1>1 DEF Apply, Outcome, TypeOK
<1>5. \A v, m : Synced(v, m)' <=> Synced(v, m)
  BY <1>3 DEF Synced
<1>6. \A t \in Slots : \A m : JobOf(t, m)' <=> t # s /\ JobOf(t, m)
  BY <1>2 DEF JobOf
<1>7. \A v, m : Synced(v, m) => \A t \in Slots : JobOf(t, m)' => m # n
  BY <1>1, <1>6 DEF Alone
<1>8. jobs[s].stage = "ready" \/ jobs[s].stage = "failed"
  BY DEF Apply
<1>9. jobs[s].stage = "failed" => \A v, m : Outcome(s, v, m) = bans[v][m]
  BY DEF Outcome, Applied
<1> HIDE DEF n
<1>10. Alone' /\ ListIsFresh'
  BY <1>2, <1>3, <1>5, <1>6 DEF Alone, ListIsFresh
<1>11. BanIsNew'
  BY <1>2, <1>3, <1>4, <1>5, <1>6, <1>7 DEF BanIsNew, Synced
<1>12. ResultIsFresh'
  <2> SUFFICES ASSUME NEW v, NEW m, Synced(v, m), listStage[v] # "ready",
                      NEW t \in Slots, JobOf(t, m)', jobs'[t].stage = "ready"
               PROVE  Agree(Outcome(t, v, m)', rows[v][m])
    BY <1>3, <1>5 DEF ResultIsFresh
  <2>1. t # s /\ jobs'[t] = jobs[t] /\ JobOf(t, m) /\ m # n
    BY <1>2, <1>6, <1>7
  <2>2. bans'[v][m] = bans[v][m]
    BY <2>1, <1>4 DEF Synced
  <2>3. Outcome(t, v, m)' = Outcome(t, v, m)
    BY <2>1, <2>2 DEF Outcome
  <2> QED
    BY <2>1, <2>3 DEF ResultIsFresh
<1>13. BansAreFresh'
  <2> SUFFICES ASSUME NEW v, NEW m, Synced(v, m), listStage[v] # "ready",
                      \A t \in Slots : JobOf(t, m)' => jobs'[t].stage # "ready"
               PROVE  Agree(bans'[v][m], rows[v][m])
    BY <1>3, <1>5 DEF BansAreFresh
  <2>1. \A t \in Slots \ {s} : JobOf(t, m) => jobs[t].stage # "ready"
    BY <1>2, <1>6
  <2>2. CASE m # n
    <3>1. \A t \in Slots : JobOf(t, m) => jobs[t].stage # "ready"
      BY <2>1, <2>2, <1>1 DEF JobOf
    <3> QED
      BY <2>2, <3>1, <1>4 DEF BansAreFresh, Synced
  <2>3. CASE m = n /\ jobs[s].stage = "ready"
    BY <2>3, <1>1, <1>4 DEF ResultIsFresh, Synced
  <2>4. CASE m = n /\ jobs[s].stage = "failed"
    <3>1. \A t \in Slots : JobOf(t, m) => jobs[t].stage # "ready"
      BY <2>1, <2>4
    <3> QED
      BY <2>4, <3>1, <1>4, <1>9 DEF BansAreFresh, Synced
  <2> QED
    BY <2>2, <2>3, <2>4, <1>8
<1> QED
  BY <1>10, <1>11, <1>12, <1>13

-----------------------------------------------------------------------------
LEMMA ListSync ==
  ASSUME TypeOK, SyncInv, NEW v \in Servers,
         ReadList(v) \/ ListFails(v) \/ StartList(v) \/ Refresh(v)
  PROVE  SyncInv'
<1> USE DEF SyncInv
<1>1. UNCHANGED <<rows, jobs>>
  BY DEF ReadList, ListFails, StartList, Refresh
<1>2. \A s \in Slots : \A n : JobOf(s, n)' <=> JobOf(s, n)
  BY <1>1 DEF JobOf
<1>3. \A w \in Servers : w # v => /\ listStage'[w] = listStage[w]
                                  /\ snapshot'[w] = snapshot[w]
                                  /\ bans'[w] = bans[w]
  BY DEF ReadList, ListFails, StartList, Refresh, TypeOK
<1>4. \A w, n : w # v => (Synced(w, n)' => Synced(w, n))
  BY DEF ReadList, ListFails, StartList, Refresh, Synced
<1>5. \A w, n : w # v => \A s \in Slots : Synced(w, n) => Outcome(s, w, n)' = Outcome(s, w, n)
  BY <1>1, <1>3 DEF Outcome, Synced
<1>6. CASE ReadList(v)
  <2>1. listStage'[v] = "ready" /\ snapshot'[v] = rows[v]
    BY <1>6 DEF ReadList, TypeOK
  <2>2. \A n : Synced(v, n)' => \A s \in Slots : ~JobOf(s, n)
    BY <1>6 DEF ReadList, Synced, Busy, JobOf
  <2> QED
    BY <1>1, <1>2, <1>3, <1>4, <1>5, <2>1, <2>2
    DEF Alone, ListIsFresh, BanIsNew, ResultIsFresh, BansAreFresh, Synced
<1>7. CASE ListFails(v)
  <2>1. \A n : ~Synced(v, n)'
    BY <1>7 DEF ListFails, Synced
  <2> QED
    BY <1>1, <1>2, <1>3, <1>4, <1>5, <2>1
    DEF Alone, ListIsFresh, BanIsNew, ResultIsFresh, BansAreFresh, Synced
<1>8. CASE StartList(v)
  <2>1. /\ \A w \in Servers : listStage'[w] = "ready" <=> listStage[w] = "ready"
        /\ UNCHANGED <<bans, snapshot, synced>>
    BY <1>8 DEF StartList, TypeOK
  <2> QED
    BY <1>1, <1>2, <2>1
    DEF Alone, ListIsFresh, BanIsNew, ResultIsFresh, BansAreFresh, Synced, Outcome
<1>9. CASE Refresh(v)
  <2>1. listStage[v] = "ready" /\ listStage'[v] # "ready" /\ bans'[v] = snapshot[v]
    BY <1>9 DEF Refresh, TypeOK
  <2>2. \A w, n : Synced(w, n)' <=> Synced(w, n)
    BY <1>9 DEF Refresh, Synced
  <2> QED
    BY <1>1, <1>2, <1>3, <1>5, <2>1, <2>2
    DEF Alone, ListIsFresh, BanIsNew, ResultIsFresh, BansAreFresh, Synced, Agree
<1> QED
  BY <1>6, <1>7, <1>8, <1>9

LEMMA NextSync == ASSUME TypeOK, SyncInv, [Next]_vars PROVE SyncInv'
<1>1. CASE UNCHANGED vars
  BY <1>1 DEF vars, SyncInv, Alone, ListIsFresh, BanIsNew, ResultIsFresh, BansAreFresh,
              Synced, JobOf, Outcome
<1> QED
  BY <1>1, CommandSync, GHostSync, WriteSync, JobFailsSync, AnswerLostSync, ApplySync, ListSync DEF Next

-----------------------------------------------------------------------------
\* Every variable keeps its type.
THEOREM TypeCorrect == Spec => []TypeOK
  BY InitType, NextType, PTL DEF Spec

\* No ban is forgotten and none doubled unless commands, lists or other programs
\* race (bnet.cpp:230-270 and 485-503, dbmysql.cpp:464-513, command.cpp:252).
THEOREM Agreement == Spec => []SyncedAgrees
<1>1. SyncInv => SyncedAgrees
  BY DEF SyncInv, BansAreFresh, SyncedAgrees, Quiet, Agree, Busy, JobOf, Synced
<1> QED
  BY <1>1, InitType, NextType, InitSync, NextSync, PTL DEF Spec
=============================================================================
