------------------------------- MODULE DBPool -------------------------------
(***************************************************************************)
(* The pool of MySQL connections.  A ThreadedXXX call takes the first idle *)
(* connection, or none, and starts a thread for its callable; the thread   *)
(* opens a connection if it got none, runs its query and makes the callable *)
(* ready; whoever waits for the callable then gives it to RecoverCallable, *)
(* which puts the connection back or closes it.  Threads and the main loop *)
(* share a callable through m_Ready alone.                                 *)
(***************************************************************************)
EXTENDS Naturals, Sequences, FiniteSets

CONSTANTS
  Connections,  \* MYSQL handles
  Callables,    \* callables that may be alive at a time: a bound
  NULL,         \* no connection
  MaxIdle,      \* idle connections above which one that comes back is closed: 30
  MaxFailures   \* bound on threads that cannot be created

ASSUME PoolAssumption == /\ NULL \notin Connections
                         /\ IsFiniteSet(Callables)
                         /\ MaxIdle \in Nat /\ MaxFailures \in Nat

VARIABLES
  idle,            \* m_IdleConnections
  numConnections,  \* m_NumConnections
  outstanding,     \* m_OutstandingCallables
  stage,           \* of each callable: "none", "spawned", "query" or "ready"
  conn,            \* its m_Connection
  open,            \* handles that are allocated and not closed
  failures         \* threads that could not be created so far

vars == <<idle, numConnections, outstanding, stage, conn, open, failures>>

TypeOK == /\ idle \in Seq(Connections \cup {NULL})
          /\ numConnections \in Nat
          /\ outstanding \in Nat
          /\ stage \in [Callables -> {"none", "spawned", "query", "ready"}]
          /\ conn \in [Callables -> Connections \cup {NULL}]
          /\ open \subseteq Connections
          /\ failures \in 0..MaxFailures

Init == /\ \E k \in Connections : idle = <<k>> /\ open = {k}
        /\ numConnections = 1
        /\ outstanding = 0
        /\ stage = [c \in Callables |-> "none"]
        /\ conn = [c \in Callables |-> NULL]
        /\ failures = 0

-----------------------------------------------------------------------------
(* The main loop.                                                          *)

\* Mutant: a new connection each time, but the queue is popped.
GetIdleNone == NULL

GetIdleConnection == IF idle = <<>> THEN NULL ELSE Head(idle)

\* ThreadedXXX.  A thread that cannot be created, at the second attempt either, leaves
\* a callable that is ready and has run nothing.
Threaded(c) ==
  /\ stage[c] = "none"
  /\ conn' = [conn EXCEPT ![c] = GetIdleConnection]
  /\ idle' = IF idle = <<>> THEN idle ELSE Tail(idle)
  /\ numConnections' = IF GetIdleConnection = NULL THEN numConnections + 1
                                                   ELSE numConnections
  /\ outstanding' = outstanding + 1
  /\ \/ stage' = [stage EXCEPT ![c] = "spawned"] /\ UNCHANGED failures
     \/ stage' = [stage EXCEPT ![c] = "ready"]
        /\ failures < MaxFailures /\ failures' = failures + 1
  /\ UNCHANGED open

\* Mutant: any number of idle connections is kept.
PutBackAlways(c) == idle' = Append(idle, conn[c]) /\ UNCHANGED <<numConnections, open>>

\* Mutant: a closed connection is put back.
PutBackClosed(c) ==
  /\ idle' = Append(idle, conn[c])
  /\ IF Len(idle) > MaxIdle
     THEN open' = open \ {conn[c]} /\ numConnections' = numConnections - 1
     ELSE UNCHANGED <<numConnections, open>>

\* Mutant: m_NumConnections does not hear of the connections closed.
PutBackUncounted(c) ==
  /\ IF Len(idle) > MaxIdle
     THEN open' = open \ {conn[c]} /\ UNCHANGED idle
     ELSE idle' = Append(idle, conn[c]) /\ UNCHANGED open
  /\ UNCHANGED numConnections

PutBack(c) ==
  IF Len(idle) > MaxIdle
  THEN /\ open' = open \ {conn[c]}
       /\ numConnections' = numConnections - 1
       /\ UNCHANGED idle
  ELSE /\ idle' = Append(idle, conn[c])
       /\ UNCHANGED <<numConnections, open>>

\* GetReady, RecoverCallable and delete, in CBNET::Update or CChOP::Update.
RecoverCallable(c) ==
  /\ stage[c] = "ready"
  /\ PutBack(c)
  /\ outstanding' = IF outstanding = 0 THEN 0 ELSE outstanding - 1
  /\ stage' = [stage EXCEPT ![c] = "none"]
  /\ conn' = [conn EXCEPT ![c] = NULL]
  /\ UNCHANGED failures

-----------------------------------------------------------------------------
(* The callable's thread.                                                  *)

\* CMySQLCallable::Init: allocates a handle, or pings the one it was given.
Connect(c, k) ==
  /\ stage[c] = "spawned"
  /\ conn[c] = NULL
  /\ k \notin open
  /\ open' = open \cup {k}
  /\ conn' = [conn EXCEPT ![c] = k]
  /\ stage' = [stage EXCEPT ![c] = "query"]
  /\ UNCHANGED <<idle, numConnections, outstanding, failures>>

Ping(c) ==
  /\ stage[c] = "spawned"
  /\ conn[c] # NULL
  /\ stage' = [stage EXCEPT ![c] = "query"]
  /\ UNCHANGED <<idle, numConnections, outstanding, conn, open, failures>>

\* The query, then CMySQLCallable::Close.
Close(c) ==
  /\ stage[c] = "query"
  /\ stage' = [stage EXCEPT ![c] = "ready"]
  /\ UNCHANGED <<idle, numConnections, outstanding, conn, open, failures>>

-----------------------------------------------------------------------------
Next == \E c \in Callables : \/ Threaded(c) \/ RecoverCallable(c)
                             \/ \E k \in Connections : Connect(c, k)
                             \/ Ping(c) \/ Close(c)

Spec == Init /\ [][Next]_vars

-----------------------------------------------------------------------------
(* Properties.                                                             *)

IdleOnce == \A i, j \in 1..Len(idle) : i # j => idle[i] = NULL \/ idle[i] # idle[j]
IdleIsFree == \A i \in 1..Len(idle), c \in Callables : idle[i] = NULL \/ idle[i] # conn[c]
HeldOnce == \A c, d \in Callables : c # d => conn[c] = NULL \/ conn[c] # conn[d]
AllOpen == /\ \A i \in 1..Len(idle) : idle[i] \in open \cup {NULL}
           /\ \A c \in Callables : conn[c] \in open \cup {NULL}

\* A MYSQL handle must not be used by two threads at a time, nor after mysql_close: no
\* order of calls, threads and recoveries makes two callables hold one connection, nor
\* one hold a connection that is in the queue or closed.
OneOwner == IdleOnce /\ IdleIsFree /\ HeldOnce /\ AllOpen

\* Every connection that is open is in the queue or with a callable that will bring it
\* back: recovering callables late or in another order leaks none.
NoLeak == \A k \in open : \/ \E i \in 1..Len(idle) : idle[i] = k
                          \/ \E c \in Callables : conn[c] = k

\* The pool does not grow without bound: RecoverCallable's test lets the queue have one
\* connection more than MaxIdle and never a second.
IdleBounded == Len(idle) <= MaxIdle + 1

Alive == {c \in Callables : stage[c] # "none"}

\* What GetStatus reports: the outstanding callables are exactly those alive, and the
\* connections are those idle or with a callable, plus at most one for each thread that
\* could not be created (its callable gives a NULL back, which is counted again).
CountsCover == /\ outstanding = Cardinality(Alive)
               /\ numConnections >= Len(idle) + Cardinality(Alive)
CountsHonest == /\ CountsCover
                /\ numConnections <= Len(idle) + Cardinality(Alive) + failures
=============================================================================
