---------------------------- MODULE Runtime_proofs ----------------------------
(***************************************************************************)
(* What the bot runs on keeps its promises, whatever it is used for: the   *)
(* pool of database connections, for any number of connections and         *)
(* callables and any limit, and the vectors of handlers, for any plugins.  *)
(***************************************************************************)
EXTENDS DBPool, PluginHandlers, FiniteSetTheorems, SequenceTheorems, TLAPS

-----------------------------------------------------------------------------
(* The pool: no connection has two owners, none is lost, the queue stays   *)
(* bounded, and the counters tell the truth.                               *)

\* A callable that is not alive holds nothing.
Released == \A c \in Callables : stage[c] = "none" => conn[c] = NULL

IInv == TypeOK /\ OneOwner /\ NoLeak /\ Released /\ IdleBounded /\ CountsCover

\* Alive callables can be counted, and one more or one less counts as that.
LEMMA Counting ==
  ASSUME TypeOK
  PROVE  /\ IsFiniteSet(Alive) /\ Cardinality(Alive) \in Nat
         /\ \A c \in Callables :
              /\ stage[c] = "none" =>
                   Cardinality(Alive \cup {c}) = Cardinality(Alive) + 1
              /\ stage[c] # "none" =>
                   /\ Cardinality(Alive) >= 1
                   /\ Cardinality(Alive \ {c}) = Cardinality(Alive) - 1
<1>1. IsFiniteSet(Alive)
  BY PoolAssumption, FS_Subset DEF Alive
<1>2. Cardinality(Alive) \in Nat
  BY <1>1, FS_CardinalityType
<1>3. ASSUME NEW c \in Callables, stage[c] = "none"
      PROVE  Cardinality(Alive \cup {c}) = Cardinality(Alive) + 1
  <2>1. c \notin Alive
    BY <1>3 DEF Alive
  <2> QED
    BY <1>1, <2>1, FS_AddElement
<1>4. ASSUME NEW c \in Callables, stage[c] # "none"
      PROVE  /\ Cardinality(Alive) >= 1
             /\ Cardinality(Alive \ {c}) = Cardinality(Alive) - 1
  <2>1. c \in Alive
    BY <1>4 DEF Alive
  <2>2. Cardinality(Alive \ {c}) = Cardinality(Alive) - 1
    BY <1>1, <2>1, FS_RemoveElement
  <2>3. IsFiniteSet(Alive \ {c})
    BY <1>1, FS_RemoveElement
  <2>4. Cardinality(Alive \ {c}) \in Nat
    BY <2>3, FS_CardinalityType
  <2> QED
    BY <1>2, <2>2, <2>4
<1> QED
  BY <1>1, <1>2, <1>3, <1>4

LEMMA InitInv == Init => IInv
<1> SUFFICES ASSUME Init PROVE IInv
  OBVIOUS
<1>1. PICK k \in Connections : idle = <<k>> /\ open = {k}
  BY DEF Init
<1>2. Alive = {}
  BY DEF Init, Alive
<1>3. Cardinality(Alive) = 0
  BY <1>2, FS_EmptySet
<1>4. TypeOK
  BY <1>1, PoolAssumption DEF Init, TypeOK
<1>5. OneOwner
  BY <1>1, PoolAssumption
     DEF Init, OneOwner, IdleOnce, IdleIsFree, HeldOnce, AllOpen
<1>6. NoLeak
  BY <1>1 DEF NoLeak
<1>7. Released /\ IdleBounded /\ CountsCover
  BY <1>1, <1>3, PoolAssumption DEF Init, Released, IdleBounded, CountsCover
<1> QED
  BY <1>4, <1>5, <1>6, <1>7 DEF IInv

\* The queue with its first entry gone: a call takes it, if there is one.
LEMMA ThreadedInv ==
  ASSUME IInv, NEW c \in Callables, Threaded(c)
  PROVE  IInv'
<1> USE DEF IInv
<1>1. TypeOK'
  BY PoolAssumption DEF Threaded, TypeOK, GetIdleConnection
<1>2. ASSUME idle = <<>> PROVE OneOwner' /\ NoLeak' /\ IdleBounded'
  <2>1. idle' = <<>> /\ conn' = [conn EXCEPT ![c] = NULL] /\ open' = open
    BY <1>2 DEF Threaded, GetIdleConnection
  <2>2. conn' = conn
    BY <2>1 DEF Threaded, Released, TypeOK
  <2>3. OneOwner' /\ NoLeak' /\ IdleBounded'
    BY <1>2, <2>1, <2>2
       DEF OneOwner, IdleOnce, IdleIsFree, HeldOnce, AllOpen, NoLeak, IdleBounded
  <2> QED
    BY <2>3
<1>3. ASSUME idle # <<>> PROVE OneOwner' /\ NoLeak' /\ IdleBounded'
  <2>1. /\ idle' = Tail(idle) /\ conn' = [conn EXCEPT ![c] = Head(idle)] /\ open' = open
        /\ Head(idle) = idle[1] /\ Len(idle) \in Nat /\ Len(idle) >= 1
        /\ Len(Tail(idle)) = Len(idle) - 1
        /\ \A i \in 1..Len(Tail(idle)) : Tail(idle)[i] = idle[i + 1]
    BY <1>3 DEF Threaded, GetIdleConnection, TypeOK
  <2>2. conn[c] = NULL
    BY DEF Threaded, Released
  <2>3. \A d \in Callables : conn'[d] = IF d = c THEN idle[1] ELSE conn[d]
    BY <2>1 DEF TypeOK
  <2>4. IdleOnce'
    BY <2>1 DEF OneOwner, IdleOnce
  <2>5. IdleIsFree'
    BY <2>1, <2>3 DEF OneOwner, IdleOnce, IdleIsFree
  <2>6. HeldOnce'
    BY <2>1, <2>3 DEF OneOwner, IdleIsFree, HeldOnce
  <2>7. AllOpen'
    BY <2>1, <2>3 DEF OneOwner, AllOpen
  <2>8. ASSUME NEW k \in open
        PROVE  \/ \E i \in 1..Len(idle') : idle'[i] = k
               \/ \E d \in Callables : conn'[d] = k
    <3>1. CASE \E d \in Callables : conn[d] = k
      BY <2>2, <2>3, <2>8, <3>1, PoolAssumption DEF TypeOK
    <3>2. CASE \E i \in 1..Len(idle) : idle[i] = k
      <4>1. PICK i \in 1..Len(idle) : idle[i] = k
        BY <3>2
      <4>2. CASE i = 1
        BY <2>3, <4>1, <4>2
      <4>3. CASE i # 1
        <5>1. i - 1 \in 1..Len(idle') /\ idle'[i - 1] = k
          BY <2>1, <4>1, <4>3
        <5> QED
          BY <5>1
      <4> QED
        BY <4>2, <4>3
    <3> QED
      BY <2>8, <3>1, <3>2 DEF NoLeak
  <2>9. NoLeak' /\ IdleBounded'
    BY <2>1, <2>8, PoolAssumption DEF NoLeak, IdleBounded
  <2> QED
    BY <2>4, <2>5, <2>6, <2>7, <2>9 DEF OneOwner
<1>4. Released'
  BY DEF Threaded, Released, TypeOK
<1>5. CountsCover'
  <2>1. Alive' = Alive \cup {c} /\ stage[c] = "none"
    BY DEF Threaded, Alive, TypeOK
  <2>2. Cardinality(Alive') = Cardinality(Alive) + 1 /\ Cardinality(Alive) \in Nat
    BY <2>1, Counting
  <2>3. /\ idle = <<>> => Len(idle') = 0 /\ Len(idle) = 0
        /\ idle # <<>> => Len(idle') = Len(idle) - 1
        /\ Len(idle) \in Nat
    BY DEF Threaded, TypeOK
  <2>4. failures' \in Nat /\ failures \in Nat /\ failures' >= failures
    BY PoolAssumption DEF Threaded, TypeOK
  <2>5. CASE GetIdleConnection # NULL
    <3>1. idle # <<>> /\ numConnections' = numConnections
      BY <2>5 DEF GetIdleConnection, Threaded
    <3> QED
      BY <2>2, <2>3, <2>4, <3>1 DEF CountsCover, Threaded, TypeOK
  <2>6. CASE GetIdleConnection = NULL
    <3>1. numConnections' = numConnections + 1
      BY <2>6 DEF Threaded
    <3> QED
      BY <2>2, <2>3, <2>4, <3>1, SMTT(30) DEF CountsCover, Threaded, TypeOK
  <2> QED
    BY <2>5, <2>6
<1> QED
  BY <1>1, <1>2, <1>3, <1>4, <1>5

\* What a recovered callable brings back is nobody else's.
LEMMA RecoverInv ==
  ASSUME IInv, NEW c \in Callables, RecoverCallable(c)
  PROVE  IInv'
<1> USE DEF IInv
<1>1. /\ Cardinality(Alive) \in Nat /\ Cardinality(Alive) >= 1
      /\ Cardinality(Alive') = Cardinality(Alive) - 1
  <2>1. Alive' = Alive \ {c} /\ stage[c] # "none"
    BY DEF RecoverCallable, Alive, TypeOK
  <2> QED
    BY <2>1, Counting
<1>2. /\ Len(idle) \in Nat /\ MaxIdle \in Nat
      /\ \A d \in Callables : conn'[d] = IF d = c THEN NULL ELSE conn[d]
  BY PoolAssumption DEF TypeOK, RecoverCallable
<1>3. Released'
  BY <1>2 DEF RecoverCallable, Released, TypeOK
<1>4. ASSUME Len(idle) > MaxIdle
      PROVE  TypeOK' /\ OneOwner' /\ NoLeak' /\ IdleBounded' /\ CountsCover'
  <2>1. idle' = idle /\ open' = open \ {conn[c]} /\ numConnections' = numConnections - 1
    BY <1>4 DEF RecoverCallable, PutBack
  <2>2. TypeOK'
    <3>1. numConnections' \in Nat
      BY <1>1, <1>2, <2>1 DEF CountsCover, TypeOK
    <3> QED
      BY <2>1, <3>1 DEF RecoverCallable, TypeOK
  <2>3. OneOwner'
    <3>1. IdleOnce'
      BY <2>1 DEF OneOwner, IdleOnce
    <3>2. IdleIsFree'
      BY <1>2, <2>1 DEF OneOwner, IdleIsFree
    <3>3. HeldOnce'
      BY <1>2 DEF OneOwner, HeldOnce
    <3>4. AllOpen'
      BY <1>2, <2>1 DEF OneOwner, AllOpen, IdleIsFree, HeldOnce
    <3> QED
      BY <3>1, <3>2, <3>3, <3>4 DEF OneOwner
  <2>4. NoLeak'
    BY <1>2, <2>1 DEF NoLeak
  <2>5. IdleBounded' /\ CountsCover'
    BY <1>1, <1>2, <2>1 DEF IdleBounded, CountsCover, RecoverCallable, TypeOK
  <2> QED
    BY <2>2, <2>3, <2>4, <2>5
<1>5. ASSUME ~(Len(idle) > MaxIdle)
      PROVE  TypeOK' /\ OneOwner' /\ NoLeak' /\ IdleBounded' /\ CountsCover'
  <2>1. /\ idle' = Append(idle, conn[c]) /\ open' = open
        /\ numConnections' = numConnections
    BY <1>5 DEF RecoverCallable, PutBack
  <2>2. /\ Len(idle') = Len(idle) + 1
        /\ \A i \in 1..Len(idle') : idle'[i] = IF i = Len(idle) + 1 THEN conn[c] ELSE idle[i]
    BY <2>1 DEF TypeOK
  <2>3. TypeOK'
    BY <2>1 DEF RecoverCallable, TypeOK
  <2>4. IdleOnce'
    BY <1>2, <2>2 DEF OneOwner, IdleOnce, IdleIsFree
  <2>5. IdleIsFree'
    BY <1>2, <2>2 DEF OneOwner, IdleIsFree, HeldOnce
  <2>6. HeldOnce'
    BY <1>2 DEF OneOwner, HeldOnce
  <2>7. AllOpen'
    BY <1>2, <2>1, <2>2 DEF OneOwner, AllOpen
  <2>8. ASSUME NEW k \in open
        PROVE  \/ \E i \in 1..Len(idle') : idle'[i] = k
               \/ \E d \in Callables : conn'[d] = k
    <3>1. CASE \E i \in 1..Len(idle) : idle[i] = k
      BY <1>2, <2>2, <3>1
    <3>2. CASE conn[c] = k
      <4>1. Len(idle) + 1 \in 1..Len(idle') /\ idle'[Len(idle) + 1] = k
        BY <1>2, <2>2, <3>2
      <4> QED
        BY <4>1
    <3>3. CASE \E d \in Callables : d # c /\ conn[d] = k
      BY <1>2, <3>3
    <3> QED
      BY <2>8, <3>1, <3>2, <3>3 DEF NoLeak
  <2>9. NoLeak'
    BY <2>1, <2>8 DEF NoLeak
  <2>10. IdleBounded' /\ CountsCover'
    BY <1>1, <1>2, <1>5, <2>1, <2>2, SMTT(30)
       DEF IdleBounded, CountsCover, RecoverCallable, TypeOK
  <2> QED
    BY <2>3, <2>4, <2>5, <2>6, <2>7, <2>9, <2>10 DEF OneOwner
<1> QED
  BY <1>3, <1>4, <1>5

\* A thread opens a handle nobody has; its other steps move no connection.
LEMMA ThreadInv ==
  ASSUME IInv, NEW c \in Callables,
         \/ \E k \in Connections : Connect(c, k)
         \/ Ping(c)
         \/ Close(c)
  PROVE  IInv'
<1> USE DEF IInv
<1>1. /\ idle' = idle /\ numConnections' = numConnections /\ outstanding' = outstanding
      /\ failures' = failures
      /\ stage' \in [Callables -> {"none", "spawned", "query", "ready"}]
      /\ \A d \in Callables : stage'[d] = "none" <=> stage[d] = "none"
  BY DEF Connect, Ping, Close, TypeOK
<1>2. Alive' = Alive
  BY <1>1 DEF Alive
<1>3. IdleBounded' /\ CountsCover'
  BY <1>1, <1>2 DEF IdleBounded, CountsCover
<1>4. ASSUME NEW k \in Connections, Connect(c, k)
      PROVE  TypeOK' /\ OneOwner' /\ NoLeak' /\ Released'
  <2>1. /\ k \notin open /\ open' = open \cup {k} /\ k # NULL /\ conn[c] = NULL
        /\ stage[c] = "spawned"
        /\ conn' \in [Callables -> Connections \cup {NULL}]
        /\ \A d \in Callables : conn'[d] = IF d = c THEN k ELSE conn[d]
    BY <1>4, PoolAssumption DEF Connect, TypeOK
  <2>2. TypeOK'
    BY <1>1, <2>1 DEF TypeOK
  <2>3. OneOwner'
    BY <1>1, <2>1 DEF OneOwner, IdleOnce, IdleIsFree, HeldOnce, AllOpen
  <2>4. NoLeak'
    BY <1>1, <2>1, PoolAssumption DEF NoLeak, TypeOK
  <2>5. Released'
    BY <1>1, <2>1 DEF Released
  <2> QED
    BY <2>2, <2>3, <2>4, <2>5
<1>5. ASSUME Ping(c) \/ Close(c)
      PROVE  TypeOK' /\ OneOwner' /\ NoLeak' /\ Released'
  <2>1. conn' = conn /\ open' = open
    BY <1>5 DEF Ping, Close
  <2> QED
    BY <1>1, <2>1
       DEF TypeOK, OneOwner, IdleOnce, IdleIsFree, HeldOnce, AllOpen, NoLeak, Released
<1> QED
  BY <1>3, <1>4, <1>5

LEMMA StutterInv ==
  ASSUME IInv, UNCHANGED vars
  PROVE  IInv'
BY SMTT(30) DEF vars, IInv, TypeOK, OneOwner, IdleOnce, IdleIsFree, HeldOnce, AllOpen, NoLeak,
       Released, IdleBounded, CountsCover, Alive

LEMMA NextInv ==
  ASSUME IInv, [Next]_vars
  PROVE  IInv'
<1>1. CASE Next
  <2>1. PICK c \in Callables : \/ Threaded(c) \/ RecoverCallable(c)
                               \/ \E k \in Connections : Connect(c, k)
                               \/ Ping(c) \/ Close(c)
    BY <1>1 DEF Next
  <2> QED
    BY <2>1, ThreadedInv, RecoverInv, ThreadInv
<1>2. CASE UNCHANGED vars
  BY <1>2, StutterInv
<1> QED
  BY <1>1, <1>2

LEMMA Inductive == Spec => []IInv
BY InitInv, NextInv, PTL DEF Spec

\* The variables have their types; the counters never go below zero.
THEOREM TypeCorrect == Spec => []TypeOK
<1>1. IInv => TypeOK
  BY DEF IInv
<1> QED
  BY <1>1, Inductive, PTL

\* However many threads run and in whatever order callables are recovered, a connection
\* has one owner at a time, and is open while it has (dbmysql.cpp:99-146, 343-354).
THEOREM ConnectionsHaveOneOwner == Spec => []OneOwner
<1>1. IInv => OneOwner
  BY DEF IInv
<1> QED
  BY <1>1, Inductive, PTL

\* No open connection is ever lost (dbmysql.cpp:99-121).
THEOREM ConnectionsAreNotLost == Spec => []NoLeak
<1>1. IInv => NoLeak
  BY DEF IInv
<1> QED
  BY <1>1, Inductive, PTL

\* At most MaxIdle + 1 connections wait in the queue (dbmysql.cpp:105).
THEOREM PoolIsBounded == Spec => []IdleBounded
<1>1. IInv => IdleBounded
  BY DEF IInv
<1> QED
  BY <1>1, Inductive, PTL
-----------------------------------------------------------------------------
(* How much the counter of connections may overstate.  A thread that could *)
(* not be created leaves a callable that is ready without a connection;    *)
(* recovering it puts a NULL into the queue; the call that gets the NULL    *)
(* counts a connection more.  Each failure pays for one of the three.      *)

Lost == {c \in Callables : stage[c] = "ready" /\ conn[c] = NULL}
Nulls == {i \in 1..Len(idle) : idle[i] = NULL}

QueriesConnected == \A c \in Callables : stage[c] = "query" => conn[c] # NULL

Overstated == numConnections + Cardinality(Nulls) + Cardinality(Lost)
                <= Len(idle) + Cardinality(Alive) + failures

CountInv == IInv /\ QueriesConnected /\ Overstated

\* What is lost or NULL can be counted.
LEMMA Countable ==
  ASSUME TypeOK
  PROVE  /\ IsFiniteSet(Lost) /\ Cardinality(Lost) \in Nat
         /\ IsFiniteSet(Nulls) /\ Cardinality(Nulls) \in Nat
         /\ Cardinality(Alive) \in Nat /\ Len(idle) \in Nat
         /\ numConnections \in Nat /\ failures \in Nat
<1>1. IsFiniteSet(Lost)
  BY PoolAssumption, FS_Subset DEF Lost
<1>2. Len(idle) \in Nat
  BY DEF TypeOK
<1>3. IsFiniteSet(1..Len(idle))
  BY <1>2, FS_Interval
<1>4. IsFiniteSet(Nulls)
  BY <1>3, FS_Subset DEF Nulls
<1> QED
  BY <1>1, <1>2, <1>4, PoolAssumption, Counting, FS_CardinalityType DEF TypeOK

\* One more or one less counts as that.
LEMMA OneMore ==
  ASSUME NEW A, IsFiniteSet(A), NEW x
  PROVE  /\ Cardinality(A) \in Nat
         /\ x \notin A => Cardinality(A \cup {x}) = Cardinality(A) + 1
         /\ x \in A => Cardinality(A \cup {x}) = Cardinality(A)
         /\ x \in A => Cardinality(A \ {x}) = Cardinality(A) - 1
         /\ x \notin A => Cardinality(A \ {x}) = Cardinality(A)
BY FS_CardinalityType, FS_AddElement, FS_RemoveElement

LEMMA InitCountInv == Init => CountInv
<1> SUFFICES ASSUME Init PROVE CountInv
  OBVIOUS
<1>1. PICK k \in Connections : idle = <<k>>
  BY DEF Init
<1>2. Lost = {} /\ Alive = {} /\ Nulls = {}
  BY <1>1, PoolAssumption DEF Init, Lost, Alive, Nulls
<1>3. Overstated
  BY <1>1, <1>2, FS_EmptySet, PoolAssumption DEF Init, Overstated
<1> QED
  BY <1>3, InitInv DEF CountInv, Init, QueriesConnected

\* The NULLs of a queue without its first entry.
LEMMA TailNulls ==
  ASSUME TypeOK, idle # <<>>, idle' = Tail(idle)
  PROVE  /\ Head(idle) = NULL => Cardinality(Nulls') <= Cardinality(Nulls) - 1
         /\ Head(idle) # NULL => Cardinality(Nulls') <= Cardinality(Nulls)
<1>1. /\ Len(idle) \in Nat /\ Len(idle) >= 1 /\ Len(Tail(idle)) = Len(idle) - 1
      /\ Head(idle) = idle[1]
      /\ \A i \in 1..Len(Tail(idle)) : Tail(idle)[i] = idle[i + 1]
  BY DEF TypeOK
<1> DEFINE f == [i \in Nulls' |-> i + 1]
<1>2. /\ \A i \in Nulls' : i \in Nat /\ i + 1 \in Nulls \ {1}
  BY <1>1 DEF Nulls
<1>3. f \in Injection(Nulls', Nulls \ {1})
  <2>1. f \in [Nulls' -> Nulls \ {1}]
    BY <1>2
  <2>2. \A i, j \in Nulls' : f[i] = f[j] => i = j
    BY <1>2
  <2> QED
    BY <2>1, <2>2 DEF Injection, IsInjective
<1>4. IsFiniteSet(Nulls) /\ Cardinality(Nulls) \in Nat
  BY Countable
<1>5. /\ IsFiniteSet(Nulls \ {1})
      /\ Cardinality(Nulls \ {1}) = IF 1 \in Nulls THEN Cardinality(Nulls) - 1
                                                    ELSE Cardinality(Nulls)
  BY <1>4, FS_RemoveElement
<1>6. Cardinality(Nulls') <= Cardinality(Nulls \ {1})
  BY <1>3, <1>5, FS_Injection
<1>7. 1 \in Nulls <=> Head(idle) = NULL
  BY <1>1 DEF Nulls
<1> QED
  BY <1>4, <1>5, <1>6, <1>7

\* A call gets the first entry of the queue, which may be a NULL, or none.
LEMMA ThreadedCount ==
  ASSUME CountInv, NEW c \in Callables, Threaded(c)
  PROVE  QueriesConnected' /\ Overstated'
<1>1. IInv /\ IInv' /\ TypeOK /\ TypeOK' /\ stage[c] = "none" /\ conn[c] = NULL
  BY ThreadedInv DEF CountInv, IInv, Threaded, Released
<1>2. QueriesConnected'
  BY <1>1 DEF CountInv, QueriesConnected, Threaded, TypeOK
<1>3. Cardinality(Alive') = Cardinality(Alive) + 1
  <2>1. Alive' = Alive \cup {c}
    BY <1>1 DEF Threaded, Alive, TypeOK
  <2> QED
    BY <1>1, <2>1, Counting
<1>4. /\ Cardinality(Lost') \in Nat /\ Cardinality(Nulls') \in Nat
      /\ numConnections' \in Nat /\ failures' \in Nat
  <2>1. IsFiniteSet(Lost')
    <3>1. Lost' \subseteq Callables
      BY DEF Lost
    <3> QED
      BY <3>1, PoolAssumption, FS_Subset
  <2>2. IsFiniteSet(Nulls')
    <3>1. Len(idle') \in Nat /\ Nulls' \subseteq 1..Len(idle')
      BY <1>1 DEF Nulls, TypeOK
    <3>2. IsFiniteSet(1..Len(idle'))
      BY <3>1, FS_Interval
    <3> QED
      BY <3>1, <3>2, FS_Subset
  <2> QED
    BY <1>1, <2>1, <2>2, FS_CardinalityType, PoolAssumption DEF TypeOK
<1>5. Cardinality(Lost') + failures <= Cardinality(Lost) + failures'
  <2>1. CASE failures' = failures + 1
    <3>1. Lost' = Lost \/ Lost' = Lost \cup {c}
      BY <1>1 DEF Threaded, Lost, TypeOK
    <3>2. IsFiniteSet(Lost) /\ Cardinality(Lost) \in Nat /\ failures \in Nat
      BY <1>1, Countable
    <3>3. Cardinality(Lost') <= Cardinality(Lost) + 1
      BY <3>1, <3>2, OneMore
    <3> QED
      BY <1>4, <2>1, <3>2, <3>3
  <2>2. CASE failures' = failures
    <3>1. stage' = [stage EXCEPT ![c] = "spawned"]
      BY <1>1, <2>2, PoolAssumption DEF Threaded, TypeOK
    <3>2. Lost' = Lost
      BY <1>1, <3>1 DEF Threaded, Lost, TypeOK
    <3> QED
      BY <1>1, <2>2, <3>2, Countable
  <2> QED
    BY <2>1, <2>2 DEF Threaded
<1>6. /\ Cardinality(Lost) \in Nat /\ Cardinality(Nulls) \in Nat
      /\ Cardinality(Alive) \in Nat /\ Len(idle) \in Nat
      /\ numConnections \in Nat /\ failures \in Nat
  BY <1>1, Countable
<1>7. Len(idle') \in Nat /\ Cardinality(Alive') \in Nat
  BY <1>1, <1>3, <1>6 DEF TypeOK
<1>8. numConnections' + Cardinality(Nulls')
        <= numConnections + Cardinality(Nulls)
             + (Len(idle') + Cardinality(Alive')) - (Len(idle) + Cardinality(Alive))
  <2>1. CASE idle = <<>>
    <3>1. idle' = idle /\ numConnections' = numConnections + 1 /\ Nulls' = Nulls
      BY <2>1 DEF Threaded, GetIdleConnection, Nulls
    <3> QED
      BY <1>3, <1>6, <3>1
  <2>2. CASE idle # <<>>
    <3>1. /\ idle' = Tail(idle) /\ Len(idle') = Len(idle) - 1
          /\ Head(idle) = NULL => numConnections' = numConnections + 1
          /\ Head(idle) # NULL => numConnections' = numConnections
      BY <1>1, <2>2 DEF Threaded, GetIdleConnection, TypeOK
    <3>2. /\ Head(idle) = NULL => Cardinality(Nulls') <= Cardinality(Nulls) - 1
          /\ Head(idle) # NULL => Cardinality(Nulls') <= Cardinality(Nulls)
      BY <1>1, <2>2, <3>1, TailNulls
    <3>3. numConnections' + Cardinality(Nulls') <= numConnections + Cardinality(Nulls)
      BY <1>4, <1>6, <3>1, <3>2, SMTT(30)
    <3>4. Len(idle') + Cardinality(Alive') = Len(idle) + Cardinality(Alive)
      BY <1>3, <1>6, <3>1
    <3> QED
      BY <1>4, <1>6, <1>7, <3>3, <3>4, SMTT(30)
  <2> QED
    BY <2>1, <2>2
<1>9. numConnections + Cardinality(Nulls) + Cardinality(Lost)
        <= Len(idle) + Cardinality(Alive) + failures
  BY DEF CountInv, Overstated
<1>10. Overstated'
  <2> DEFINE n == numConnections + Cardinality(Nulls)
             m == Len(idle) + Cardinality(Alive)
             l == Cardinality(Lost)
             n2 == numConnections' + Cardinality(Nulls')
             m2 == Len(idle') + Cardinality(Alive')
             l2 == Cardinality(Lost')
             f == failures
             f2 == failures'
  <2>1. n \in Int /\ m \in Int /\ l \in Int /\ n2 \in Int /\ m2 \in Int /\ l2 \in Int
    BY <1>4, <1>6, <1>7, SMTT(30)
  <2>2. n2 <= n + m2 - m /\ l2 + f <= l + f2 /\ n + l <= m + f
    BY <1>5, <1>8, <1>9
  <2>3. f \in Int /\ f2 \in Int
    BY <1>4, <1>6
  <2> HIDE DEF n, m, l, f, n2, m2, l2, f2
  <2>4. n2 + l2 <= m2 + f2
    BY <2>1, <2>2, <2>3
  <2> QED
    BY <2>4 DEF n2, l2, m2, f2, Overstated
<1> QED
  BY <1>2, <1>10

\* A NULL that is given back is in the queue then, or forgotten with the count.
LEMMA RecoverCount ==
  ASSUME CountInv, NEW c \in Callables, RecoverCallable(c)
  PROVE  QueriesConnected' /\ Overstated'
<1>1. IInv /\ TypeOK /\ stage[c] = "ready" /\ failures' = failures
  BY DEF CountInv, IInv, RecoverCallable
<1>2. QueriesConnected'
  BY <1>1 DEF CountInv, QueriesConnected, RecoverCallable, TypeOK
<1>3. Cardinality(Alive') = Cardinality(Alive) - 1
  <2>1. Alive' = Alive \ {c}
    BY <1>1 DEF RecoverCallable, Alive, TypeOK
  <2> QED
    BY <1>1, <2>1, Counting
<1>4. /\ conn[c] = NULL => Cardinality(Lost') = Cardinality(Lost) - 1
      /\ conn[c] # NULL => Cardinality(Lost') = Cardinality(Lost)
  <2>1. Lost' = Lost \ {c} /\ (c \in Lost <=> conn[c] = NULL)
    BY <1>1 DEF RecoverCallable, Lost, TypeOK
  <2>2. IsFiniteSet(Lost) /\ Cardinality(Lost) \in Nat
    BY <1>1, Countable
  <2>3. CASE conn[c] = NULL
    BY <2>1, <2>2, <2>3, OneMore
  <2>4. CASE conn[c] # NULL
    BY <2>1, <2>2, <2>4, OneMore
  <2> QED
    BY <2>3, <2>4
<1>5. CASE Len(idle) > MaxIdle
  <2>1. idle' = idle /\ numConnections' = numConnections - 1 /\ Nulls' = Nulls
    BY <1>5 DEF RecoverCallable, PutBack, Nulls
  <2>2. numConnections \in Nat /\ failures \in Nat
    BY <1>1, PoolAssumption DEF TypeOK
  <2> QED
    BY <1>1, <1>2, <1>3, <1>4, <2>1, <2>2, Countable, SMTT(30) DEF CountInv, Overstated
<1>6. CASE ~(Len(idle) > MaxIdle)
  <2>1. idle' = Append(idle, conn[c]) /\ numConnections' = numConnections
    BY <1>6 DEF RecoverCallable, PutBack
  <2>2. /\ Len(idle') = Len(idle) + 1
        /\ Nulls' = IF conn[c] = NULL THEN Nulls \cup {Len(idle) + 1} ELSE Nulls
        /\ Len(idle) + 1 \notin Nulls
    BY <1>1, <2>1 DEF TypeOK, Nulls
  <2>3. /\ conn[c] = NULL => Cardinality(Nulls') = Cardinality(Nulls) + 1
        /\ conn[c] # NULL => Cardinality(Nulls') = Cardinality(Nulls)
    BY <1>1, <2>2, Countable, OneMore
  <2> QED
    BY <1>1, <1>2, <1>3, <1>4, <2>1, <2>2, <2>3, Countable, SMTT(30) DEF CountInv, Overstated, TypeOK
<1> QED
  BY <1>5, <1>6

\* A thread that runs has a connection when its callable is ready.
LEMMA ThreadCount ==
  ASSUME CountInv, NEW c \in Callables,
         \/ \E k \in Connections : Connect(c, k)
         \/ Ping(c)
         \/ Close(c)
  PROVE  QueriesConnected' /\ Overstated'
<1>1. /\ IInv /\ TypeOK /\ QueriesConnected /\ Overstated
      /\ UNCHANGED <<idle, numConnections, failures>>
  BY DEF CountInv, IInv, Connect, Ping, Close
<1>2. Alive' = Alive /\ Lost' = Lost /\ Nulls' = Nulls
  BY <1>1, PoolAssumption
     DEF Alive, Lost, Nulls, Connect, Ping, Close, TypeOK, QueriesConnected
<1>3. QueriesConnected'
  BY <1>1, PoolAssumption DEF QueriesConnected, Connect, Ping, Close, TypeOK
<1> QED
  BY <1>1, <1>2, <1>3 DEF Overstated

LEMMA NextCountInv == CountInv /\ [Next]_vars => CountInv'
<1> SUFFICES ASSUME CountInv, [Next]_vars PROVE CountInv'
  OBVIOUS
<1>1. IInv'
  BY NextInv DEF CountInv
<1>2. CASE Next
  <2>1. PICK c \in Callables : \/ Threaded(c) \/ RecoverCallable(c)
                               \/ \E k \in Connections : Connect(c, k)
                               \/ Ping(c) \/ Close(c)
    BY <1>2 DEF Next
  <2> QED
    BY <1>1, <2>1, ThreadedCount, RecoverCount, ThreadCount DEF CountInv
<1>3. CASE UNCHANGED vars
  BY <1>1, <1>3 DEF vars, CountInv, QueriesConnected, Overstated, Alive, Lost, Nulls
<1> QED
  BY <1>2, <1>3

\* What GetStatus reports is true: the callables exactly, and the connections but for
\* one too many for each thread that could not be created (dbmysql.cpp:77-95, 123-146).
THEOREM CountsAreHonest == Spec => []CountsHonest
<1>1. CountInv => CountsHonest
  <2> SUFFICES ASSUME CountInv PROVE CountsHonest
    OBVIOUS
  <2>1. TypeOK /\ CountsCover /\ Overstated
    BY DEF CountInv, IInv
  <2>2. numConnections \in Nat /\ failures \in Nat
    BY <2>1, PoolAssumption DEF TypeOK
  <2> QED
    BY <2>1, <2>2, Countable DEF CountsHonest, Overstated
<1> QED
  BY <1>1, InitCountInv, NextCountInv, PTL DEF Spec

-----------------------------------------------------------------------------
(* The handlers: an iteration never goes on over a vector that changed,    *)
(* since pluginman acts in an event that is not within another, and ends   *)
(* it.                                                                     *)

Begun == [key : Keys, next : Nat \ {0}, begun : {handlers[k] : k \in Keys}]

\* Only a queued chat command is an event within another, which is none itself.
Nesting == /\ frames \in Seq(Begun)
           /\ Len(frames) <= 2
           /\ Len(frames) = 2 => frames[1].key[1] # Queued /\ frames[2].key[1] = Queued

IterInv == Nesting /\ IterationSound

\* The iteration that is executed is the last of one or two.
LEMMA Innermost1 ==
  ASSUME Nesting, frames # <<>>
  PROVE  /\ Len(frames) \in 1..2
         /\ Innermost = frames[Len(frames)]
         /\ Innermost \in Begun
         /\ Outer \in Seq(Begun)
         /\ Len(Outer) = Len(frames) - 1
         /\ \A i \in 1..Len(Outer) : Outer[i] = frames[i]
<1>1. frames \in Seq(Begun)
  BY DEF Nesting
<1>2. Len(frames) \in Nat /\ Len(frames) # 0
  BY <1>1, EmptySeq
<1>3. Len(frames) \in 1..2
  <2> DEFINE n == Len(frames)
  <2>1. n \in Nat /\ n # 0 /\ n <= 2
    BY <1>2 DEF Nesting
  <2> HIDE DEF n
  <2>2. n \in 1..2
    BY <2>1
  <2> QED
    BY <2>2 DEF n
<1>4. Innermost = frames[Len(frames)] /\ Innermost \in Begun
  BY <1>1, <1>3, ElementOfSeq DEF Innermost
<1>5. /\ Outer \in Seq(Begun) /\ Len(Outer) = Len(frames) - 1
      /\ \A i \in 1..Len(Outer) : Outer[i] = frames[i]
  BY <1>1, <1>3, SubSeqProperties DEF Outer
<1> QED
  BY <1>3, <1>4, <1>5

\* Putting an iteration in the place of the innermost one.
LEMMA Replaced ==
  ASSUME IterInv, frames # <<>>, NEW f \in Begun,
         f.begun = handlers[f.key],
         Len(frames) = 2 => f.key[1] = Queued,
         frames' = Append(Outer, f), UNCHANGED handlers
  PROVE  IterInv'
<1>1. /\ Len(frames) \in 1..2 /\ Outer \in Seq(Begun) /\ Len(Outer) = Len(frames) - 1
      /\ \A i \in 1..Len(Outer) : Outer[i] = frames[i]
  BY Innermost1 DEF IterInv
<1>2. frames' \in Seq(Begun) /\ Len(frames') = Len(frames) /\ frames'[Len(frames)] = f
  BY <1>1
<1>3. \A i \in 1..Len(Outer) : frames'[i] = frames[i]
  BY <1>1
<1>4. Begun' = Begun
  BY DEF Begun
<1>5. Nesting'
  BY <1>1, <1>2, <1>3, <1>4 DEF IterInv, Nesting
<1>6. IterationSound'
  BY <1>1, <1>2, <1>3 DEF IterInv, IterationSound
<1> QED
  BY <1>5, <1>6 DEF IterInv

\* Leaving the innermost iteration.
LEMMA Left ==
  ASSUME IterInv, frames # <<>>, frames' = Outer, UNCHANGED handlers
  PROVE  IterInv'
<1>1. /\ Len(frames) \in 1..2 /\ Outer \in Seq(Begun) /\ Len(Outer) = Len(frames) - 1
      /\ \A i \in 1..Len(Outer) : Outer[i] = frames[i]
  BY Innermost1 DEF IterInv
<1>2. Begun' = Begun
  BY DEF Begun
<1>3. Nesting'
  BY <1>1, <1>2 DEF Nesting
<1>4. IterationSound'
  BY <1>1 DEF IterInv, IterationSound
<1> QED
  BY <1>3, <1>4 DEF IterInv

\* A vector is iterated from its beginning as it is.
LEMMA IterateBegun ==
  ASSUME NEW key \in Keys
  PROVE  Iterate(key) \in Begun /\ Iterate(key).begun = handlers[key] /\ Iterate(key).key = key
BY DEF Iterate, Begun

\* At the start nothing is iterated.
LEMMA IterInitInv == PluginInit => IterInv
BY DEF PluginInit, IterInv, Nesting, IterationSound

\* Every step preserves the invariant.
LEMMA IterStepInv == IterInv /\ [PluginNext]_pluginVars => IterInv'
<1> SUFFICES ASSUME IterInv, [PluginNext]_pluginVars PROVE IterInv'
  OBVIOUS
<1>1. ASSUME NEW event \in Events, Happens(event) PROVE IterInv'
  <2> DEFINE key == <<event, event \in Vetoable>>
  <2>1. key \in Keys
    <3>1. CASE event \in Vetoable
      BY <3>1 DEF Keys
    <3>2. CASE event \notin Vetoable
      <4>1. (event \in Vetoable) = FALSE
        BY <3>2
      <4>2. key = <<event, FALSE>>
        BY <4>1
      <4> QED
        BY <4>2 DEF Keys
    <3> QED
      BY <3>1, <3>2
  <2>2. frames' = <<Iterate(key)>> /\ UNCHANGED handlers
    BY <1>1 DEF Happens
  <2>3. /\ Iterate(key) \in Begun /\ Iterate(key).begun = handlers[key]
        /\ Iterate(key).key = key
    BY <2>1, IterateBegun
  <2>4. Begun' = Begun
    BY <2>2 DEF Begun
  <2> QED
    BY <2>2, <2>3, <2>4 DEF IterInv, Nesting, IterationSound
<1>2. ASSUME NEW verdict \in BOOLEAN, Returns(verdict) PROVE IterInv'
  <2>1. frames # <<>> /\ UNCHANGED handlers
    BY <1>2 DEF Returns, Running
  <2>2. CASE frames' = Outer
    BY <2>1, <2>2, Left
  <2>3. CASE frames' = Advanced
    <3> DEFINE f == [Innermost EXCEPT !.next = @ + 1]
    <3>1. Len(frames) \in 1..2 /\ Innermost = frames[Len(frames)] /\ Innermost \in Begun
      BY <2>1, Innermost1 DEF IterInv
    <3>2. f \in Begun /\ f.begun = Innermost.begun /\ f.key = Innermost.key
      BY <3>1 DEF Begun
    <3>3. /\ Innermost.begun = handlers[Innermost.key]
          /\ Len(frames) = 2 => Innermost.key[1] = Queued
      BY <3>1, SMTT(30) DEF IterInv, IterationSound, Nesting
    <3>4. frames' = Append(Outer, f)
      BY <2>3 DEF Advanced
    <3> HIDE DEF f
    <3> QED
      BY <2>1, <3>2, <3>3, <3>4, Replaced
  <2> QED
    BY <1>2, <2>2, <2>3 DEF Returns
<1>3. CASE Ends
  <2>1. frames # <<>> /\ UNCHANGED handlers
    BY <1>3 DEF Ends
  <2>2. CASE frames' = Outer
    BY <2>1, <2>2, Left
  <2> DEFINE key == <<Innermost.key[1], FALSE>>
  <2>3. CASE frames' = Append(Outer, Iterate(key))
    <3>1. Len(frames) \in 1..2 /\ Innermost = frames[Len(frames)] /\ Innermost \in Begun
      BY <2>1, Innermost1 DEF IterInv
    <3>2. key \in Keys
      BY <3>1 DEF Begun, Keys
    <3>3. Len(frames) = 2 => key[1] = Queued
      BY <3>1 DEF IterInv, Nesting
    <3>4. /\ Iterate(key) \in Begun /\ Iterate(key).begun = handlers[key]
          /\ Iterate(key).key = key
      BY <3>2, IterateBegun
    <3> HIDE DEF key
    <3> QED
      BY <2>1, <2>3, <3>3, <3>4, Replaced
  <2> QED
    BY <1>3, <2>2, <2>3 DEF Ends
<1>4. CASE Queue
  <2> DEFINE key == <<Queued, TRUE>>
  <2>1. frames # <<>> /\ Innermost.key[1] # Queued
    BY <1>4 DEF Queue, Running
  <2>2. frames' = Append(frames, Iterate(key)) /\ UNCHANGED handlers
    BY <1>4 DEF Queue
  <2>3. Len(frames) \in 1..2 /\ Innermost = frames[Len(frames)]
    BY <2>1, Innermost1 DEF IterInv
  <2>4. Len(frames) = 1
    BY <2>1, <2>3 DEF IterInv, Nesting
  <2>5. key \in Keys /\ key[1] = Queued
    BY HandlersAssumption DEF Keys
  <2>6. /\ Iterate(key) \in Begun /\ Iterate(key).begun = handlers[key]
        /\ Iterate(key).key = key
    BY <2>5, IterateBegun
  <2> DEFINE f == Iterate(key)
  <2>7. f \in Begun /\ frames' = Append(frames, f) /\ f.begun = handlers[f.key]
        /\ f.key[1] = Queued
    BY <2>2, <2>5, <2>6
  <2> HIDE DEF f
  <2>8. Begun' = Begun
    BY <2>2 DEF Begun
  <2>9. frames \in Seq(Begun)
    BY DEF IterInv, Nesting
  <2>10. /\ frames' \in Seq(Begun) /\ Len(frames') = 2
         /\ frames'[1] = frames[1] /\ frames'[2] = f
    <3>1. /\ Append(frames, f) \in Seq(Begun)
          /\ Len(Append(frames, f)) = Len(frames) + 1
          /\ \A i \in 1..Len(frames) : Append(frames, f)[i] = frames[i]
          /\ Append(frames, f)[Len(frames) + 1] = f
      BY <2>7, <2>9, AppendProperties
    <3> QED
      BY <2>4, <2>7, <3>1
  <2>11. Nesting'
    BY <2>1, <2>3, <2>4, <2>7, <2>8, <2>10 DEF Nesting
  <2>12. frames[1].begun = handlers[frames[1].key]
    BY <2>4 DEF IterInv, IterationSound
  <2>13. IterationSound'
    BY <2>2, <2>7, <2>10, <2>12 DEF IterationSound
  <2> QED
    BY <2>11, <2>13 DEF IterInv
<1>5. CASE Manage
  <2>1. frames # <<>> /\ Innermost.key[1] # Queued /\ frames' = Outer
    BY <1>5, HandlersAssumption DEF Manage, Running
  <2>2. Len(frames) \in 1..2 /\ Innermost = frames[Len(frames)] /\ Len(Outer) = Len(frames) - 1
        /\ Outer \in Seq(Begun)
    BY <2>1, Innermost1 DEF IterInv
  <2>3. Len(frames) = 1
    BY <2>1, <2>2 DEF IterInv, Nesting
  <2>4. frames' = <<>>
    BY <2>1, <2>2, <2>3
  <2> QED
    BY <2>4 DEF IterInv, Nesting, IterationSound
<1>6. CASE UNCHANGED pluginVars
  BY <1>6 DEF pluginVars, IterInv, Nesting, IterationSound, Begun
<1> QED
  BY <1>1, <1>2, <1>3, <1>4, <1>5, <1>6 DEF PluginNext

\* No iteration goes on over a vector that was changed under it, whatever the plugins
\* register, fail to unregister, and answer (chop.h:64, chop.cpp:156, pluginman.py:110).
THEOREM IterationsAreSound == PluginSpec => []IterationSound
<1>1. IterInv => IterationSound
  BY DEF IterInv
<1> QED
  BY IterInitInv, IterStepInv, <1>1, PTL DEF PluginSpec
-----------------------------------------------------------------------------
(* Who is called.  What Without leaves of a vector, first: the positions   *)
(* of its result are those that stay, in a one-to-one way.                 *)

LEMMA Staying ==
  ASSUME NEW S, NEW s \in Seq(S), NEW p
  PROVE  LET t == Without(s, p)
         IN  /\ t \in Seq(S)
             /\ \A j \in 1..Len(t) : t[j] # p
             /\ \E from \in [1..Len(t) -> 1..Len(s)] :
                  /\ \A j \in 1..Len(t) : t[j] = s[from[j]]
                  /\ \A j, k \in 1..Len(t) : from[j] = from[k] => j = k
                  /\ \A i \in 1..Len(s) : s[i] # p => \E j \in 1..Len(t) : from[j] = i
<1> DEFINE rest == {i \in 1..Len(s) : s[i] # p}
           n == Cardinality(rest)
           upTo(i) == {m \in rest : m <= i}
           rank == [i \in rest |-> Cardinality(upTo(i))]
<1>1. Len(s) \in Nat /\ IsFiniteSet(rest) /\ n \in Nat
  <2>1. Len(s) \in Nat
    BY LenProperties
  <2>2. IsFiniteSet(1..Len(s))
    BY <2>1, FS_Interval
  <2>3. IsFiniteSet(rest)
    BY <2>2, FS_Subset
  <2> QED
    BY <2>1, <2>3, FS_CardinalityType
<1>2. \A i \in rest : i \in Nat /\ i \in 1..Len(s)
  BY <1>1
<1>3. ASSUME NEW i \in rest
      PROVE  /\ IsFiniteSet(upTo(i)) /\ Cardinality(upTo(i)) \in 1..n
  <2>1. upTo(i) \subseteq rest /\ i \in upTo(i)
    BY <1>2
  <2>2. IsFiniteSet(upTo(i)) /\ Cardinality(upTo(i)) <= n
    BY <1>1, <2>1, FS_Subset
  <2>3. Cardinality(upTo(i)) \in Nat /\ Cardinality(upTo(i)) # 0
    BY <2>1, <2>2, FS_CardinalityType, FS_EmptySet
  <2> HIDE DEF n, upTo, rest
  <2> QED
    BY <1>1, <2>2, <2>3
<1>4. ASSUME NEW i \in rest, NEW j \in rest, i < j
      PROVE  Cardinality(upTo(i)) # Cardinality(upTo(j))
  <2>1. upTo(i) \subseteq upTo(j) /\ j \in upTo(j) /\ j \notin upTo(i)
    BY <1>2, <1>4
  <2>2. IsFiniteSet(upTo(j))
    BY <1>3
  <2> HIDE DEF upTo, rest
  <2> QED
    BY <2>1, <2>2, FS_Subset
<1>0. ASSUME NEW i \in rest, NEW j \in rest, Cardinality(upTo(i)) = Cardinality(upTo(j))
      PROVE  i = j
  <2>1. i \in Nat /\ j \in Nat
    BY <1>2
  <2>2. ~(i < j) /\ ~(j < i)
    BY <1>0, <1>4
  <2> QED
    BY <2>1, <2>2
<1>5. rank \in Injection(rest, 1..n)
  <2>1. rank \in [rest -> 1..n]
    BY <1>3
  <2>2. ASSUME NEW i \in rest, NEW j \in rest, rank[i] = rank[j] PROVE i = j
    <3>1. Cardinality(upTo(i)) = Cardinality(upTo(j))
      BY <2>2
    <3> QED
      BY <1>0, <3>1
  <2> HIDE DEF rank, rest, n
  <2> QED
    BY <2>1, <2>2 DEF Injection, IsInjective
<1>6. rank \in Surjection(rest, 1..n)
  <2>1. IsFiniteSet(1..n) /\ Cardinality(1..n) = n
    <3> HIDE DEF n
    <3> QED
      BY <1>1, FS_Interval, SMTT(30)
  <2>2. Cardinality(rest) = Cardinality(1..n)
    BY <2>1
  <2> HIDE DEF rank, rest, n
  <2> QED
    BY <1>5, <2>1, <2>2, FS_Injection
<1> DEFINE At(j) == CHOOSE i \in rest : Cardinality(upTo(i)) = j
           from == [j \in 1..n |-> At(j)]
           t == Without(s, p)
<1>7. ASSUME NEW j \in 1..n PROVE At(j) \in rest /\ Cardinality(upTo(At(j))) = j
  <2>1. \E i \in rest : rank[i] = j
    <3> HIDE DEF rank, rest, n
    <3> QED
      BY <1>6 DEF Surjection
  <2>2. \E i \in rest : Cardinality(upTo(i)) = j
    BY <2>1
  <2> HIDE DEF rest, n, upTo
  <2> QED
    BY <2>2
<1>8. t = [j \in 1..n |-> s[At(j)]]
  BY DEF Without
<1>9. \A j \in 1..n : s[At(j)] \in S /\ At(j) \in 1..Len(s) /\ s[At(j)] # p
  <2>1. \A i \in 1..Len(s) : s[i] \in S
    BY ElementOfSeq
  <2>2. \A j \in 1..n : At(j) \in rest
    BY <1>7
  <2> HIDE DEF At, n
  <2> QED
    BY <2>1, <2>2
<1>10. t \in Seq(S) /\ Len(t) = n /\ \A j \in 1..n : t[j] = s[from[j]] /\ from[j] = At(j)
  <2> HIDE DEF At, n, t
  <2> QED
    BY <1>1, <1>8, <1>9
<1>11. from \in [1..n -> 1..Len(s)]
  <2> HIDE DEF At, n
  <2> QED
    BY <1>9
<1>12. ASSUME NEW j \in 1..n, NEW k \in 1..n, from[j] = from[k] PROVE j = k
  <2>1. At(j) = At(k)
    <3> HIDE DEF At, n
    <3> QED
      BY <1>12
  <2> HIDE DEF At, n, upTo
  <2> QED
    BY <1>7, <2>1
<1>13. ASSUME NEW i \in 1..Len(s), s[i] # p PROVE \E j \in 1..n : from[j] = i
  <2>1. i \in rest
    BY <1>13
  <2> DEFINE j == Cardinality(upTo(i))
  <2>2. j \in 1..n
    BY <1>3, <2>1
  <2>3. At(j) \in rest /\ Cardinality(upTo(At(j))) = j
    BY <1>7, <2>2
  <2>4. At(j) = i
    <3> HIDE DEF At, rest, upTo
    <3> QED
      BY <1>0, <2>1, <2>3
  <2>5. from[j] = i
    <3> HIDE DEF At, j, n
    <3> QED
      BY <2>2, <2>4
  <2> QED
    BY <2>2, <2>5
<1>14. \A j \in 1..n : t[j] # p
  <2> HIDE DEF At, n, t
  <2> QED
    BY <1>8, <1>9
<1> HIDE DEF At, from, n, rest, t
<1> QED
  BY <1>10, <1>11, <1>12, <1>13, <1>14 DEF t

\* A handler is in a vector; at one place at most.
Has(v, q) == \E i \in 1..Len(v) : v[i] = q
AtMostOnce(v, q) == \A i, j \in 1..Len(v) : v[i] = q /\ v[j] = q => i = j

LEMMA WithoutKeeps ==
  ASSUME NEW S, NEW s \in Seq(S), NEW p, NEW q
  PROVE  /\ Without(s, p) \in Seq(S)
         /\ Has(Without(s, p), q) <=> Has(s, q) /\ q # p
         /\ AtMostOnce(s, q) => AtMostOnce(Without(s, p), q)
<1> DEFINE t == Without(s, p)
<1>1. /\ t \in Seq(S)
      /\ \A j \in 1..Len(t) : t[j] # p
      /\ \E from \in [1..Len(t) -> 1..Len(s)] :
           /\ \A j \in 1..Len(t) : t[j] = s[from[j]]
           /\ \A j, k \in 1..Len(t) : from[j] = from[k] => j = k
           /\ \A i \in 1..Len(s) : s[i] # p => \E j \in 1..Len(t) : from[j] = i
  BY Staying
<1> HIDE DEF t
<1>2. PICK from \in [1..Len(t) -> 1..Len(s)] :
        /\ \A j \in 1..Len(t) : t[j] = s[from[j]]
        /\ \A j, k \in 1..Len(t) : from[j] = from[k] => j = k
        /\ \A i \in 1..Len(s) : s[i] # p => \E j \in 1..Len(t) : from[j] = i
  BY <1>1
<1>3. \A j \in 1..Len(t) : from[j] \in 1..Len(s)
  BY <1>2
<1>4. Has(t, q) <=> Has(s, q) /\ q # p
  <2>1. ASSUME NEW j \in 1..Len(t), t[j] = q PROVE Has(s, q) /\ q # p
    BY <1>1, <1>2, <1>3, <2>1 DEF Has
  <2>2. ASSUME NEW i \in 1..Len(s), s[i] = q, q # p PROVE Has(t, q)
    BY <1>2, <2>2, SMTT(30) DEF Has
  <2> QED
    BY <2>1, <2>2 DEF Has
<1>5. AtMostOnce(s, q) => AtMostOnce(t, q)
  BY <1>2, <1>3 DEF AtMostOnce
<1> QED
  BY <1>1, <1>4, <1>5 DEF t

LEMMA AppendKeeps ==
  ASSUME NEW S, NEW s \in Seq(S), NEW p \in S, NEW q
  PROVE  /\ Append(s, p) \in Seq(S)
         /\ Has(Append(s, p), q) <=> Has(s, q) \/ q = p
         /\ AtMostOnce(s, q) /\ ~(q = p /\ Has(s, q)) => AtMostOnce(Append(s, p), q)
<1> DEFINE t == Append(s, p)
<1>1. /\ t \in Seq(S) /\ Len(t) = Len(s) + 1 /\ Len(s) \in Nat
      /\ \A i \in 1..Len(s) : t[i] = s[i]
      /\ t[Len(s) + 1] = p
  BY AppendProperties, LenProperties
<1> HIDE DEF t
<1>2. Len(t) \in 1..Len(t) /\ \A i \in 1..Len(t) : i \in 1..Len(s) \/ i = Len(t)
  BY <1>1
<1>3. \A i \in 1..Len(s) : i \in 1..Len(t)
  BY <1>1
<1>4. Has(t, q) <=> Has(s, q) \/ q = p
  BY <1>1, <1>2, <1>3 DEF Has
<1>5. AtMostOnce(s, q) /\ ~(q = p /\ Has(s, q)) => AtMostOnce(t, q)
  BY <1>1, <1>2 DEF AtMostOnce, Has
<1> QED
  BY <1>1, <1>4, <1>5 DEF t

Vectors == [Keys -> Seq(Handlers)]

LEMMA RegisteredVectors ==
  ASSUME NEW h \in Vectors, NEW p \in Plugins
  PROVE  /\ Registered(h, p) \in Vectors
         /\ \A q \in Handlers, k \in Keys :
              /\ Has(Registered(h, p)[k], q) <=> Has(h[k], q) \/ (q = p /\ k \in Hooks[p])
              /\ AtMostOnce(h[k], q) /\ ~(q = p /\ Has(h[k], q))
                   => AtMostOnce(Registered(h, p)[k], q)
<1>1. ASSUME NEW k \in Keys
      PROVE  /\ Registered(h, p)[k] \in Seq(Handlers)
             /\ \A q \in Handlers :
                  /\ Has(Registered(h, p)[k], q) <=> Has(h[k], q) \/ (q = p /\ k \in Hooks[p])
                  /\ AtMostOnce(h[k], q) /\ ~(q = p /\ Has(h[k], q))
                       => AtMostOnce(Registered(h, p)[k], q)
  <2>1. h[k] \in Seq(Handlers) /\ p \in Handlers
    BY DEF Vectors, Handlers
  <2>2. CASE k \in Hooks[p]
    <3>1. Registered(h, p)[k] = Append(h[k], p)
      BY <2>2 DEF Registered
    <3> QED
      BY <2>1, <2>2, <3>1, AppendKeeps
  <2>3. CASE k \notin Hooks[p]
    <3>1. Registered(h, p)[k] = h[k]
      BY <2>3 DEF Registered
    <3> QED
      BY <2>1, <2>3, <3>1
  <2> QED
    BY <2>2, <2>3
<1>2. Registered(h, p) \in Vectors
  <2>1. Registered(h, p) = [k \in Keys |-> Registered(h, p)[k]]
    BY DEF Registered
  <2> QED
    BY <1>1, <2>1 DEF Vectors
<1> QED
  BY <1>1, <1>2

LEMMA UnregisteredVectors ==
  ASSUME NEW h \in Vectors, NEW p \in Plugins
  PROVE  /\ Unregistered(h, p) \in Vectors
         /\ \A q \in Handlers, k \in Keys :
              /\ Has(Unregistered(h, p)[k], q) <=> Has(h[k], q) /\ ~(q = p /\ k \in Unhooks[p])
              /\ AtMostOnce(h[k], q) => AtMostOnce(Unregistered(h, p)[k], q)
<1>1. ASSUME NEW k \in Keys
      PROVE  /\ Unregistered(h, p)[k] \in Seq(Handlers)
             /\ \A q \in Handlers :
                  /\ Has(Unregistered(h, p)[k], q) <=> Has(h[k], q) /\ ~(q = p /\ k \in Unhooks[p])
                  /\ AtMostOnce(h[k], q) => AtMostOnce(Unregistered(h, p)[k], q)
  <2>1. h[k] \in Seq(Handlers)
    BY DEF Vectors
  <2>2. CASE k \in Unhooks[p]
    <3> DEFINE v == h[k]
    <3>1. Unregistered(h, p)[k] = Without(v, p)
      BY <2>2 DEF Unregistered
    <3>2. ASSUME NEW q \in Handlers
          PROVE  /\ Without(v, p) \in Seq(Handlers)
                 /\ Has(Without(v, p), q) <=> Has(v, q) /\ q # p
                 /\ AtMostOnce(v, q) => AtMostOnce(Without(v, p), q)
      BY <2>1, WithoutKeeps
    <3>3. p \in Handlers
      BY DEF Handlers
    <3> QED
      BY <2>2, <3>1, <3>2, <3>3
  <2>3. CASE k \notin Unhooks[p]
    <3>1. Unregistered(h, p)[k] = h[k]
      BY <2>3 DEF Unregistered
    <3> QED
      BY <2>1, <2>3, <3>1
  <2> QED
    BY <2>2, <2>3
<1>2. Unregistered(h, p) \in Vectors
  <2>1. Unregistered(h, p) = [k \in Keys |-> Unregistered(h, p)[k]]
    BY DEF Unregistered
  <2> QED
    BY <1>1, <2>1 DEF Vectors
<1> QED
  BY <1>1, <1>2

\* What the properties say, vector by vector.
LEMMA ByVector ==
  /\ CalledOnce <=> \A p \in Handlers, k \in Keys : AtMostOnce(handlers[k], p)
  /\ UnloadIsComplete <=> \A p \in Plugins \ loaded, k \in Keys : ~Has(handlers[k], p)
  /\ LoadedIsAlive <=> \A p \in loaded \ DeinitRaises : \A k \in Hooks[p] : Has(handlers[k], p)
BY DEF CalledOnce, UnloadIsComplete, LoadedIsAlive, Registrations, Has, AtMostOnce

\* What a plugin's load, unload and reload come to, done or failed: it is put on; taken
\* off; taken off and put on again; or nothing happens to it.
LEMMA ManageCases ==
  ASSUME NEW p \in Plugins, Load(p) \/ Unload(p) \/ Reload(p), loaded \subseteq Plugins
  PROVE  \/ /\ p \notin loaded
            /\ handlers' = Registered(handlers, p) /\ loaded' = loaded \cup {p}
         \/ /\ p \in loaded
            /\ handlers' = Unregistered(handlers, p)
            /\ loaded' = loaded \ {p} \/ (loaded' = loaded /\ p \in DeinitRaises)
         \/ /\ p \in loaded
            /\ handlers' = Registered(Unregistered(handlers, p), p) /\ loaded' = loaded
         \/ UNCHANGED <<handlers, loaded>>
<1>1. CASE Load(p)
  BY <1>1 DEF Load
<1>2. CASE Unload(p)
  BY <1>2 DEF Unload, Deinitialized, DeinitFails
<1>3. CASE Reload(p) /\ p \in loaded
  <2>1. loaded \cup {p} = loaded
    BY <1>3
  <2> QED
    BY <1>3, <2>1 DEF Reload, Deinitialized, DeinitFails
<1>4. CASE Reload(p) /\ p \notin loaded
  <2>1. loaded \ {p} = loaded
    BY <1>4
  <2> QED
    BY <1>4, <2>1 DEF Reload, Deinitialized, DeinitFails
<1> QED
  BY <1>1, <1>2, <1>3, <1>4

\* Whatever does not concern the plugins leaves the vectors as they are.
LEMMA OnlyManage ==
  ASSUME [PluginNext]_pluginVars
  PROVE  \/ UNCHANGED <<handlers, loaded>>
         \/ \E p \in Plugins : Load(p) \/ Unload(p) \/ Reload(p)
BY DEF PluginNext, pluginVars, Happens, Returns, Ends, Queue, Manage

\* A plugin that is loaded is in the vectors it hooks, whatever it and others unregister.
AliveInv == handlers \in Vectors /\ loaded \subseteq Plugins /\ LoadedIsAlive

LEMMA InitVectors == PluginInit => handlers \in Vectors
<1> SUFFICES ASSUME PluginInit PROVE handlers \in Vectors
  OBVIOUS
<1>1. <<Manager>> \in Seq(Handlers) /\ <<>> \in Seq(Handlers)
  BY DEF Handlers
<1> QED
  BY <1>1 DEF PluginInit, Vectors

LEMMA AliveStep == AliveInv /\ [PluginNext]_pluginVars => AliveInv'
<1> SUFFICES ASSUME AliveInv, [PluginNext]_pluginVars PROVE AliveInv'
  OBVIOUS
<1>1. CASE UNCHANGED <<handlers, loaded>>
  BY <1>1 DEF AliveInv, LoadedIsAlive, Registrations
<1>2. ASSUME NEW p \in Plugins, Load(p) \/ Unload(p) \/ Reload(p) PROVE AliveInv'
  <2>1. /\ handlers \in Vectors /\ loaded \subseteq Plugins
        /\ \A q \in loaded \ DeinitRaises : \A k \in Hooks[q] : Has(handlers[k], q)
    BY ByVector DEF AliveInv
  <2>2. \A q \in Plugins : q \in Handlers /\ \A k \in Hooks[q] : k \in Keys
    BY HandlersAssumption DEF Handlers
  <2>3. Unregistered(handlers, p) \in Vectors
    BY <2>1, UnregisteredVectors
  <2>4. /\ handlers' \in Vectors /\ loaded' \subseteq Plugins
        /\ \A q \in loaded' \ DeinitRaises : \A k \in Hooks[q] : Has(handlers'[k], q)
    <3>1. CASE p \notin loaded /\ handlers' = Registered(handlers, p) /\ loaded' = loaded \cup {p}
      BY <2>1, <2>2, <3>1, RegisteredVectors
    <3>2. CASE /\ p \in loaded /\ handlers' = Unregistered(handlers, p)
               /\ loaded' = loaded \ {p} \/ (loaded' = loaded /\ p \in DeinitRaises)
      BY <2>1, <2>2, <3>2, UnregisteredVectors
    <3>3. CASE /\ p \in loaded
               /\ handlers' = Registered(Unregistered(handlers, p), p) /\ loaded' = loaded
      <4>1. handlers' \in Vectors /\ loaded' \subseteq Plugins
        BY <2>1, <2>3, <3>3, RegisteredVectors
      <4>2. ASSUME NEW q \in loaded' \ DeinitRaises, NEW k \in Hooks[q]
            PROVE  Has(handlers'[k], q)
        <5>1. q \in loaded \ DeinitRaises /\ q \in Handlers /\ k \in Keys
          BY <2>1, <2>2, <3>3
        <5>2. Has(handlers[k], q)
          BY <2>1, <5>1
        <5>3. /\ Has(Unregistered(handlers, p)[k], q)
                   <=> Has(handlers[k], q) /\ ~(q = p /\ k \in Unhooks[p])
          BY <2>1, <5>1, UnregisteredVectors
        <5>4. Has(handlers'[k], q)
                   <=> Has(Unregistered(handlers, p)[k], q) \/ (q = p /\ k \in Hooks[p])
          BY <2>3, <3>3, <5>1, RegisteredVectors
        <5> QED
          BY <5>2, <5>3, <5>4
      <4> QED
        BY <4>1, <4>2
    <3>4. CASE UNCHANGED <<handlers, loaded>>
      BY <2>1, <3>4
    <3> QED
      BY <1>2, <2>1, <3>1, <3>2, <3>3, <3>4, ManageCases
  <2> QED
    BY <2>4 DEF AliveInv, LoadedIsAlive, Registrations, Has
<1> QED
  BY <1>1, <1>2, OnlyManage

\* What is listed as loaded is called, whatever plugins are loaded, unloaded and reloaded,
\* and whether they unregister what they registered (pluginman.py:61-102).
THEOREM LoadedAreCalled == PluginSpec => []LoadedIsAlive
<1>1. PluginInit => AliveInv
  BY InitVectors DEF PluginInit, AliveInv, LoadedIsAlive
<1>2. AliveInv => LoadedIsAlive
  BY DEF AliveInv
<1> QED
  BY <1>1, <1>2, AliveStep, PTL DEF PluginSpec

\* The plugins unregister in deinit what they registered in init.
Tidy == \A p \in Plugins : Hooks[p] \subseteq Unhooks[p]

\* A plugin is in vectors it hooks only, while it is loaded, and once.
OnlyHooked == \A p \in Plugins : \A k \in Keys \ Hooks[p] : ~Has(handlers[k], p)
CalledInv == /\ handlers \in Vectors /\ loaded \subseteq Plugins
             /\ CalledOnce /\ UnloadIsComplete /\ OnlyHooked

LEMMA CalledInit == PluginInit => CalledInv
<1> SUFFICES ASSUME PluginInit PROVE CalledInv
  OBVIOUS
<1>1. ASSUME NEW k \in Keys, NEW i \in 1..Len(handlers[k])
      PROVE  i = 1 /\ handlers[k][i] = Manager
  <2>1. handlers[k] = <<Manager>> \/ handlers[k] = <<>>
    BY DEF PluginInit
  <2>2. CASE handlers[k] = <<>>
    BY <2>2
  <2>3. CASE handlers[k] = <<Manager>>
    <3>1. Len(handlers[k]) = 1 /\ handlers[k][1] = Manager
      BY <2>3
    <3>2. i = 1
      BY <3>1
    <3> QED
      BY <3>1, <3>2
  <2> QED
    BY <2>1, <2>2, <2>3
<1>2. \A p \in Plugins : p # Manager
  BY HandlersAssumption
<1>3. \A k \in Keys : /\ \A p \in Handlers : AtMostOnce(handlers[k], p)
                      /\ \A p \in Plugins : ~Has(handlers[k], p)
  BY <1>1, <1>2 DEF AtMostOnce, Has
<1>4. handlers \in Vectors /\ loaded = {}
  BY InitVectors DEF PluginInit
<1> QED
  BY <1>3, <1>4, ByVector DEF CalledInv, OnlyHooked

LEMMA CalledStep ==
  ASSUME Tidy
  PROVE  CalledInv /\ [PluginNext]_pluginVars => CalledInv'
<1> SUFFICES ASSUME CalledInv, [PluginNext]_pluginVars PROVE CalledInv'
  OBVIOUS
<1>1. CASE UNCHANGED <<handlers, loaded>>
  BY <1>1 DEF CalledInv, CalledOnce, UnloadIsComplete, OnlyHooked, Registrations
<1>2. ASSUME NEW p \in Plugins, Load(p) \/ Unload(p) \/ Reload(p) PROVE CalledInv'
  <2>1. /\ handlers \in Vectors /\ loaded \subseteq Plugins
        /\ \A q \in Handlers, k \in Keys : AtMostOnce(handlers[k], q)
        /\ \A q \in Plugins \ loaded, k \in Keys : ~Has(handlers[k], q)
        /\ \A q \in Plugins : \A k \in Keys \ Hooks[q] : ~Has(handlers[k], q)
    BY ByVector DEF CalledInv, OnlyHooked
  <2>2. \A q \in Plugins : q \in Handlers
    BY DEF Handlers
  <2> DEFINE off == Unregistered(handlers, p)
  <2>3. /\ off \in Vectors
        /\ \A q \in Handlers, k \in Keys :
             AtMostOnce(off[k], q) /\ (Has(off[k], q) => Has(handlers[k], q))
        /\ \A k \in Keys : ~Has(off[k], p)
    <3>1. \A k \in Keys : Has(handlers[k], p) => k \in Unhooks[p]
      BY <2>1 DEF Tidy
    <3> QED
      BY <2>1, <2>2, <3>1, UnregisteredVectors
  <2> HIDE DEF off
  <2>4. /\ handlers' \in Vectors /\ loaded' \subseteq Plugins
        /\ \A q \in Handlers, k \in Keys : AtMostOnce(handlers'[k], q)
        /\ \A q \in Plugins \ loaded', k \in Keys : ~Has(handlers'[k], q)
        /\ \A q \in Plugins : \A k \in Keys \ Hooks[q] : ~Has(handlers'[k], q)
    <3>1. CASE p \notin loaded /\ handlers' = Registered(handlers, p) /\ loaded' = loaded \cup {p}
      BY <2>1, <2>2, <3>1, RegisteredVectors
    <3>2. CASE /\ p \in loaded /\ handlers' = off
               /\ loaded' = loaded \ {p} \/ loaded' = loaded
      BY <2>1, <2>2, <2>3, <3>2
    <3>3. CASE p \in loaded /\ handlers' = Registered(off, p) /\ loaded' = loaded
      BY <2>1, <2>2, <2>3, <3>3, RegisteredVectors
    <3>4. CASE UNCHANGED <<handlers, loaded>>
      BY <2>1, <3>4
    <3> QED
      BY <1>2, <2>1, <3>1, <3>2, <3>3, <3>4, ManageCases DEF off
  <2> QED
    BY <2>4
    DEF CalledInv, CalledOnce, UnloadIsComplete, OnlyHooked, Registrations, Has, AtMostOnce
<1> QED
  BY <1>1, <1>2, OnlyManage

\* Plugins that unregister what they registered are called once for an event, however
\* often they are loaded, unloaded and reloaded (chop.cpp:134, 153, pluginman.py:57-102).
THEOREM PluginsCalledOnce == ASSUME Tidy PROVE PluginSpec => []CalledOnce
<1>1. CalledInv => CalledOnce
  BY DEF CalledInv
<1> QED
  BY <1>1, CalledInit, CalledStep, PTL DEF PluginSpec

\* Such a plugin is not called after it was unloaded, or its reload failed
\* (chop.cpp:139-160, pluginman.py:77-102).
THEOREM UnloadingIsComplete == ASSUME Tidy PROVE PluginSpec => []UnloadIsComplete
<1>1. CalledInv => UnloadIsComplete
  BY DEF CalledInv
<1> QED
  BY <1>1, CalledInit, CalledStep, PTL DEF PluginSpec
=============================================================================
