--------------------------- MODULE OutQueue_proofs --------------------------
(***************************************************************************)
(* What passes through the output queue, for every limit of it.  For every *)
(* table of sizes and word size of the clock, the chat commands in it are  *)
(* bounded, and the waits between its packets are kept.  For any users,    *)
(* the bot's commands, and the events they cause, leave it knowing who is  *)
(* in the channel.                                                         *)
(***************************************************************************)
EXTENDS FloodControl, ChannelBans, FiniteSetTheorems, SequenceTheorems, TLAPS

-----------------------------------------------------------------------------
(* The waits, and the chat commands in the queue.                          *)

\* While a wait is owed, the program computes the same wait, from a time of the last
\* packet that is neither in the future nor before the packet was sent.
WaitKept == owed > 0 => /\ owed = WaitTicks
                        /\ sentAt <= lastTicks
                        /\ lastTicks <= time

IInv == TypeOK /\ WaitKept /\ sentAt <= time

LEMMA SizeWaitNat == \A size \in Nat : SizeWait(size) \in Nat
  BY DEF SizeWait

LEMMA SameWait == UNCHANGED <<lastSize, frequency>> => WaitTicks' = WaitTicks
  BY DEF WaitTicks, SizeWait

\* The unsigned difference of two times in order is at most the true one.
LEMMA WordDifference ==
  ASSUME NEW word \in Nat \ {0}, NEW a \in Nat, NEW b \in Nat, b <= a
  PROVE  (a - b) % word <= a - b
<1> DEFINE d == a - b
<1>1. d \in Nat
  OBVIOUS
<1>2. d % word <= d
  <2> HIDE DEF d
  <2> QED
    BY <1>1
<1> QED
  BY <1>2

-----------------------------------------------------------------------------
LEMMA InitInv == Init => IInv
  BY FloodAssumption DEF Init, IInv, TypeOK, WaitKept

LEMMA SessionInv ==
  ASSUME IInv, Connect \/ LogonPackets \/ LoseConnection \/ AnswerPing
  PROVE  IInv'
<1> USE FloodAssumption, SameWait DEF IInv, TypeOK, WaitKept
<1>1. CASE Connect
  BY <1>1 DEF Connect
<1>2. CASE LogonPackets
  BY <1>2 DEF LogonPackets
<1>3. CASE LoseConnection
  BY <1>3 DEF LoseConnection
<1>4. CASE AnswerPing
  BY <1>4 DEF AnswerPing
<1> QED
  BY <1>1, <1>2, <1>3, <1>4

LEMMA QueueInv ==
  ASSUME IInv, NEW size \in Sizes,
         QueueChat(size) \/ QueueOther(size) \/ QueueUnasked(size)
  PROVE  IInv'
<1>1. queue' \in Seq(Packet)
  <2>1. \A chat \in BOOLEAN : [chat |-> chat, size |-> size] \in Packet
    BY DEF Packet
  <2>2. \A p \in Packet : Append(queue, p) \in Seq(Packet)
    BY DEF IInv, TypeOK
  <2> QED
    BY <2>1, <2>2 DEF QueueChat, QueueOther, QueueUnasked, PushOther
<1>2. UNCHANGED <<time, lastTicks, lastSize, frequency, session, sentAt, owed>>
  BY DEF QueueChat, QueueOther, QueueUnasked, PushOther
<1> QED
  BY <1>1, <1>2, SameWait DEF IInv, TypeOK, WaitKept

LEMMA SendInv == ASSUME IInv, Send PROVE IInv'
<1>1. Head(queue) \in Packet /\ queue' \in Seq(Packet)
  BY DEF Send, IInv, TypeOK
<1>2. lastSize' \in Sizes /\ lastSize' \in Nat
  BY <1>1, FloodAssumption DEF Send, Packet
<1>3. frequency' \in 0..FreqLimit
  BY FloodAssumption DEF Send, IInv, TypeOK
<1>4. owed' = WaitTicks' /\ owed' \in Nat
  <2>1. owed' = WaitTicks'
    BY DEF Send, WaitTicks
  <2>2. SizeWait(lastSize') \in Nat
    BY <1>2, SizeWaitNat
  <2> QED
    BY <1>3, <2>1, <2>2, FloodAssumption DEF Send
<1> QED
  BY <1>1, <1>2, <1>3, <1>4 DEF Send, IInv, TypeOK, WaitKept

LEMMA TimeInv == ASSUME IInv, TimePasses PROVE IInv'
<1>1. PICK d \in Steps : time' = time + d
  BY DEF TimePasses
<1>2. time' \in Nat /\ time <= time'
  BY <1>1, FloodAssumption DEF IInv, TypeOK
<1> QED
  BY <1>2, SameWait DEF TimePasses, IInv, TypeOK, WaitKept

LEMMA NextInv == ASSUME IInv, [Next]_vars PROVE IInv'
<1>1. CASE UNCHANGED vars
  BY <1>1, SameWait DEF vars, IInv, TypeOK, WaitKept
<1>2. ASSUME NEW size \in Sizes,
             QueueChat(size) \/ QueueOther(size) \/ QueueUnasked(size)
      PROVE  IInv'
  BY <1>2, QueueInv
<1>3. Clear => IInv'
  <2>1. ASSUME Clear PROVE IInv'
    BY <2>1, SameWait DEF Clear, IInv, TypeOK, WaitKept
  <2> QED
    BY <2>1
<1> QED
  BY <1>1, <1>2, <1>3, SessionInv, SendInv, TimeInv DEF Next

THEOREM Invariance == Spec => []IInv
  BY InitInv, NextInv, PTL DEF Spec

\* Every variable keeps its type.
THEOREM TypeCorrect == Spec => []TypeOK
  BY Invariance, PTL DEF IInv

-----------------------------------------------------------------------------
LEMMA SendWaits == ASSUME IInv, Send PROVE time - sentAt >= owed
<1>1. CASE owed = 0
  BY <1>1 DEF IInv, TypeOK
<1>2. CASE owed > 0
  <2>1. WaitTicks <= (time - lastTicks) % TickMod
    BY <1>2, FloodAssumption DEF Send, RemainingWait, ElapsedTime, IInv, TypeOK, WaitKept
  <2>2. (time - lastTicks) % TickMod <= time - lastTicks
    BY <1>2, WordDifference, FloodAssumption DEF IInv, TypeOK, WaitKept
  <2>3. (time - lastTicks) % TickMod \in Int
    BY FloodAssumption DEF IInv, TypeOK
  <2> QED
    BY <1>2, <2>1, <2>2, <2>3 DEF IInv, TypeOK, WaitKept
<1> QED
  BY <1>1, <1>2 DEF IInv, TypeOK

\* Two packets of the queue are never closer than the wait the first calls for
\* (PacketDelayTime, bnet.cpp:1717), although the clock wraps.
THEOREM WaitsAreKept == Spec => Spacing
<1>1. IInv /\ [Next]_vars => [Send => time - sentAt >= owed]_vars
  BY SendWaits
<1> QED
  BY <1>1, Invariance, PTL DEF Spec, Spacing

-----------------------------------------------------------------------------
LEMMA ChatsFinite ==
  ASSUME TypeOK
  PROVE  /\ IsFiniteSet(Chats) /\ Cardinality(Chats) \in Nat
         /\ Cardinality(Chats) <= Len(queue)
<1>1. Chats \in SUBSET (1..Len(queue)) /\ Len(queue) \in Nat
  BY DEF Chats, TypeOK
<1>2. IsFiniteSet(1..Len(queue)) /\ Cardinality(1..Len(queue)) = Len(queue)
  BY <1>1, FS_Interval, SMTT(30)
<1>3. IsFiniteSet(Chats) /\ Cardinality(Chats) <= Len(queue)
  BY <1>1, <1>2, FS_Subset
<1> QED
  BY <1>3, FS_CardinalityType

LEMMA ChatsAppend ==
  ASSUME TypeOK, NEW p \in Packet, queue' = Append(queue, p)
  PROVE  Chats' = IF p.chat THEN Chats \cup {Len(queue) + 1} ELSE Chats
<1>1. DOMAIN queue' = 1..(Len(queue) + 1) /\ DOMAIN queue = 1..Len(queue)
  BY DEF TypeOK
<1>2. \A i \in 1..Len(queue) : queue'[i] = queue[i]
  BY DEF TypeOK
<1>3. queue'[Len(queue) + 1] = p /\ Len(queue) \in Nat
  BY DEF TypeOK
<1> QED
  BY <1>1, <1>2, <1>3 DEF Chats

LEMMA ChatsTail ==
  ASSUME TypeOK, queue # <<>>, queue' = Tail(queue)
  PROVE  Cardinality(Chats') <= Cardinality(Chats)
<1> DEFINE next == [i \in Chats' |-> i + 1]
<1>1. /\ DOMAIN queue' = 1..(Len(queue) - 1) /\ DOMAIN queue = 1..Len(queue)
      /\ Len(queue) \in Nat
  BY DEF TypeOK
<1>2. \A i \in 1..(Len(queue) - 1) : queue'[i] = queue[i + 1]
  BY DEF TypeOK
<1>3. \A i \in Chats' : i + 1 \in Chats /\ i \in Nat
  BY <1>1, <1>2 DEF Chats
<1>4. next \in Injection(Chats', Chats)
  BY <1>3 DEF Injection, IsInjective
<1> HIDE DEF next
<1> QED
  BY <1>4, ChatsFinite, FS_Injection

LEMMA ChatStep == ASSUME TypeOK, ChatBounded, [Next]_vars PROVE ChatBounded'
<1>1. ASSUME NEW size \in Sizes, QueueChat(size) PROVE ChatBounded'
  <2> DEFINE p == [chat |-> TRUE, size |-> size]
  <2>1. p \in Packet /\ queue' = Append(queue, p) /\ p.chat
    BY <1>1 DEF QueueChat, Packet
  <2>2. Chats' = Chats \cup {Len(queue) + 1}
    <3> HIDE DEF p
    <3> QED
      BY <2>1, ChatsAppend
  <2>3. Cardinality(Chats') <= Cardinality(Chats) + 1 /\ Cardinality(Chats') \in Nat
    <3> DEFINE added == Chats \cup {Len(queue) + 1}
    <3>1. Cardinality(added) = IF Len(queue) + 1 \in Chats THEN Cardinality(Chats)
                               ELSE Cardinality(Chats) + 1
      BY ChatsFinite, FS_AddElement
    <3>2. Chats' = added
      BY <2>2
    <3> QED
      BY <3>1, <3>2, ChatsFinite
  <2>4. Cardinality(Chats) <= ChatLimit
    BY <1>1, ChatsFinite, FloodAssumption DEF QueueChat, TypeOK
  <2> QED
    BY <2>3, <2>4, ChatsFinite, FloodAssumption DEF ChatBounded
<1>2. ASSUME NEW size \in Sizes, QueueOther(size) \/ QueueUnasked(size)
      PROVE  ChatBounded'
  <2> DEFINE p == [chat |-> FALSE, size |-> size]
  <2>1. p \in Packet /\ queue' = Append(queue, p) /\ ~p.chat
    BY <1>2 DEF QueueOther, QueueUnasked, PushOther, Packet
  <2>2. Chats' = Chats
    <3> HIDE DEF p
    <3> QED
      BY <2>1, ChatsAppend
  <2> QED
    BY <2>2 DEF ChatBounded
<1>3. ASSUME queue' = <<>> PROVE ChatBounded'
  <2>1. Chats' = {}
    BY <1>3 DEF Chats
  <2> QED
    BY <2>1, FS_EmptySet, FloodAssumption DEF ChatBounded
<1>4. CASE Send
  <2>1. queue # <<>> /\ queue' = Tail(queue)
    BY <1>4 DEF Send
  <2>2. Cardinality(Chats') <= Cardinality(Chats)
    BY <2>1, ChatsTail
  <2>3. IsFiniteSet(Chats') /\ Cardinality(Chats') \in Nat
    <3>1. queue' \in Seq(Packet)
      BY <2>1 DEF TypeOK
    <3>2. Chats' \in SUBSET (1..Len(queue')) /\ Len(queue') \in Nat
      BY <3>1 DEF Chats
    <3>3. IsFiniteSet(1..Len(queue'))
      BY <3>2, FS_Interval
    <3> QED
      BY <3>2, <3>3, FS_Subset, FS_CardinalityType
  <2> QED
    BY <2>2, <2>3, ChatsFinite, FloodAssumption DEF ChatBounded
<1>5. CASE UNCHANGED queue
  BY <1>5 DEF ChatBounded, Chats
<1>6. Connect \/ Clear => queue' = <<>>
  BY DEF Connect, Clear
<1>7. LogonPackets \/ LoseConnection \/ AnswerPing \/ TimePasses \/ UNCHANGED vars
      => UNCHANGED queue
  BY DEF LogonPackets, LoseConnection, AnswerPing, TimePasses, vars
<1> QED
  BY <1>1, <1>2, <1>3, <1>4, <1>5, <1>6, <1>7 DEF Next

\* However many packets of other kinds are queued, chat commands stay within their
\* limit (QueueChatCommand, bnet.cpp:1382).
THEOREM ChatStaysBounded == Spec => []ChatBounded
<1>1. Init => ChatBounded
  <2>1. Init => Chats = {}
    BY DEF Init, Chats
  <2> QED
    BY <2>1, FS_EmptySet, FloodAssumption DEF ChatBounded
<1> QED
  BY <1>1, ChatStep, TypeCorrect, PTL DEF Spec

-----------------------------------------------------------------------------
(* The channel: what the bot will know of it once it has seen what is      *)
(* under way is what there is.                                             *)

\* An event tells whether a user is in the channel.
About(event, n) == event \in {<<"join", n>>, <<"leave", n>>, <<"channel">>}

Told == ({"join", "leave"} \X Names) \cup ({"flags"} \X BOOLEAN) \cup {<<"channel">>}
Commands == {"ban", "unban", "kick"} \X Names

ChannelTypes == /\ present \subseteq Names /\ known \subseteq Names
                /\ events \in Seq(Told) /\ out \in Seq(Commands)
                /\ isOp \in BOOLEAN

\* The last event under way that tells of a user tells the truth.
LastTells(under, there, n) ==
  \A i \in 1..Len(under) :
    About(under[i], n) /\ (\A j \in 1..Len(under) : j > i => ~About(under[j], n))
      => (n \in there <=> under[i] = <<"join", n>>)

\* A user no event under way tells of is known as he is, or about to be banned, or excused.
Silent(under, n) == \A i \in 1..Len(under) : ~About(under[i], n)
KnownAsIs(n) == /\ n \in known => n \in present
                /\ n \in present /\ n \notin known => Queued("ban", n) \/ n \in excused

SeenFor(n) == LastTells(events, present, n) /\ (Silent(events, n) => KnownAsIs(n))
SeenInv == ChannelTypes /\ \A n \in Names : SeenFor(n)

LEMMA EventAdded ==
  ASSUME NEW under \in Seq(Told), NEW e \in Told, NEW n, NEW before, NEW after,
         LastTells(under, before, n),
         About(e, n) => (n \in after <=> e = <<"join", n>>),
         ~About(e, n) => (n \in after <=> n \in before)
  PROVE  /\ Append(under, e) \in Seq(Told)
         /\ LastTells(Append(under, e), after, n)
         /\ Silent(Append(under, e), n) => Silent(under, n) /\ ~About(e, n)
<1> DEFINE t == Append(under, e)
<1>1. /\ t \in Seq(Told) /\ Len(under) \in Nat /\ Len(t) = Len(under) + 1
      /\ \A i \in 1..Len(under) : t[i] = under[i]
      /\ t[Len(under) + 1] = e
  BY AppendProperties, LenProperties
<1> HIDE DEF t
<1>2. \A i \in 1..Len(under) : i \in 1..Len(t) /\ i < Len(t)
  BY <1>1
<1>3. Len(t) \in 1..Len(t) /\ \A i \in 1..Len(t) : i \in 1..Len(under) \/ i = Len(t)
  BY <1>1
<1>4. Silent(t, n) => Silent(under, n) /\ ~About(e, n)
  BY <1>1, <1>2, <1>3 DEF Silent
<1>5. LastTells(t, after, n)
  <2> SUFFICES ASSUME NEW i \in 1..Len(t), About(t[i], n),
                      \A j \in 1..Len(t) : j > i => ~About(t[j], n)
               PROVE  n \in after <=> t[i] = <<"join", n>>
    BY DEF LastTells
  <2>1. CASE i = Len(t)
    BY <1>1, <2>1
  <2>2. CASE i \in 1..Len(under)
    <3>1. ~About(e, n)
      BY <1>1, <1>2, <1>3, <2>2
    <3>2. \A j \in 1..Len(under) : j > i => ~About(under[j], n)
      BY <1>1, <1>2
    <3>3. About(under[i], n) /\ under[i] = t[i]
      BY <1>1, <2>2
    <3> QED
      BY <2>2, <3>1, <3>2, <3>3 DEF LastTells
  <2> QED
    BY <1>3, <2>1, <2>2
<1> QED
  BY <1>1, <1>4, <1>5 DEF t

LEMMA EventTaken ==
  ASSUME NEW under \in Seq(Told), under # <<>>, NEW n, NEW there, LastTells(under, there, n)
  PROVE  /\ Tail(under) \in Seq(Told) /\ Head(under) \in Told
         /\ LastTells(Tail(under), there, n)
         /\ Silent(Tail(under), n) =>
              \/ Silent(under, n) /\ ~About(Head(under), n)
              \/ About(Head(under), n) /\ (n \in there <=> Head(under) = <<"join", n>>)
<1> DEFINE t == Tail(under)
<1>1. /\ t \in Seq(Told) /\ Len(under) \in Nat /\ Len(under) >= 1 /\ Len(t) = Len(under) - 1
      /\ \A i \in 1..Len(t) : t[i] = under[i + 1]
      /\ Head(under) = under[1] /\ Head(under) \in Told
  BY HeadTailProperties, LenProperties, EmptySeq
<1> HIDE DEF t
<1>2. ASSUME NEW j \in 1..Len(under) PROVE j = 1 \/ (j - 1 \in 1..Len(t) /\ t[j - 1] = under[j])
  <2>1. j = 1 \/ j - 1 \in 1..Len(t)
    BY <1>1
  <2> QED
    BY <1>1, <2>1
<1>3. \A i \in 1..Len(t) : i + 1 \in 1..Len(under) /\ i \in Nat
  BY <1>1
<1>4. LastTells(t, there, n)
  <2> SUFFICES ASSUME NEW i \in 1..Len(t), About(t[i], n),
                      \A j \in 1..Len(t) : j > i => ~About(t[j], n)
               PROVE  n \in there <=> t[i] = <<"join", n>>
    BY DEF LastTells
  <2>1. \A j \in 1..Len(under) : j > i + 1 => ~About(under[j], n)
    BY <1>2, <1>3
  <2>2. About(under[i + 1], n) /\ i + 1 \in 1..Len(under) /\ under[i + 1] = t[i]
    BY <1>1, <1>3
  <2> QED
    BY <2>1, <2>2 DEF LastTells
<1>5. ASSUME Silent(t, n)
      PROVE  \/ Silent(under, n) /\ ~About(Head(under), n)
             \/ About(Head(under), n) /\ (n \in there <=> Head(under) = <<"join", n>>)
  <2>1. \A j \in 1..Len(under) : j > 1 => ~About(under[j], n)
    BY <1>2, <1>5 DEF Silent
  <2>2. 1 \in 1..Len(under)
    BY <1>1
  <2>3. CASE About(under[1], n)
    BY <1>1, <2>1, <2>2, <2>3 DEF LastTells
  <2>4. CASE ~About(under[1], n)
    <3>1. \A j \in 1..Len(under) : j = 1 \/ j > 1
      OBVIOUS
    <3> QED
      BY <1>1, <2>1, <2>4, <3>1 DEF Silent
  <2> QED
    BY <2>3, <2>4
<1> QED
  BY <1>1, <1>4, <1>5 DEF t

\* A user is about to be banned, or was not banned because a /ban came to nothing.
Dealt(n) == Queued("ban", n) \/ n \in excused

LEMMA QueueDeals ==
  ASSUME out \in Seq(Commands), NEW op \in {"ban", "unban", "kick"}, NEW n \in Names,
         Queue(op, n) \/ Idle
  PROVE  /\ out' \in Seq(Commands)
         /\ \A m : Dealt(m) => Dealt(m)'
         /\ Queue(op, n) /\ op = "ban" => Dealt(n)'
<1>1. CASE Len(out) > QueueLimit /\ Queue(op, n)
  BY <1>1 DEF Queue, Futile, Dealt, Queued
<1>2. CASE ~(Len(out) > QueueLimit) /\ Queue(op, n)
  <2>1. /\ out' \in Seq(Commands) /\ Len(out) \in Nat /\ Len(out') = Len(out) + 1
        /\ \A i \in 1..Len(out) : out'[i] = out[i]
        /\ out'[Len(out) + 1] = <<op, n>>
        /\ excused' = excused
    <3>1. out' = Append(out, <<op, n>>) /\ excused' = excused
      BY <1>2 DEF Queue
    <3>2. <<op, n>> \in Commands
      BY DEF Commands
    <3> QED
      BY <3>1, <3>2, AppendProperties, LenProperties
  <2>2. \A i \in 1..Len(out) : i \in 1..Len(out')
    BY <2>1
  <2>3. Len(out) + 1 \in 1..Len(out')
    BY <2>1
  <2> QED
    BY <2>1, <2>2, <2>3 DEF Dealt, Queued
<1>3. CASE Idle
  BY <1>3 DEF Idle, Dealt, Queued, Queue, Futile
<1> QED
  BY <1>1, <1>2, <1>3

\* What the bot queues, and what it lists, leaves the channel and what it knows of it.
LEMMA QueuedStep ==
  ASSUME SeenInv, NEW op \in {"ban", "unban", "kick"}, NEW n \in Names, Queue(op, n) \/ Idle,
         UNCHANGED <<channel, known>>
  PROVE  SeenInv'
<1>1. out' \in Seq(Commands) /\ \A m : Dealt(m) => Dealt(m)'
  BY QueueDeals DEF SeenInv, ChannelTypes
<1> QED
  BY <1>1 DEF SeenInv, ChannelTypes, SeenFor, LastTells, Silent, KnownAsIs, Dealt, channel

\* Something happens in the channel that the bot is told of.
LEMMA ToldStep ==
  ASSUME SeenInv, NEW e \in Told, events' = Append(events, e), known' = known,
         present' \subseteq Names, out' \in Seq(Commands), isOp' \in BOOLEAN,
         \A n \in Names : About(e, n) => (n \in present' <=> e = <<"join", n>>),
         \A n \in Names : ~About(e, n) => /\ n \in present' <=> n \in present
                                          /\ Dealt(n) => Dealt(n)'
  PROVE  SeenInv'
<1>1. ASSUME NEW n \in Names PROVE SeenFor(n)'
  <2>1. /\ events' \in Seq(Told) /\ LastTells(events', present', n)
        /\ Silent(events', n) => Silent(events, n) /\ ~About(e, n)
    BY EventAdded DEF SeenInv, SeenFor, ChannelTypes
  <2>2. Silent(events, n) /\ ~About(e, n) => KnownAsIs(n)'
    BY DEF SeenInv, SeenFor, KnownAsIs, Dealt
  <2> QED
    BY <2>1, <2>2 DEF SeenFor
<1>2. events' \in Seq(Told)
  BY AppendProperties DEF SeenInv, ChannelTypes
<1> QED
  BY <1>1, <1>2 DEF SeenInv, ChannelTypes

LEMMA ObeyStep == ASSUME SeenInv, Obey PROVE SeenInv'
<1> DEFINE op == Head(out)[1]
           n == Head(out)[2]
<1>1. /\ out # <<>> /\ out \in Seq(Commands) /\ out' = Tail(out) /\ known' = known
      /\ op \in {"ban", "unban", "kick"} /\ n \in Names /\ Head(out) = <<op, n>>
  <2>1. out # <<>> /\ out \in Seq(Commands) /\ out' = Tail(out) /\ known' = known
    BY DEF Obey, SeenInv, ChannelTypes
  <2>2. Head(out) \in Commands
    BY <2>1, HeadTailProperties
  <2> QED
    BY <2>1, <2>2 DEF Commands
<1>2. /\ out' \in Seq(Commands)
      /\ \A m \in Names : Queued("ban", m) => Queued("ban", m)' \/ (op = "ban" /\ m = n)
  <2>1. /\ Tail(out) \in Seq(Commands) /\ Len(out) \in Nat /\ Len(Tail(out)) = Len(out) - 1
        /\ \A i \in 1..Len(Tail(out)) : Tail(out)[i] = out[i + 1]
        /\ Head(out) = out[1]
    BY <1>1, HeadTailProperties, LenProperties
  <2>2. ASSUME NEW m \in Names, NEW i \in 1..Len(out), out[i] = <<"ban", m>>
        PROVE  Queued("ban", m)' \/ (op = "ban" /\ m = n)
    <3>1. CASE i = 1
      BY <1>1, <2>1, <2>2, <3>1
    <3>2. CASE i # 1
      <4>1. i - 1 \in 1..Len(Tail(out)) /\ (i - 1) + 1 = i
        BY <2>1, <3>2
      <4>2. Tail(out)[i - 1] = <<"ban", m>>
        BY <2>1, <2>2, <4>1
      <4> QED
        BY <1>1, <4>1, <4>2 DEF Queued
    <3> QED
      BY <3>1, <3>2
  <2> QED
    BY <1>1, <2>1, <2>2 DEF Queued
<1> DEFINE refused == ~isOp /\ Futile(op, n) /\ UNCHANGED channel
           lifted == isOp /\ op = "unban" /\ UNCHANGED <<present, isOp, events, excused>>
           done == /\ isOp /\ op \in {"ban", "kick"}
                   /\ present' = present \ {n}
                   /\ events' = IF n \in present THEN Append(events, <<"leave", n>>)
                                                 ELSE events
                   /\ excused' = excused \ {n}
                   /\ UNCHANGED isOp
<1>3. refused \/ lifted \/ done
  BY <1>1 DEF Obey, SeenInv, ChannelTypes
<1> HIDE DEF op, n
<1>4. CASE refused \/ lifted
  <2>1. UNCHANGED <<present, isOp, events>>
    BY <1>4 DEF channel
  <2>2. \A m \in Names : Dealt(m) => Dealt(m)'
    BY <1>2, <1>4 DEF Dealt, Futile
  <2> QED
    BY <1>1, <1>2, <2>1, <2>2
    DEF SeenInv, ChannelTypes, SeenFor, LastTells, Silent, KnownAsIs, Dealt
<1>5. CASE done
  <2>1. \A m \in Names : m # n /\ Dealt(m) => Dealt(m)'
    BY <1>2, <1>5 DEF Dealt
  <2>2. present' \subseteq Names /\ isOp' \in BOOLEAN
    BY <1>5 DEF SeenInv, ChannelTypes
  <2>3. CASE n \in present
    <3>1. <<"leave", n>> \in Told
      BY <1>1 DEF Told
    <3>2. \A m \in Names : About(<<"leave", n>>, m) <=> m = n
      BY DEF About
    <3> QED
      BY <1>1, <1>2, <1>5, <2>1, <2>2, <2>3, <3>1, <3>2, ToldStep
  <2>4. CASE n \notin present
    <3>1. UNCHANGED <<present, isOp, events>>
      BY <1>5, <2>4
    <3> QED
      BY <1>1, <1>2, <2>1, <2>4, <3>1
      DEF SeenInv, ChannelTypes, SeenFor, LastTells, Silent, KnownAsIs, Dealt
  <2> QED
    BY <2>3, <2>4
<1> QED
  BY <1>3, <1>4, <1>5

\* The bot learns that somebody came, went, or that the channel is another.
LEMMA EventStep == ASSUME SeenInv, ProcessChatEvent PROVE SeenInv'
<1> DEFINE e == Head(events)
<1>1. /\ events # <<>> /\ events \in Seq(Told) /\ events' = Tail(events)
      /\ out \in Seq(Commands) /\ UNCHANGED <<present, isOp>>
  BY DEF ProcessChatEvent, SeenInv, ChannelTypes
<1>2. e \in Told /\ events' \in Seq(Told)
  BY <1>1, HeadTailProperties
<1>3. \/ e[1] \in {"join", "leave"} /\ e[2] \in Names /\ e = <<e[1], e[2]>>
      \/ e[1] = "flags"
      \/ e[1] = "channel" /\ e = <<"channel">>
  BY <1>2 DEF Told
<1> DEFINE greets == e[1] = "join" /\ SeeJoin(e[2])
           forgets == e[1] = "leave" /\ known' = known \ {e[2]} /\ Idle
           passes == e[1] = "flags" /\ known' = known /\ Idle
           restarts == e[1] = "channel" /\ known' = {} /\ Idle
<1>4. greets \/ forgets \/ passes \/ restarts
  BY <1>3 DEF ProcessChatEvent
<1> HIDE DEF e
<1>5. ASSUME NEW n \in Names
      PROVE  About(e, n) <=> \/ e[1] \in {"join", "leave"} /\ e[2] = n
                             \/ e[1] = "channel"
  <2>1. CASE e[1] \in {"join", "leave"} /\ e[2] \in Names /\ e = <<e[1], e[2]>>
    BY <2>1 DEF About
  <2>2. CASE e[1] = "flags"
    BY <2>2 DEF About
  <2>3. CASE e[1] = "channel" /\ e = <<"channel">>
    BY <2>3 DEF About
  <2> QED
    BY <1>3, <2>1, <2>2, <2>3
<1>6. /\ known' \subseteq Names /\ out' \in Seq(Commands)
      /\ \A n \in Names : Dealt(n) => Dealt(n)'
      /\ \A n \in Names : ~About(e, n) => (n \in known' <=> n \in known)
      /\ \A n \in Names : About(e, n) /\ n \in known' => n \in known \/ e[1] = "join"
      /\ \A n \in Names : About(e, n) /\ e[1] = "join" => n \in known' \/ Dealt(n)'
      /\ \A n \in Names : About(e, n) /\ e[1] # "join" => n \notin known'
  <2>1. known \subseteq Names
    BY DEF SeenInv, ChannelTypes
  <2>2. CASE greets
    <3>1. PICK m \in Names : m = e[2]
      BY <1>3, <2>2
    <3>2. \/ Queue("ban", m) /\ UNCHANGED known
          \/ Idle /\ known' = known \cup {m}
      BY <2>2, <3>1 DEF SeeJoin
    <3>3. out' \in Seq(Commands) /\ \A n : Dealt(n) => Dealt(n)'
      BY <1>1, <3>2, QueueDeals
    <3>4. Queue("ban", m) => Dealt(m)'
      BY <1>1, QueueDeals
    <3>5. \A n \in Names : About(e, n) <=> n = m
      BY <1>5, <2>2, <3>1
    <3>6. m \in known' \/ Dealt(m)'
      BY <3>2, <3>4
    <3>7. /\ known' \subseteq Names
          /\ \A n \in Names : n # m => (n \in known' <=> n \in known)
      BY <2>1, <3>2
    <3> QED
      BY <2>2, <3>3, <3>5, <3>6, <3>7
  <2>3. CASE forgets \/ passes \/ restarts
    <3>1. out' \in Seq(Commands) /\ \A n : Dealt(n) => Dealt(n)'
      BY <1>1, <2>3 DEF Idle, Dealt, Queued
    <3> QED
      BY <1>3, <1>5, <2>1, <2>3, <3>1
  <2> QED
    BY <1>4, <2>2, <2>3
<1>7. ASSUME NEW n \in Names PROVE SeenFor(n)'
  <2>1. /\ LastTells(events', present', n)
        /\ Silent(events', n) =>
             \/ Silent(events, n) /\ ~About(e, n)
             \/ About(e, n) /\ (n \in present <=> e = <<"join", n>>)
    <3>1. LastTells(events, present, n)
      BY DEF SeenInv, SeenFor
    <3> QED
      BY <1>1, <3>1, EventTaken DEF e
  <2>2. CASE Silent(events, n) /\ ~About(e, n)
    <3>1. KnownAsIs(n)
      BY <2>2 DEF SeenInv, SeenFor
    <3> QED
      BY <1>1, <1>6, <2>1, <2>2, <3>1 DEF KnownAsIs, Dealt, SeenFor
  <2>3. CASE About(e, n) /\ (n \in present <=> e = <<"join", n>>)
    <3>1. n \in present <=> e[1] = "join"
      <4>1. e = <<"join", n>> <=> e[1] = "join"
        BY <1>3, <1>5, <2>3
      <4> QED
        BY <2>3, <4>1
    <3>2. KnownAsIs(n)'
      BY <1>1, <1>6, <2>3, <3>1 DEF KnownAsIs, Dealt
    <3> QED
      BY <2>1, <3>2 DEF SeenFor
  <2> QED
    BY <2>1, <2>2, <2>3 DEF SeenFor
<1> QED
  BY <1>1, <1>2, <1>6, <1>7 DEF SeenInv, ChannelTypes

LEMMA SeenInit == ChannelInit => SeenInv
<1> SUFFICES ASSUME ChannelInit PROVE SeenInv
  OBVIOUS
<1>1. /\ events \in Seq(Told) /\ out \in Seq(Commands) /\ Len(events) = 0
      /\ present = {} /\ known = {} /\ isOp = FALSE
  BY DEF ChannelInit
<1>2. \A n \in Names : LastTells(events, present, n) /\ KnownAsIs(n)
  BY <1>1 DEF LastTells, KnownAsIs
<1> QED
  BY <1>1, <1>2 DEF SeenInv, ChannelTypes, SeenFor

LEMMA SeenStep == SeenInv /\ [ChannelNext]_channelVars => SeenInv'
<1> SUFFICES ASSUME SeenInv, [ChannelNext]_channelVars PROVE SeenInv'
  OBVIOUS
<1>0. /\ present \subseteq Names /\ known \subseteq Names
      /\ events \in Seq(Told) /\ out \in Seq(Commands) /\ isOp \in BOOLEAN
  BY DEF SeenInv, ChannelTypes
<1> DEFINE Tells(e) ==
      /\ e \in Told /\ events' = Append(events, e) /\ known' = known
      /\ present' \subseteq Names /\ out' \in Seq(Commands) /\ isOp' \in BOOLEAN
      /\ \A n \in Names : About(e, n) => (n \in present' <=> e = <<"join", n>>)
      /\ \A n \in Names : ~About(e, n) => /\ n \in present' <=> n \in present
                                          /\ Dealt(n) => Dealt(n)'
<1>1. ASSUME NEW e, Tells(e) PROVE SeenInv'
  BY <1>1, ToldStep
<1>2. CASE UNCHANGED channelVars
  BY <1>2 DEF channelVars, channel, bot, SeenInv, ChannelTypes, SeenFor, LastTells, Silent,
              KnownAsIs, Queued
<1>3. ASSUME NEW n \in Names, Join(n) PROVE SeenInv'
  <2>1. Tells(<<"join", n>>)
    BY <1>0, <1>3 DEF Join, Told, About, Dealt, Queued, bot
  <2> QED
    BY <1>1, <2>1
<1>4. ASSUME NEW n \in Names, Leave(n) PROVE SeenInv'
  <2>1. Tells(<<"leave", n>>)
    BY <1>0, <1>4 DEF Leave, Told, About, Dealt, Queued, bot
  <2> QED
    BY <1>1, <2>1
<1>5. CASE ChangeFlags
  <2>1. Tells(<<"flags", ~isOp>>)
    BY <1>0, <1>5 DEF ChangeFlags, Told, About, Dealt, Queued, bot
  <2> QED
    BY <1>1, <2>1
<1>6. ASSUME NEW lost \in BOOLEAN, ChangeChannel(lost) PROVE SeenInv'
  <2>1. <<"channel">> \in Told /\ \A n \in Names : About(<<"channel">>, n)
    BY DEF Told, About
  <2>2. \A n \in Names : <<"channel">> # <<"join", n>>
    OBVIOUS
  <2>3. /\ present' = {} /\ known' = known /\ isOp' = FALSE
        /\ out' = <<>> \/ out' = out
        /\ events' = Append(<<>>, <<"channel">>) \/ events' = Append(events, <<"channel">>)
    BY <1>6 DEF ChangeChannel
  <2>4. out' \in Seq(Commands) /\ present' \subseteq Names /\ isOp' \in BOOLEAN
    <3>1. <<>> \in Seq(Commands)
      OBVIOUS
    <3>2. out' \in Seq(Commands)
      BY <1>0, <2>3, <3>1
    <3>3. present' \subseteq Names
      BY <2>3
    <3>4. isOp' \in BOOLEAN
      BY <2>3
    <3> QED
      BY <3>2, <3>3, <3>4
  <2>5. \A n \in Names : n \in present' <=> <<"channel">> = <<"join", n>>
    BY <2>2, <2>3
  <2>6. CASE events' = Append(events, <<"channel">>)
    <3>1. Tells(<<"channel">>)
      BY <2>1, <2>3, <2>4, <2>5, <2>6
    <3> QED
      BY <1>1, <3>1
  <2>7. CASE events' = Append(<<>>, <<"channel">>)
    <3>1. Len(events') = 1 /\ events'[1] = <<"channel">>
      BY <2>7
    <3>2. events' \in Seq(Told)
      BY <2>1, <2>7
    <3>3. 1 \in 1..Len(events') /\ \A i \in 1..Len(events') : i = 1
      BY <3>1
    <3>4. ASSUME NEW n \in Names PROVE SeenFor(n)'
      <4>1. LastTells(events', present', n)
        BY <2>5, <3>1, <3>3 DEF LastTells
      <4>2. ~Silent(events', n)
        BY <2>1, <3>1, <3>3 DEF Silent
      <4> QED
        BY <4>1, <4>2 DEF SeenFor
    <3> QED
      BY <1>0, <2>3, <2>4, <3>2, <3>4 DEF SeenInv, ChannelTypes
  <2> QED
    BY <2>3, <2>6, <2>7
<1>7. ASSUME NEW n \in Names, AddBan(n) PROVE SeenInv'
  <2>1. \/ \E m \in Matches(n) : Queue("ban", m)
        \/ Idle
    BY <1>7 DEF AddBan
  <2>2. Matches(n) \subseteq Names
    BY <1>0 DEF Matches
  <2>3. UNCHANGED <<channel, known>>
    BY <1>7 DEF AddBan
  <2> QED
    BY <2>1, <2>2, <2>3, <1>7, QueuedStep
<1>8. ASSUME NEW n \in Names, DelBan(n) PROVE SeenInv'
  BY <1>8, QueuedStep DEF DelBan
<1>9. ASSUME NEW n \in Names, Kick(n) PROVE SeenInv'
  <2>1. Matches(n) \subseteq Names
    BY <1>0 DEF Matches
  <2> QED
    BY <1>9, <2>1, QueuedStep DEF Kick
<1>10. ASSUME NEW j \in Queries, Apply(j) PROVE SeenInv'
  BY <1>10 DEF Apply, channel, SeenInv, ChannelTypes, SeenFor, LastTells, Silent,
               KnownAsIs, Queued
<1> QED
  BY <1>2, <1>3, <1>4, <1>5, <1>6, <1>7, <1>8, <1>9, <1>10, ObeyStep, EventStep
  DEF ChannelNext

\* With all events seen, whoever is in the channel is in m_Channel or about to be banned,
\* and nobody else is, for any users, any limit of the queue, and however far the events
\* lag behind (bnet.cpp:1117-1153).
THEOREM NobodyIsOverlooked == ChannelSpec => []NobodyOverlooked
<1>1. SeenInv => NobodyOverlooked
  <2> SUFFICES ASSUME SeenInv, events = <<>> PROVE NobodyOverlooked
    BY DEF NobodyOverlooked
  <2>1. \A n \in Names : Silent(events, n)
    BY DEF Silent
  <2> QED
    BY <2>1 DEF SeenInv, ChannelTypes, SeenFor, KnownAsIs, NobodyOverlooked
<1> QED
  BY <1>1, SeenInit, SeenStep, PTL DEF ChannelSpec
=============================================================================
