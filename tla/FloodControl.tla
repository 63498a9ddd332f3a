---------------------------- MODULE FloodControl ----------------------------
(***************************************************************************)
(* The output queue of CBNET (m_OutPackets) and the wait between two       *)
(* packets of it that keeps battle.net from kicking the bot for flooding.  *)
(* Packets of the logon bypass the queue, and move the time of the last    *)
(* packet four seconds ahead.                                              *)
(*                                                                         *)
(* Times are milliseconds since some origin; the program sees them modulo  *)
(* TickMod, 2^32, and computes with them modulo TickMod.                   *)
(***************************************************************************)
EXTENDS Integers, Sequences, FiniteSets

CONSTANTS
  TickMod,     \* 2^32: GetTicks and everything computed from it is a uint32_t
  ChatLimit,   \* 10: chat commands are discarded when more packets are queued
  FreqLimit,   \* 30: m_FrequencyDelayTimes starts again from 0
  Ahead,       \* 4000: what a packet of the logon adds to the last packet's time
  Sizes,       \* sizes of packets, in bytes
  Steps,       \* how far time moves between two calls of Update
  MaxTime,     \* bound on time
  MaxOthers    \* bound on queued packets that are not chat commands

ASSUME FloodAssumption == /\ TickMod \in Nat \ {0}
                          /\ ChatLimit \in Nat /\ FreqLimit \in Nat /\ Ahead \in Nat
                          /\ Sizes \subseteq Nat
                          /\ Steps \subseteq Nat
                          /\ MaxTime \in Nat
                          /\ MaxOthers \in Nat

VARIABLES
  time,       \* now; GetTicks() is time % TickMod
  queue,      \* m_OutPackets
  lastTicks,  \* m_LastOutPacketTicks, before it is taken modulo TickMod
  lastSize,   \* m_LastOutPacketSize
  frequency,  \* m_FrequencyDelayTimes
  session,    \* "down", "logon" (connected) or "in" (m_LoggedIn)
  sentAt,     \* history: when a packet, of the logon or the queue, was last sent
  owed        \* history: the wait that packet calls for, 0 after the logon's

vars == <<time, queue, lastTicks, lastSize, frequency, session, sentAt, owed>>

Packet == [chat : BOOLEAN, size : Sizes]

TypeOK == /\ time \in Nat
          /\ queue \in Seq(Packet)
          /\ lastTicks \in Nat
          /\ lastSize \in Sizes \cup {0}
          /\ frequency \in 0..FreqLimit
          /\ session \in {"down", "logon", "in"}
          /\ sentAt \in Nat
          /\ owed \in Nat

Init == /\ time \in {0} \cup Steps
        /\ queue = <<>>
        /\ lastTicks = 0
        /\ lastSize = 0
        /\ frequency = 0
        /\ session = "down"
        /\ sentAt = 0
        /\ owed = 0

-----------------------------------------------------------------------------
(* The wait.                                                               *)

SizeWait(size) ==
  CASE size \in 0..9      -> 1700
    [] size \in 10..29    -> 4000
    [] size \in 30..49    -> 4400
    [] size \in 50..69    -> 5000
    [] size \in 70..99    -> 6500
    [] size \in 100..149  -> 7000
    [] size \in 150..199  -> 7400
    [] OTHER              -> 7800

WaitTicks == SizeWait(lastSize) + frequency * 160

\* uint32_t ElapsedTime = GetTicks( ) - m_LastOutPacketTicks
ElapsedTime == (time - lastTicks) % TickMod

\* DelayTime.
RemainingWait == WaitTicks - ElapsedTime

-----------------------------------------------------------------------------
(* The session, as far as the queue depends on it.                         *)

Connect ==
  /\ session = "down"
  /\ session' = "logon"
  /\ queue' = <<>>
  /\ lastTicks' = time + Ahead
  /\ sentAt' = time
  /\ owed' = 0
  /\ UNCHANGED <<time, lastSize, frequency>>

\* Answers to SID_AUTH_INFO, SID_AUTH_CHECK and SID_AUTH_ACCOUNTLOGON, and to
\* SID_AUTH_ACCOUNTLOGONPROOF, with which the bot is logged in.
LogonPackets ==
  /\ session = "logon"
  /\ session' \in {"logon", "in"}
  /\ lastTicks' = time + Ahead
  /\ sentAt' = time
  /\ owed' = 0
  /\ UNCHANGED <<time, queue, lastSize, frequency>>

\* SID_PING is answered past the queue; only the time is taken note of.
AnswerPing ==
  /\ session # "down"
  /\ lastTicks' = time
  /\ UNCHANGED <<time, queue, lastSize, frequency, session, sentAt, owed>>

\* The queue is kept until the next connection.
LoseConnection ==
  /\ session # "down"
  /\ session' = "down"
  /\ UNCHANGED <<time, queue, lastTicks, lastSize, frequency, sentAt, owed>>

-----------------------------------------------------------------------------
(* The queue.                                                              *)

\* Mutant: chat commands are queued like everything else.
QueueChatUnlimited(size) ==
  /\ session = "in"
  /\ Len(queue) <= ChatLimit + MaxOthers + 1
  /\ queue' = Append(queue, [chat |-> TRUE, size |-> size])
  /\ UNCHANGED <<time, lastTicks, lastSize, frequency, session, sentAt, owed>>

\* QueueChatCommand; what comes when the queue is too long is discarded.
QueueChat(size) ==
  /\ session = "in"
  /\ Len(queue) <= ChatLimit
  /\ queue' = Append(queue, [chat |-> TRUE, size |-> size])
  /\ UNCHANGED <<time, lastTicks, lastSize, frequency, session, sentAt, owed>>

Others == {i \in DOMAIN queue : ~queue[i].chat}
Chats == {i \in DOMAIN queue : queue[i].chat}

PushOther(size) ==
  /\ Cardinality(Others) < MaxOthers
  /\ queue' = Append(queue, [chat |-> FALSE, size |-> size])
  /\ UNCHANGED <<time, lastTicks, lastSize, frequency, session, sentAt, owed>>

\* Clan, friends and channel packets look at m_LoggedIn, not at the queue.
QueueOther(size) == session = "in" /\ PushOther(size)

\* Null packets (each minute at most: when is left open) and Warden's answers look
\* at neither.
QueueUnasked(size) == session # "down" /\ PushOther(size)

\* The command "clear".
Clear ==
  /\ session = "in"
  /\ queue' = <<>>
  /\ UNCHANGED <<time, lastTicks, lastSize, frequency, session, sentAt, owed>>

\* Mutant: the size of what was sent is not taken note of.
SendForgetsSize ==
  /\ session # "down"
  /\ queue # <<>>
  /\ RemainingWait <= 0
  /\ queue' = Tail(queue)
  /\ lastTicks' = time
  /\ frequency' = IF frequency >= FreqLimit \/ RemainingWait <= -5000 THEN 0
                  ELSE frequency + 1
  /\ sentAt' = time
  /\ owed' = SizeWait(Head(queue).size) + frequency' * 160
  /\ UNCHANGED <<time, lastSize, session>>

\* Update sends the first packet once nothing remains to be waited for.
Send ==
  /\ session # "down"
  /\ queue # <<>>
  /\ RemainingWait <= 0
  /\ queue' = Tail(queue)
  /\ lastTicks' = time
  /\ lastSize' = Head(queue).size
  /\ frequency' = IF frequency >= FreqLimit \/ RemainingWait <= -5000 THEN 0
                  ELSE frequency + 1
  /\ sentAt' = time
  /\ owed' = SizeWait(lastSize') + frequency' * 160
  /\ UNCHANGED <<time, session>>

TimePasses ==
  /\ \E d \in Steps : time + d <= MaxTime /\ time' = time + d
  /\ UNCHANGED <<queue, lastTicks, lastSize, frequency, session, sentAt, owed>>

-----------------------------------------------------------------------------
Next == \/ Connect \/ LogonPackets \/ LoseConnection \/ AnswerPing
        \/ \E size \in Sizes : QueueChat(size) \/ QueueOther(size) \/ QueueUnasked(size)
        \/ Clear
        \/ Send
        \/ TimePasses

Spec == Init /\ [][Next]_vars

-----------------------------------------------------------------------------
(* Properties.                                                             *)

\* Replies can never pile up behind a server that lets the bot send slowly: the
\* queue holds one chat command more than the limit, whatever else is in it.
ChatBounded == Cardinality(Chats) <= ChatLimit + 1

\* Between two packets of the queue passes the whole wait the first calls for,
\* whatever pings, lost connections, idle times and the wrap of the clock do to
\* what the program takes for the time of the last packet.
Spacing == [][Send => time - sentAt >= owed]_vars
=============================================================================
