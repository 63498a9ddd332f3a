------------------------- MODULE Connection_proofs -------------------------
(***************************************************************************)
(* Proofs about Connection: for any number of packets under way and of     *)
(* faults, the flags agree, the bot never takes part out of turn in a      *)
(* logon, and what it shows of a session are the steps of Session.         *)
(***************************************************************************)
EXTENDS Connection, SequenceTheorems, TLAPS

-----------------------------------------------------------------------------
(* Sequences of which at most one item matters.                            *)

\* Every item of s is in X.
Only(s, X) == \A i \in 1..Len(s) : s[i] \in X

\* At most one item of s is not in X.
Alone(s, X) == \A i, j \in 1..Len(s) : s[i] \notin X /\ s[j] \notin X => i = j

LEMMA OnlyLarger ==
  ASSUME NEW s, NEW X, NEW Y, X \subseteq Y, Only(s, X)
  PROVE  Only(s, Y)
BY DEF Only

LEMMA OnlyIsAlone ==
  ASSUME NEW s, NEW X, Only(s, X)
  PROVE  Alone(s, X)
BY DEF Only, Alone

LEMMA OnlyEmpty ==
  ASSUME NEW X
  PROVE  Only(<<>>, X) /\ Alone(<<>>, X)
BY DEF Only, Alone

\* Taking the head away keeps both; and if it was the one item, nothing else is left.
LEMMA OnlyTail ==
  ASSUME NEW Item, NEW s \in Seq(Item), s # <<>>, NEW X
  PROVE  /\ Only(s, X) => Only(Tail(s), X) /\ Head(s) \in X
         /\ Alone(s, X) => Alone(Tail(s), X)
         /\ Alone(s, X) /\ Head(s) \notin X => Only(Tail(s), X)
<1> DEFINE n == Len(s)
           t == Tail(s)
<1>1. n \in Nat \ {0}
  BY EmptySeq
<1>2. Len(t) = n - 1 /\ \A i \in 1..Len(t) : t[i] = s[i + 1]
  BY HeadTailProperties
<1>3. Head(s) = s[1]
  OBVIOUS
<1> HIDE DEF n, t
<1>4. \A i \in 1..Len(t) : i + 1 \in 1..n /\ i + 1 # 1 /\ t[i] = s[i + 1]
  BY <1>1, <1>2
<1>5. \A i, j \in 1..Len(t) : i + 1 = j + 1 => i = j
  BY <1>1, <1>2
<1>6. 1 \in 1..n
  BY <1>1
<1>7. Only(s, X) => Only(t, X) /\ Head(s) \in X
  BY <1>3, <1>4, <1>6 DEF Only, n
<1>8. Alone(s, X) => Alone(t, X)
  BY <1>4, <1>5 DEF Alone, n
<1>9. Alone(s, X) /\ Head(s) \notin X => Only(t, X)
  BY <1>3, <1>4, <1>6 DEF Alone, Only, n
<1> QED BY <1>7, <1>8, <1>9 DEF t

LEMMA OnlyAppend ==
  ASSUME NEW Item, NEW s \in Seq(Item), NEW e \in Item, NEW X
  PROVE  /\ Only(s, X) /\ e \in X => Only(Append(s, e), X)
         /\ Only(s, X) => Alone(Append(s, e), X)
         /\ Alone(s, X) /\ e \in X => Alone(Append(s, e), X)
<1> DEFINE n == Len(s)
           t == Append(s, e)
<1>1. n \in Nat
  BY LenProperties
<1>2. /\ Len(t) = n + 1
      /\ \A i \in 1..n : t[i] = s[i]
      /\ t[n + 1] = e
  BY AppendProperties
<1> HIDE DEF n, t
<1>3. \A i \in 1..Len(t) : i \in 1..n \/ i = n + 1
  BY <1>1, <1>2
<1>4. Only(s, X) /\ e \in X => Only(t, X)
  BY <1>2, <1>3 DEF Only, n
<1>5. Only(s, X) => Alone(t, X)
  BY <1>2, <1>3 DEF Only, Alone, n
<1>6. Alone(s, X) /\ e \in X => Alone(t, X)
  BY <1>2, <1>3 DEF Alone, n
<1> QED BY <1>4, <1>5, <1>6 DEF t

\* What holds of a concatenation holds of its first part.
LEMMA OnlyFirst ==
  ASSUME NEW Item, NEW s \in Seq(Item), NEW t \in Seq(Item), NEW X
  PROVE  /\ Only(s \o t, X) => Only(s, X)
         /\ Alone(s \o t, X) => Alone(s, X)
<1> DEFINE n == Len(s)
           m == Len(t)
           u == s \o t
<1>1. n \in Nat /\ m \in Nat
  BY LenProperties
<1>2. Len(u) = n + m /\ \A i \in 1..n + m : u[i] = IF i <= n THEN s[i] ELSE t[i - n]
  BY ConcatProperties
<1> HIDE DEF n, m, u
<1>3. \A i \in 1..n : i \in 1..Len(u) /\ u[i] = s[i]
  BY <1>1, <1>2
<1> QED BY <1>3 DEF Only, Alone, n, u

LEMMA TailConcat ==
  ASSUME NEW Item, NEW s \in Seq(Item), NEW t \in Seq(Item), s # <<>>
  PROVE  /\ Tail(s) \o t = Tail(s \o t)
         /\ Head(s) = Head(s \o t)
         /\ s \o t # <<>>
<1> DEFINE h == <<Head(s)>>
           r == Tail(s)
           u == r \o t
<1>1. Head(s) \in Item /\ r \in Seq(Item)
  BY HeadTailProperties
<1>2. h \in Seq(Item)
  BY <1>1
<1>3. s = h \o r
  BY SMT
<1>4. s \o t = h \o u
  BY <1>1, <1>2, <1>3, ConcatAssociative
<1>5. u \in Seq(Item)
  BY <1>1, ConcatProperties
<1> HIDE DEF u
<1>6. Tail(h \o u) = u /\ Head(h \o u) = Head(s) /\ h \o u # <<>>
  BY <1>1, <1>5, SMT
<1> QED BY <1>4, <1>6 DEF u

LEMMA ConcatAppend ==
  ASSUME NEW Item, NEW s \in Seq(Item), NEW t \in Seq(Item), NEW e \in Item
  PROVE  s \o Append(t, e) = Append(s \o t, e)
<1>1. Append(t, e) = t \o <<e>>
  BY AppendIsConcat
<1>2. s \o t \in Seq(Item) /\ <<e>> \in Seq(Item)
  BY ConcatProperties
<1>3. Append(s \o t, e) = (s \o t) \o <<e>>
  BY <1>2, AppendIsConcat
<1>4. (s \o t) \o <<e>> = s \o (t \o <<e>>)
  BY <1>2, ConcatAssociative
<1> QED BY <1>1, <1>3, <1>4

\* Moving the first k items of t behind s changes nothing of the two together.
LEMMA MoveKeeps ==
  ASSUME NEW Item, NEW s \in Seq(Item), NEW t \in Seq(Item), NEW k \in 0..Len(t)
  PROVE  /\ SubSeq(t, 1, k) \in Seq(Item)
         /\ SubSeq(t, k + 1, Len(t)) \in Seq(Item)
         /\ (s \o SubSeq(t, 1, k)) \o SubSeq(t, k + 1, Len(t)) = s \o t
<1> DEFINE n == Len(t)
<1>1. n \in Nat
  BY LenProperties
<1> HIDE DEF n
<1>2. \A i \in 1..n : t[i] \in Item
  BY ElementOfSeq DEF n
<1>3. k \in 0..n
  BY DEF n
<1>4. SubSeq(t, 1, k) \in Seq(Item)
  <2>1. \A i \in 1..k : t[i] \in Item
    BY <1>1, <1>2, <1>3
  <2> QED BY <1>1, <1>3, <2>1, SubSeqProperties
<1>5. SubSeq(t, k + 1, n) \in Seq(Item)
  <2>1. \A i \in k + 1..n : t[i] \in Item
    BY <1>1, <1>2, <1>3
  <2>2. k + 1 \in Int /\ n \in Int
    BY <1>1, <1>3
  <2> QED BY <2>1, <2>2, SubSeqProperties
<1>6. SubSeq(t, 1, k) \o SubSeq(t, k + 1, n) = t
  <2>1. 1 \in 1..Len(t) + 1 /\ k \in (1 - 1)..Len(t) /\ n \in k..Len(t)
    BY <1>1, <1>3 DEF n
  <2>2. SubSeq(t, 1, k) \o SubSeq(t, k + 1, n) = SubSeq(t, 1, n)
    BY <2>1, ConcatAdjacentSubSeq
  <2>3. SubSeq(t, 1, n) = t
    BY SubSeqFull DEF n
  <2> QED BY <2>2, <2>3
<1>7. (s \o SubSeq(t, 1, k)) \o SubSeq(t, k + 1, n) = s \o t
  <2> DEFINE a == SubSeq(t, 1, k)
             b == SubSeq(t, k + 1, n)
  <2> HIDE DEF a, b
  <2>1. a \in Seq(Item) /\ b \in Seq(Item)
    BY <1>4, <1>5 DEF a, b
  <2>2. (s \o a) \o b = s \o (a \o b)
    BY <2>1, ConcatAssociative, SMTT(30)
  <2>3. a \o b = t
    BY <1>6 DEF a, b
  <2> QED BY <2>2, <2>3 DEF a, b
<1> QED BY <1>4, <1>5, <1>7 DEF n

-----------------------------------------------------------------------------
(* The inductive invariant.                                                *)

Pings == {"ping"}
Extras == {"pong", "null"}

\* What the server has sent and the bot has not processed; what the bot means to say
\* and the server has not read.
ToRead == packets \o toBot
ToSay == toServer \o out

\* The answer that can still be unread in a stage of the logon; the request that can
\* still be unserved.
Unread == {a \in Incoming : \/ a = "info" /\ server = "info"
                            \/ a = "check" /\ server = "check"
                            \/ a = "logon" /\ server = "logon"
                            \/ a = "proof" /\ server = "in"
                            \/ a = "enterchat" /\ server = "chat" /\ loggedIn
                            \/ a = "refused" /\ server = "refusing"}
Unserved == {r \in Requests : \/ r = "auth_info" /\ server = "new"
                              \/ r = "auth_check" /\ server = "info"
                              \/ r = "accountlogon" /\ server = "check"
                              \/ r = "logonproof" /\ server = "logon"
                              \/ r = "enter" /\ server = "in" /\ loggedIn}

\* Beside pings, there is at most one answer to read, and it is the server's last.
AnswerInTurn == /\ Only(ToRead, Pings \cup Unread)
                /\ Alone(ToRead, Pings)

\* Beside pongs and null packets, there is at most one request, the one the server
\* waits for, and only while there is no answer to read.
RequestInTurn == link = "up" => /\ Only(ToSay, Extras \cup Unserved)
                                /\ Alone(ToSay, Extras)
                                /\ Only(ToSay, Extras) \/ Only(ToRead, Pings)

\* The bot never believes to be further than the server let it.
NeverAhead == link = "up" => /\ server # "confused"
                             /\ loggedIn => server \in {"in", "chat"}
                             /\ inChat => server = "chat"

\* A connection begins with nothing left of the one before but pings.
BeginsClean == /\ waiting => link = "none" /\ toServer = <<>> /\ toBot = <<>>
               /\ connecting => toServer = <<>> /\ Only(ToRead, Pings)
               /\ connecting /\ link = "up" => server = "new"
               /\ link = "opening" => connecting
               /\ pc # "process" => Only(packets, Pings)
               /\ pc # "idle" => ~waiting /\ ~connecting

Inv == /\ TypeOK
       /\ FlagsAgree
       /\ AnswerInTurn
       /\ RequestInTurn
       /\ NeverAhead
       /\ BeginsClean

LEMMA InitInv == Init => Inv
<1> SUFFICES ASSUME Init PROVE Inv
  OBVIOUS
<1>1. <<>> \o <<>> = <<>>
  BY SMT
<1>2. TypeOK
  <2>1. faults \in 0..MaxFaults
    BY ConnectionAssumption DEF Init
  <2>2. out \in Seq(Requests) /\ packets \in Seq(Incoming) /\ toBot \in Seq(Incoming)
        /\ toServer \in Seq(Requests)
    BY EmptySeq DEF Init
  <2> QED BY <2>1, <2>2 DEF Init, TypeOK, Links, Stages
<1>3. ToRead = <<>> /\ ToSay = <<>>
  BY <1>1 DEF Init, ToRead, ToSay
<1>4. \A X : Only(<<>>, X) /\ Alone(<<>>, X)
  BY OnlyEmpty
<1> QED
  BY <1>2, <1>3, <1>4
  DEF Init, Inv, FlagsAgree, AnswerInTurn, RequestInTurn, NeverAhead, BeginsClean

\* The two concatenations are sequences.
LEMMA Ways ==
  ASSUME TypeOK
  PROVE  ToRead \in Seq(Incoming) /\ ToSay \in Seq(Requests)
BY ConcatProperties DEF TypeOK, ToRead, ToSay

\* With an empty buffer behind it, a way is the buffer before it.
LEMMA EmptyWays ==
  ASSUME TypeOK
  PROVE  /\ toBot = <<>> => ToRead = packets
         /\ toServer = <<>> => ToSay = out
         /\ out = <<>> => ToSay = toServer
<1>1. packets \o <<>> = packets
  BY ConcatEmptySeq DEF TypeOK
<1>2. <<>> \o out = out
  BY ConcatEmptySeq DEF TypeOK
<1>3. toServer \o <<>> = toServer
  BY ConcatEmptySeq DEF TypeOK
<1> QED BY <1>1, <1>2, <1>3 DEF ToRead, ToSay

\* Packets the server has sent that get lost on their way.
LEMMA LosingKeeps ==
  ASSUME TypeOK, AnswerInTurn
  PROVE  /\ Only(packets, Pings \cup Unread) /\ Alone(packets, Pings)
         /\ Only(ToRead, Pings) => Only(packets, Pings)
<1>1. packets \in Seq(Incoming) /\ toBot \in Seq(Incoming)
  BY DEF TypeOK
<1> QED BY <1>1, OnlyFirst DEF AnswerInTurn, ToRead

-----------------------------------------------------------------------------
(* Update without a connection.                                            *)

LEMMA ResetInv ==
  ASSUME Inv, pc = "idle", Reset, waiting' = TRUE, loggedIn' = FALSE, inChat' = FALSE,
         timer' = "before", UNCHANGED <<packets, pc>>
  PROVE  Inv'
<1>1. TypeOK'
  <2>1. faults' \in 0..MaxFaults
    BY ConnectionAssumption DEF Inv, TypeOK, Reset, Fault, NoFault
  <2>2. out' \in Seq(Requests) /\ toBot' \in Seq(Incoming) /\ toServer' \in Seq(Requests)
    BY EmptySeq DEF Reset
  <2>3. {hasError', connecting', connected', waiting', loggedIn', inChat'} \subseteq BOOLEAN
    BY DEF Reset
  <2> QED BY <2>1, <2>2, <2>3 DEF Inv, TypeOK, Reset, Links
<1>2. ToRead' = packets'
  BY <1>1, EmptyWays, ConcatEmptySeq DEF ToRead, Reset, TypeOK
<1>3. Only(packets', Pings)
  BY DEF Inv, BeginsClean
<1>4. Only(packets', Pings \cup Unread') /\ Alone(packets', Pings)
  BY <1>3, OnlyLarger, OnlyIsAlone
<1> QED
  BY <1>1, <1>2, <1>3, <1>4
  DEF Inv, Reset, FlagsAgree, AnswerInTurn, RequestInTurn, NeverAhead, BeginsClean

LEMMA GiveUpInv == Inv /\ GiveUp => Inv'
BY ResetInv DEF GiveUp

LEMMA ConnectTimesOutInv == Inv /\ ConnectTimesOut => Inv'
<1> SUFFICES ASSUME Inv, ConnectTimesOut PROVE Inv'
  OBVIOUS
<1>1. loggedIn = FALSE /\ inChat = FALSE
  BY DEF Inv, ConnectTimesOut, FlagsAgree, TypeOK
<1> QED BY <1>1, ResetInv DEF ConnectTimesOut

LEMMA StartConnectingInv == Inv /\ StartConnecting => Inv'
<1> SUFFICES ASSUME Inv, StartConnecting PROVE Inv'
  OBVIOUS
<1> USE DEF Inv, StartConnecting
<1>1. TypeOK'
  <2>1. faults' \in 0..MaxFaults
    BY ConnectionAssumption DEF TypeOK, Fault, NoFault
  <2> QED BY <2>1 DEF TypeOK, Links
<1>2. ToRead' = ToRead /\ ToSay' = ToSay /\ Unread' = Unread /\ Unserved' = Unserved
  BY DEF ToRead, ToSay, Unread, Unserved
<1>3. toBot = <<>> /\ toServer = <<>> /\ link = "none" /\ ~loggedIn /\ ~inChat /\ out = <<>>
  BY DEF BeginsClean, FlagsAgree
<1>4. Only(packets, Pings) /\ ToRead = packets
  BY <1>3, EmptyWays DEF BeginsClean
<1>5. FlagsAgree'
  BY <1>3 DEF FlagsAgree
<1>6. link' # "up"
  BY <1>3
<1>7. AnswerInTurn' /\ RequestInTurn' /\ NeverAhead'
  BY <1>2, <1>6 DEF AnswerInTurn, RequestInTurn, NeverAhead
<1>8. BeginsClean'
  BY <1>2, <1>3, <1>4 DEF BeginsClean
<1> QED BY <1>1, <1>5, <1>7, <1>8

LEMMA ConnectedInv == Inv /\ Connected => Inv'
<1> SUFFICES ASSUME Inv, Connected PROVE Inv'
  OBVIOUS
<1> USE DEF Inv, Connected
<1>1. out = <<>> /\ toServer = <<>> /\ ~waiting /\ ~loggedIn /\ ~inChat /\ Only(ToRead, Pings)
  BY DEF FlagsAgree, BeginsClean
<1>2. out' = <<"auth_info">>
  BY <1>1
<1>3. TypeOK'
  <2>1. "auth_info" \in Requests
    BY DEF Requests
  <2>2. out' \in Seq(Requests)
    <3>1. \A r \in Requests : <<r>> \in Seq(Requests)
      OBVIOUS
    <3> QED BY <1>2, <2>1, <3>1, Zenon
  <2>3. {hasError, connecting', connected', waiting, loggedIn, inChat} \subseteq BOOLEAN
    BY DEF TypeOK
  <2> QED BY <2>2, <2>3 DEF TypeOK, world
<1>4. ToRead' = ToRead /\ Unread' = Unread /\ Unserved' = Unserved
  BY DEF ToRead, Unread, Unserved, world
<1>5. ToSay' = <<"auth_info">>
  BY <1>1, <1>2, <1>3, EmptyWays DEF ToSay, world
<1>6. link = "up" => "auth_info" \in Unserved
  BY DEF BeginsClean, Unserved, Requests
<1>7. RequestInTurn'
  <2>1. link = "up" => Only(<<"auth_info">>, Extras \cup Unserved)
    BY <1>6 DEF Only
  <2>2. Alone(<<"auth_info">>, Extras)
    BY DEF Alone
  <2> QED BY <1>1, <1>4, <1>5, <2>1, <2>2 DEF RequestInTurn, world
<1>8. AnswerInTurn' /\ NeverAhead' /\ FlagsAgree'
  BY <1>1, <1>4 DEF AnswerInTurn, NeverAhead, FlagsAgree, BeginsClean, world
<1>9. BeginsClean'
  BY <1>1 DEF BeginsClean, world
<1> QED BY <1>3, <1>7, <1>8, <1>9

-----------------------------------------------------------------------------
(* Update with a connection.                                               *)

\* Steps that touch neither the ways nor the server keep what is said of them.
LEMMA WaysUnchanged ==
  ASSUME Inv, UNCHANGED <<packets, toBot, toServer, out, server, link, loggedIn, inChat>>
  PROVE  /\ AnswerInTurn' /\ RequestInTurn' /\ NeverAhead'
         /\ ToRead' = ToRead
<1>1. ToRead' = ToRead /\ ToSay' = ToSay /\ Unread' = Unread /\ Unserved' = Unserved
  BY DEF ToRead, ToSay, Unread, Unserved
<1> QED BY <1>1 DEF Inv, AnswerInTurn, RequestInTurn, NeverAhead

LEMMA ReceiveInv ==
  ASSUME Inv, NEW k \in 0..Len(toBot), Receive(k)
  PROVE  Inv'
<1> USE DEF Inv, Receive
<1>1. packets \in Seq(Incoming) /\ toBot \in Seq(Incoming)
  BY DEF TypeOK
<1>2. SubSeq(toBot, 1, k) \in Seq(Incoming) /\ toBot' \in Seq(Incoming) /\ ToRead' = ToRead
  BY <1>1, MoveKeeps, ZenonT(60) DEF ToRead
<1>3. packets' \in Seq(Incoming)
  BY <1>1, <1>2, ConcatProperties
<1>4. TypeOK'
  BY <1>2, <1>3 DEF TypeOK
<1>5. ToSay' = ToSay /\ Unread' = Unread /\ Unserved' = Unserved
  BY DEF ToSay, Unread, Unserved
<1>6. AnswerInTurn' /\ RequestInTurn' /\ NeverAhead' /\ FlagsAgree'
  BY <1>2, <1>5 DEF AnswerInTurn, RequestInTurn, NeverAhead, FlagsAgree
<1>7. BeginsClean'
  BY <1>2 DEF BeginsClean, FlagsAgree
<1> QED BY <1>4, <1>6, <1>7

LEMMA ReceiveEndInv == Inv /\ ReceiveEnd => Inv'
<1> SUFFICES ASSUME Inv, ReceiveEnd PROVE Inv'
  OBVIOUS
<1> USE DEF Inv, ReceiveEnd, world
<1>1. TypeOK'
  BY DEF TypeOK
<1>2. AnswerInTurn' /\ RequestInTurn' /\ NeverAhead' /\ ToRead' = ToRead
  BY WaysUnchanged
<1>3. FlagsAgree' /\ BeginsClean'
  BY <1>2 DEF FlagsAgree, BeginsClean
<1> QED BY <1>1, <1>2, <1>3

\* What the bot says to a packet in turn is the request in turn.
LEMMA ReplyInTurn ==
  ASSUME NEW p \in Incoming
  PROVE  \/ Reply(p) = <<>>
         \/ \E r \in Requests : /\ Reply(p) = <<r>>
                                /\ p = "ping" => r = "pong"
                                /\ p # "ping" => /\ p \in Unread /\ p # "proof" => r \in Unserved
                                                 /\ p = "proof" => r = "enter"
BY DEF Incoming, Answers, Requests, Reply, Unread, Unserved

LEMMA ProcessPacketInv == Inv /\ ProcessPacket => Inv'
<1> SUFFICES ASSUME Inv, ProcessPacket PROVE Inv'
  OBVIOUS
<1> USE DEF Inv, ProcessPacket
<1> DEFINE p == Head(packets)
<1>1. /\ packets \in Seq(Incoming) /\ packets # <<>> /\ toBot \in Seq(Incoming)
      /\ out \in Seq(Requests) /\ toServer \in Seq(Requests)
  BY DEF TypeOK
<1>2. p \in Incoming /\ packets' \in Seq(Incoming)
  BY <1>1, HeadTailProperties
<1>3. ToRead' = Tail(ToRead) /\ p = Head(ToRead) /\ ToRead # <<>> /\ ToRead \in Seq(Incoming)
  <2>1. Tail(packets) \o toBot = Tail(packets \o toBot)
        /\ Head(packets) = Head(packets \o toBot) /\ packets \o toBot # <<>>
    BY <1>1, TailConcat
  <2> QED BY <2>1, Ways DEF ToRead, world
<1>4. ~waiting /\ ~connecting
  BY DEF BeginsClean
<1>5. p # "ping" => p \in Unread
  BY <1>3, OnlyTail DEF AnswerInTurn, Pings
<1>6. p \notin Pings => Only(Tail(ToRead), Pings)
  BY <1>3, OnlyTail DEF AnswerInTurn
<1>7. Only(ToRead', Pings \cup Unread)
  BY <1>3, OnlyTail DEF AnswerInTurn
<1>8. Unread \subseteq Unread' /\ Unserved \subseteq Unserved'
  BY DEF Unread, Unserved, world
<1>9. AnswerInTurn'
  <2>1. Only(ToRead', Pings \cup Unread')
    BY <1>7, <1>8, OnlyLarger
  <2>2. Alone(ToRead', Pings)
    BY <1>3, OnlyTail DEF AnswerInTurn
  <2> QED BY <2>1, <2>2 DEF AnswerInTurn
<1>10. p = "proof" => server = "in"
  BY <1>5 DEF Unread
<1>11. p = "enterchat" => server = "chat" /\ loggedIn
  BY <1>5 DEF Unread
<1>12. NeverAhead' /\ FlagsAgree'
  BY <1>4, <1>10, <1>11 DEF NeverAhead, FlagsAgree, TypeOK, world
<1>13. BeginsClean'
  BY <1>4 DEF BeginsClean, world
<1>14. out' = out \/ \E r \in Requests : /\ out' = Append(out, r)
                                         /\ p = "ping" => r = "pong"
                                         /\ p # "ping" => r \in Unserved'
  <2>1. CASE Reply(p) = <<>>
    BY <1>1, <2>1, ConcatEmptySeq
  <2>2. CASE Reply(p) # <<>>
    <3>1. PICK r \in Requests : /\ Reply(p) = <<r>>
                                /\ p = "ping" => r = "pong"
                                /\ p # "ping" => /\ p \in Unread /\ p # "proof" => r \in Unserved
                                                 /\ p = "proof" => r = "enter"
      BY <1>2, <2>2, ReplyInTurn
    <3>2. out' = Append(out, r)
      <4>1. Append(out, r) = out \o <<r>>
        BY <1>1, AppendIsConcat
      <4>2. out' = out \o Reply(p)
        BY DEF p
      <4> QED BY <3>1, <4>1, <4>2, Zenon
    <3>3. p # "ping" => r \in Unserved'
      <4>1. CASE p = "proof"
        <5>1. r = "enter" /\ server' = "in" /\ loggedIn' = TRUE
          BY <1>10, <3>1, <4>1 DEF TypeOK, world
        <5> QED BY <5>1 DEF Unserved, Requests
      <4>2. CASE p # "proof"
        BY <1>5, <1>8, <3>1, <4>2
      <4> QED BY <4>1, <4>2
    <3> QED BY <3>1, <3>2, <3>3
  <2> QED BY <2>1, <2>2
<1>15. out' \in Seq(Requests)
  <2>1. \A r \in Requests : Append(out, r) \in Seq(Requests)
    BY <1>1, AppendProperties
  <2> QED BY <1>1, <1>14, <2>1, Zenon
<1>16. TypeOK'
  <2>1. loggedIn' \in BOOLEAN /\ inChat' \in BOOLEAN
    BY DEF TypeOK
  <2> QED BY <1>2, <1>15, <2>1 DEF TypeOK, world
<1>17. RequestInTurn'
  <2> SUFFICES ASSUME link = "up"
               PROVE  /\ Only(ToSay', Extras \cup Unserved') /\ Alone(ToSay', Extras)
                      /\ Only(ToSay', Extras) \/ Only(ToRead', Pings)
    BY DEF RequestInTurn, world
  <2>1. /\ Only(ToSay, Extras \cup Unserved) /\ Alone(ToSay, Extras)
        /\ Only(ToSay, Extras) \/ Only(ToRead, Pings)
    BY DEF RequestInTurn
  <2>2. Only(ToRead, Pings) => Only(ToRead', Pings) /\ p \in Pings
    BY <1>3, OnlyTail
  <2>3. Only(ToSay, Extras \cup Unserved')
    BY <1>8, <2>1, OnlyLarger
  <2>4. CASE out' = out
    <3>1. ToSay' = ToSay
      BY <2>4 DEF ToSay, world
    <3> QED BY <2>1, <2>2, <2>3, <3>1
  <2>5. ASSUME NEW r \in Requests, out' = Append(out, r), p = "ping" => r = "pong",
               p # "ping" => r \in Unserved'
        PROVE  /\ Only(ToSay', Extras \cup Unserved') /\ Alone(ToSay', Extras)
               /\ Only(ToSay', Extras) \/ Only(ToRead', Pings)
    <3>1. ToSay' = Append(ToSay, r) /\ ToSay \in Seq(Requests)
      BY <1>1, <2>5, ConcatAppend, Ways, SMTT(30) DEF ToSay, world
    <3>2. r \in Extras \cup Unserved'
      BY <2>5 DEF Extras
    <3>3. Only(ToSay', Extras \cup Unserved')
      BY <2>3, <3>1, <3>2, OnlyAppend
    <3>4. CASE p = "ping"
      <4>1. r \in Extras
        BY <2>5, <3>4 DEF Extras
      <4>2. Alone(ToSay', Extras) /\ (Only(ToSay, Extras) => Only(ToSay', Extras))
        BY <2>1, <3>1, <4>1, OnlyAppend
      <4> QED BY <2>1, <2>2, <3>3, <4>2
    <3>5. CASE p # "ping"
      <4>1. p \notin Pings
        BY <3>5 DEF Pings
      <4>2. Only(ToSay, Extras) /\ Only(ToRead', Pings)
        BY <1>3, <1>6, <2>1, <2>2, <4>1
      <4>3. Alone(ToSay', Extras)
        BY <3>1, <4>2, OnlyAppend
      <4> QED BY <3>3, <4>2, <4>3
    <3> QED BY <3>4, <3>5
  <2>6. CASE out' # out
    <3>1. PICK r \in Requests : /\ out' = Append(out, r)
                                /\ p = "ping" => r = "pong"
                                /\ p # "ping" => r \in Unserved'
      BY <1>14, <2>6
    <3> QED BY <2>5, <3>1, Zenon
  <2> QED BY <2>4, <2>6
<1> QED BY <1>9, <1>12, <1>13, <1>16, <1>17

LEMMA DisconnectInv == Inv /\ Disconnect => Inv'
<1> SUFFICES ASSUME Inv, Disconnect PROVE Inv'
  OBVIOUS
<1> USE DEF Inv, Disconnect
<1>1. /\ packets \in Seq(Incoming) /\ packets # <<>> /\ toBot \in Seq(Incoming)
      /\ packets' \in Seq(Incoming)
  BY HeadTailProperties DEF TypeOK
<1>2. TypeOK'
  <2>1. faults' \in 0..MaxFaults
    BY ConnectionAssumption DEF TypeOK, Fault, NoFault
  <2> QED BY <1>1, <2>1 DEF TypeOK, world
<1>3. Tail(packets) \o toBot = Tail(packets \o toBot)
      /\ Head(packets) = Head(packets \o toBot) /\ packets \o toBot # <<>>
  BY <1>1, TailConcat
<1>4. /\ ToRead' = Tail(ToRead) /\ Head(packets) = Head(ToRead)
      /\ ToRead # <<>> /\ ToRead \in Seq(Incoming)
  BY <1>3, Ways DEF ToRead, world
<1>5. Head(packets) \notin Pings
  BY DEF Pings
<1>6. Only(ToRead', Pings)
  BY <1>4, <1>5, OnlyTail DEF AnswerInTurn
<1>7. AnswerInTurn'
  BY <1>6, OnlyLarger, OnlyIsAlone DEF AnswerInTurn
<1>8. ToSay' = ToSay /\ Unserved' = Unserved
  BY DEF ToSay, Unserved, world
<1>9. RequestInTurn' /\ NeverAhead' /\ FlagsAgree'
  BY <1>6, <1>8 DEF RequestInTurn, NeverAhead, FlagsAgree, world
<1>10. Only(packets', Pings)
  BY <1>1, <1>6, OnlyFirst DEF ToRead, world
<1>11. BeginsClean'
  BY <1>10 DEF BeginsClean, world
<1> QED BY <1>2, <1>7, <1>9, <1>11

LEMMA AllProcessedInv == Inv /\ AllProcessed => Inv'
<1> SUFFICES ASSUME Inv, AllProcessed PROVE Inv'
  OBVIOUS
<1> USE DEF Inv, AllProcessed, world
<1>1. AnswerInTurn' /\ RequestInTurn' /\ NeverAhead' /\ ToRead' = ToRead
  BY WaysUnchanged
<1>2. Only(packets', Pings)
  BY OnlyEmpty
<1> QED BY <1>1, <1>2 DEF TypeOK, FlagsAgree, BeginsClean

LEMMA SendNothingInv == Inv /\ (SendNothing \/ SendFails) => Inv'
<1> SUFFICES ASSUME Inv, SendNothing \/ SendFails PROVE Inv'
  OBVIOUS
<1> USE DEF Inv, SendNothing, SendFails, world
<1>1. AnswerInTurn' /\ RequestInTurn' /\ NeverAhead' /\ ToRead' = ToRead
  BY WaysUnchanged
<1>2. TypeOK'
  BY DEF TypeOK
<1> QED BY <1>1, <1>2 DEF FlagsAgree, BeginsClean

LEMMA SendInv ==
  ASSUME Inv, NEW null \in BOOLEAN, Send(null)
  PROVE  Inv'
<1> USE DEF Inv, Send
<1>1. out \in Seq(Requests) /\ toServer \in Seq(Requests)
  BY DEF TypeOK
<1>2. ~waiting /\ ~connecting
  BY DEF BeginsClean
<1>3. toServer' \in Seq(Requests)
  <2>1. toServer \o out \in Seq(Requests)
    BY <1>1, ConcatProperties
  <2>2. <<"null">> \in Seq(Requests)
    <3>1. \A r \in Requests : <<r>> \in Seq(Requests)
      OBVIOUS
    <3>2. "null" \in Requests
      BY DEF Requests
    <3> QED BY <3>1, <3>2, Zenon
  <2> QED BY <2>1, <2>2
<1>4. TypeOK'
  BY <1>3, EmptySeq DEF TypeOK
<1>5. ToSay' = toServer'
  BY <1>4, EmptyWays DEF ToSay
<1>6. ToRead' = ToRead /\ Unread' = Unread /\ Unserved' = Unserved
  BY DEF ToRead, Unread, Unserved
<1>7. CASE ~null
  <2>1. ToSay' = ToSay
    BY <1>5, <1>7 DEF ToSay
  <2> QED BY <1>2, <1>4, <1>6, <2>1
          DEF AnswerInTurn, RequestInTurn, NeverAhead, FlagsAgree, BeginsClean
<1>8. CASE null
  <2>1. ToSay' = <<"null">>
    BY <1>5, <1>8
  <2>2. /\ Only(<<"null">>, Extras \cup Unserved) /\ Only(<<"null">>, Extras)
        /\ Alone(<<"null">>, Extras)
    BY DEF Only, Alone, Extras
  <2> QED BY <1>2, <1>4, <1>6, <2>1, <2>2
          DEF AnswerInTurn, RequestInTurn, NeverAhead, FlagsAgree, BeginsClean
<1> QED BY <1>7, <1>8

-----------------------------------------------------------------------------
(* The clock, the network and the server.                                  *)

LEMMA TimePassesInv == Inv /\ TimePasses => Inv'
<1> SUFFICES ASSUME Inv, TimePasses PROVE Inv'
  OBVIOUS
<1> USE DEF Inv, TimePasses, world
<1>1. faults' \in 0..MaxFaults
  BY ConnectionAssumption DEF TypeOK, Fault, NoFault
<1>2. AnswerInTurn' /\ RequestInTurn' /\ NeverAhead' /\ ToRead' = ToRead
  BY WaysUnchanged
<1> QED BY <1>1, <1>2 DEF TypeOK, FlagsAgree, BeginsClean

LEMMA AcceptInv == Inv /\ Accept => Inv'
<1> SUFFICES ASSUME Inv, Accept PROVE Inv'
  OBVIOUS
<1> USE DEF Inv, Accept, bot
<1>1. TypeOK'
  BY DEF TypeOK, Links, Stages
<1>2. connecting /\ ~waiting /\ ~loggedIn /\ ~inChat /\ toServer = <<>> /\ out = <<>>
      /\ Only(ToRead, Pings)
  BY DEF BeginsClean, FlagsAgree, TypeOK
<1>3. ToRead' = ToRead
  BY DEF ToRead
<1>4. ToSay' = <<>>
  BY <1>1, <1>2, EmptyWays DEF ToSay
<1>5. AnswerInTurn'
  BY <1>2, <1>3, OnlyLarger, OnlyIsAlone DEF AnswerInTurn
<1>6. RequestInTurn'
  <2>1. Only(<<>>, Extras \cup Unserved') /\ Alone(<<>>, Extras)
    BY OnlyEmpty
  <2> QED BY <1>2, <1>3, <1>4, <2>1 DEF RequestInTurn
<1>7. NeverAhead' /\ FlagsAgree' /\ BeginsClean'
  BY <1>2, <1>3 DEF NeverAhead, FlagsAgree, BeginsClean
<1> QED BY <1>1, <1>5, <1>6, <1>7

LEMMA LoseLinkInv == Inv /\ (LoseLink \/ GiveUpResending) => Inv'
<1> SUFFICES ASSUME Inv, LoseLink \/ GiveUpResending PROVE Inv'
  OBVIOUS
<1> USE DEF Inv, LoseLink, GiveUpResending, bot
<1>1. TypeOK'
  <2>1. faults' \in 0..MaxFaults
    BY ConnectionAssumption DEF TypeOK, Fault
  <2>2. toBot' \in Seq(Incoming)
    BY EmptySeq DEF TypeOK
  <2> QED BY <2>1, <2>2 DEF TypeOK, Links
<1>2. link' \notin {"up", "opening"} /\ link # "none"
  OBVIOUS
<1>3. ToRead' = ToRead \/ ToRead' = packets
  <2>1. CASE toBot' = <<>>
    BY <1>1, <2>1, EmptyWays DEF ToRead
  <2>2. CASE toBot' = toBot
    BY <2>2 DEF ToRead
  <2> QED BY <2>1, <2>2
<1>4. Unread' = Unread
  BY DEF Unread
<1>5. AnswerInTurn' /\ (Only(ToRead, Pings) => Only(ToRead', Pings))
  BY <1>3, <1>4, LosingKeeps DEF AnswerInTurn
<1>6. RequestInTurn' /\ NeverAhead' /\ FlagsAgree'
  BY <1>2 DEF RequestInTurn, NeverAhead, FlagsAgree
<1>7. BeginsClean'
  BY <1>2, <1>5 DEF BeginsClean
<1> QED BY <1>1, <1>5, <1>6, <1>7

\* The server's part of the logon, stage by stage.
LEMMA Logon ==
  /\ DOMAIN Expected = {"new", "info", "check", "logon", "in"}
  /\ Expected["new"] = "auth_info" /\ Expected["info"] = "auth_check"
  /\ Expected["check"] = "accountlogon" /\ Expected["logon"] = "logonproof"
  /\ Expected["in"] = "enter"
  /\ Answer["new"] = "info" /\ Answer["info"] = "check" /\ Answer["check"] = "logon"
  /\ Answer["logon"] = "proof" /\ Answer["in"] = "enterchat"
  /\ NextStage["new"] = "info" /\ NextStage["info"] = "check"
  /\ NextStage["check"] = "logon" /\ NextStage["logon"] = "in" /\ NextStage["in"] = "chat"
BY DEF Expected, Answer, NextStage

\* A request at the head of the way to the server, while the connection lasts: it is
\* the one expected, nothing is left to read but pings, and nothing to serve but extras.
LEMMA Requested ==
  ASSUME Inv, link = "up", Asked
  PROVE  /\ Head(toServer) \in Unserved /\ Understood
         /\ Only(ToRead, Pings)
         /\ Only(Tail(ToSay), Extras)
<1>1. toServer \in Seq(Requests) /\ out \in Seq(Requests) /\ toServer # <<>>
  BY DEF Inv, TypeOK, Asked
<1>2. Head(toServer) = Head(toServer \o out) /\ toServer \o out # <<>>
  BY <1>1, TailConcat
<1>3. Head(ToSay) = Head(toServer) /\ ToSay # <<>> /\ ToSay \in Seq(Requests)
  BY <1>2, Ways DEF ToSay, Inv
<1>4. Head(ToSay) \notin Extras
  BY <1>3 DEF Asked, Extras
<1>5. /\ Only(ToSay, Extras \cup Unserved) /\ Alone(ToSay, Extras)
      /\ Only(ToSay, Extras) \/ Only(ToRead, Pings)
  BY DEF Inv, RequestInTurn
<1>6. Head(ToSay) \in Unserved
  BY <1>3, <1>4, <1>5, OnlyTail
<1>7. Only(ToRead, Pings) /\ Only(Tail(ToSay), Extras)
  BY <1>3, <1>4, <1>5, OnlyTail
<1>8. Understood
  BY <1>3, <1>6, Logon DEF Unserved, Understood
<1> QED BY <1>3, <1>6, <1>7, <1>8

\* The server takes a packet and answers it: what is to be said and read then.
LEMMA ServedWays ==
  ASSUME Inv, link = "up", toServer # <<>>, toServer' = Tail(toServer), UNCHANGED bot
  PROVE  /\ toServer' \in Seq(Requests)
         /\ ToSay' = Tail(ToSay) /\ ToSay # <<>> /\ ToSay \in Seq(Requests)
         /\ ~connecting /\ ~waiting
<1>1. toServer \in Seq(Requests) /\ out \in Seq(Requests)
  BY DEF Inv, TypeOK
<1>2. toServer' \in Seq(Requests)
  BY <1>1, HeadTailProperties
<1>3. Tail(toServer) \o out = Tail(toServer \o out) /\ toServer \o out # <<>>
  BY <1>1, TailConcat
<1>4. ~connecting /\ ~waiting
  BY DEF Inv, BeginsClean
<1> QED BY <1>2, <1>3, <1>4, Ways DEF ToSay, bot, Inv

\* An answer is sent when there is nothing to read but pings.
LEMMA AnsweredWays ==
  ASSUME TypeOK, NEW a \in Incoming, toBot' = Append(toBot, a), packets' = packets,
         Only(ToRead, Pings)
  PROVE  /\ toBot' \in Seq(Incoming)
         /\ a \in Unread' => AnswerInTurn'
<1>1. packets \in Seq(Incoming) /\ toBot \in Seq(Incoming)
  BY DEF TypeOK
<1>2. toBot' \in Seq(Incoming)
  BY <1>1, AppendProperties
<1>3. packets \o Append(toBot, a) = Append(packets \o toBot, a)
  BY <1>1, ConcatAppend
<1>4. ToRead' = Append(ToRead, a) /\ ToRead \in Seq(Incoming)
  BY <1>3, Ways DEF ToRead
<1>5. Alone(ToRead', Pings)
  BY <1>4, OnlyAppend
<1>6. Only(ToRead, Pings \cup Unread')
  BY OnlyLarger
<1>7. a \in Unread' => Only(ToRead', Pings \cup Unread')
  BY <1>4, <1>6, OnlyAppend
<1> QED BY <1>2, <1>5, <1>7 DEF AnswerInTurn

LEMMA ServeInv == Inv /\ Serve => Inv'
<1> SUFFICES ASSUME Inv, Serve PROVE Inv'
  OBVIOUS
<1>1. link = "up" /\ toServer # <<>> /\ toServer' = Tail(toServer) /\ UNCHANGED <<bot, link, faults>>
  BY DEF Serve
<1>2. /\ toServer' \in Seq(Requests) /\ ToSay' = Tail(ToSay)
      /\ ToSay # <<>> /\ ToSay \in Seq(Requests) /\ ~connecting /\ ~waiting
  BY <1>1, ServedWays DEF bot
<1>3. FlagsAgree'
  BY <1>1 DEF Inv, FlagsAgree, bot
<1>4. CASE ~Asked
  <2>1. UNCHANGED <<server, toBot>>
    BY <1>4 DEF Serve
  <2>2. ToRead' = ToRead /\ Unread' = Unread /\ Unserved' = Unserved
    BY <1>1, <2>1 DEF ToRead, Unread, Unserved, bot
  <2>3. TypeOK'
    BY <1>1, <1>2, <2>1 DEF Inv, TypeOK, bot
  <2>4. AnswerInTurn' /\ NeverAhead' /\ BeginsClean'
    BY <1>1, <1>2, <2>1, <2>2 DEF Inv, AnswerInTurn, NeverAhead, BeginsClean, bot
  <2>5. /\ Only(ToSay, Extras \cup Unserved) /\ Alone(ToSay, Extras)
        /\ Only(ToSay, Extras) \/ Only(ToRead, Pings)
    BY <1>1 DEF Inv, RequestInTurn
  <2>6. /\ Only(Tail(ToSay), Extras \cup Unserved) /\ Alone(Tail(ToSay), Extras)
        /\ Only(ToSay, Extras) => Only(Tail(ToSay), Extras)
    BY <1>2, <2>5, OnlyTail
  <2>7. RequestInTurn'
    BY <1>2, <2>2, <2>5, <2>6 DEF RequestInTurn
  <2> QED BY <1>3, <2>3, <2>4, <2>7 DEF Inv
<1>5. CASE Asked
  <2>1. Head(toServer) \in Unserved /\ Understood /\ Only(ToRead, Pings) /\ Only(ToSay', Extras)
    BY <1>1, <1>2, <1>5, Requested
  <2>2. server' = NextStage[server] /\ toBot' = Append(toBot, Answer[server])
    BY <1>5, <2>1 DEF Serve
  <2>3. server \in {"new", "info", "check", "logon", "in"}
    BY <2>1, Logon DEF Understood
  <2>4. server = "in" => loggedIn
    BY <2>1, Logon DEF Unserved, Understood
  <2>5. ~inChat /\ (loggedIn => server = "in")
    BY <1>1, <2>3 DEF Inv, NeverAhead
  <2>6. Answer[server] \in Unread' /\ Answer[server] \in Incoming
    BY <1>1, <2>2, <2>3, <2>4, Logon DEF Unread, Incoming, Answers, bot
  <2>7. toBot' \in Seq(Incoming) /\ AnswerInTurn'
    BY <1>1, <2>1, <2>2, <2>6, AnsweredWays DEF Inv, bot
  <2>8. TypeOK'
    <3>1. server' \in Stages
      BY <2>2, <2>3, Logon DEF Stages
    <3> QED BY <1>1, <1>2, <2>7, <3>1 DEF Inv, TypeOK, bot
  <2>9. RequestInTurn'
    <3>1. Only(ToSay', Extras \cup Unserved') /\ Alone(ToSay', Extras)
      BY <2>1, OnlyLarger, OnlyIsAlone
    <3> QED BY <2>1, <3>1 DEF RequestInTurn
  <2>10. NeverAhead'
    BY <1>1, <2>2, <2>3, <2>5, Logon DEF NeverAhead, bot
  <2>11. BeginsClean'
    BY <1>1, <1>2 DEF Inv, BeginsClean, bot
  <2> QED BY <1>3, <2>7, <2>8, <2>9, <2>10, <2>11 DEF Inv
<1> QED BY <1>4, <1>5

LEMMA RefuseInv == Inv /\ Refuse => Inv'
<1> SUFFICES ASSUME Inv, Refuse PROVE Inv'
  OBVIOUS
<1>1. /\ link = "up" /\ Asked /\ toServer # <<>> /\ toServer' = Tail(toServer)
      /\ server \in {"info", "check", "logon"} /\ server' = "refusing"
      /\ toBot' = Append(toBot, "refused") /\ UNCHANGED <<bot, link>>
  BY DEF Refuse, Asked
<1>2. /\ toServer' \in Seq(Requests) /\ ToSay' = Tail(ToSay) /\ ~connecting /\ ~waiting
  BY <1>1, ServedWays
<1>3. Only(ToRead, Pings) /\ Only(ToSay', Extras)
  BY <1>1, <1>2, Requested
<1>4. "refused" \in Unread' /\ "refused" \in Incoming
  BY <1>1 DEF Unread, Incoming
<1>5. toBot' \in Seq(Incoming) /\ AnswerInTurn'
  BY <1>1, <1>3, <1>4, AnsweredWays DEF Inv, bot
<1>6. TypeOK'
  <2>1. faults' \in 0..MaxFaults
    BY ConnectionAssumption DEF Refuse, Fault, Inv, TypeOK
  <2> QED BY <1>1, <1>2, <1>5, <2>1 DEF Inv, TypeOK, bot, Stages
<1>7. RequestInTurn'
  <2>1. Only(ToSay', Extras \cup Unserved') /\ Alone(ToSay', Extras)
    BY <1>3, OnlyLarger, OnlyIsAlone
  <2> QED BY <1>3, <2>1 DEF RequestInTurn
<1>8. ~loggedIn /\ ~inChat
  BY <1>1 DEF Inv, NeverAhead
<1>9. NeverAhead' /\ FlagsAgree' /\ BeginsClean'
  BY <1>1, <1>2, <1>8 DEF Inv, NeverAhead, FlagsAgree, BeginsClean, bot
<1> QED BY <1>5, <1>6, <1>7, <1>9 DEF Inv

LEMMA PingInv == Inv /\ Ping => Inv'
<1> SUFFICES ASSUME Inv, Ping PROVE Inv'
  OBVIOUS
<1>1. link = "up" /\ toBot' = Append(toBot, "ping") /\ UNCHANGED <<bot, link, server, toServer, faults>>
  BY DEF Ping
<1>2. packets \in Seq(Incoming) /\ toBot \in Seq(Incoming) /\ "ping" \in Incoming
  BY DEF Inv, TypeOK, Incoming
<1>3. toBot' \in Seq(Incoming)
  BY <1>1, <1>2, AppendProperties
<1>4. packets \o Append(toBot, "ping") = Append(packets \o toBot, "ping")
  BY <1>2, ConcatAppend
<1>5. ToRead' = Append(ToRead, "ping") /\ ToRead \in Seq(Incoming)
  BY <1>1, <1>4, Ways DEF ToRead, bot, Inv
<1>6. "ping" \in Pings /\ "ping" \in Pings \cup Unread
  BY DEF Pings
<1>7. Only(ToRead', Pings \cup Unread)
  BY <1>2, <1>5, <1>6, OnlyAppend DEF Inv, AnswerInTurn
<1>8. Alone(ToRead', Pings) /\ (Only(ToRead, Pings) => Only(ToRead', Pings))
  BY <1>2, <1>5, <1>6, OnlyAppend DEF Inv, AnswerInTurn
<1>9. ToSay' = ToSay /\ Unread' = Unread /\ Unserved' = Unserved
  BY <1>1 DEF ToSay, Unread, Unserved, bot
<1>10. AnswerInTurn' /\ RequestInTurn'
  BY <1>1, <1>7, <1>8, <1>9 DEF Inv, AnswerInTurn, RequestInTurn
<1>11. NeverAhead' /\ FlagsAgree' /\ BeginsClean'
  BY <1>1, <1>8 DEF Inv, NeverAhead, FlagsAgree, BeginsClean, bot
<1>12. TypeOK'
  BY <1>1, <1>3 DEF Inv, TypeOK, bot
<1> QED BY <1>10, <1>11, <1>12 DEF Inv

-----------------------------------------------------------------------------
(* The theorems.                                                           *)

LEMMA NextInv == Inv /\ [Next]_vars => Inv'
<1> SUFFICES ASSUME Inv, [Next]_vars PROVE Inv'
  OBVIOUS
<1>1. CASE GiveUp
  BY <1>1, GiveUpInv
<1>2. CASE StartConnecting
  BY <1>2, StartConnectingInv
<1>3. CASE Connected
  BY <1>3, ConnectedInv
<1>4. CASE ConnectTimesOut
  BY <1>4, ConnectTimesOutInv
<1>5. CASE \E k \in 0..Len(toBot) : Receive(k)
  BY <1>5, ReceiveInv
<1>6. CASE ReceiveEnd
  BY <1>6, ReceiveEndInv
<1>7. CASE ProcessPacket
  BY <1>7, ProcessPacketInv
<1>8. CASE Disconnect
  BY <1>8, DisconnectInv
<1>9. CASE AllProcessed
  BY <1>9, AllProcessedInv
<1>10. CASE SendNothing \/ SendFails
  BY <1>10, SendNothingInv
<1>11. CASE \E null \in BOOLEAN : Send(null)
  BY <1>11, SendInv
<1>12. CASE TimePasses
  BY <1>12, TimePassesInv
<1>13. CASE Accept
  BY <1>13, AcceptInv
<1>14. CASE LoseLink \/ GiveUpResending
  BY <1>14, LoseLinkInv
<1>15. CASE Serve
  BY <1>15, ServeInv
<1>16. CASE Refuse
  BY <1>16, RefuseInv
<1>17. CASE Ping
  BY <1>17, PingInv
<1>18. CASE UNCHANGED vars
  <2>1. AnswerInTurn' /\ RequestInTurn' /\ NeverAhead' /\ ToRead' = ToRead
    BY <1>18, WaysUnchanged DEF vars, bot, world
  <2> QED BY <1>18, <2>1 DEF Inv, TypeOK, FlagsAgree, BeginsClean, vars, bot, world
<1> QED
  BY <1>1, <1>2, <1>3, <1>4, <1>5, <1>6, <1>7, <1>8, <1>9, <1>10, <1>11, <1>12, <1>13,
     <1>14, <1>15, <1>16, <1>17, <1>18
  DEF Next, Update

\* The flags of the socket and of CBNET never contradict one another, however
\* connections are lost and packets are cut and delayed.
THEOREM FlagsNeverClash == Spec => []FlagsAgree
<1>1. Inv => FlagsAgree
  BY DEF Inv
<1> QED BY InitInv, NextInv, <1>1, PTL DEF Spec

\* Whatever a lost connection left behind, the bot's logon is understood by the server
\* it is connected to, and m_LoggedIn and m_InChat are what that server said.
THEOREM SessionIsReal == Spec => []LoggedInIsReal
<1>1. Inv => LoggedInIsReal
  BY DEF Inv, NeverAhead, LoggedInIsReal
<1> QED BY InitInv, NextInv, <1>1, PTL DEF Spec

\* Processing a packet moves the session on by one phase or not at all.
LEMMA ProcessSteps == Inv /\ ProcessPacket => S!Next \/ UNCHANGED Phase
<1> SUFFICES ASSUME Inv, ProcessPacket PROVE S!Next \/ UNCHANGED Phase
  OBVIOUS
<1>1. /\ loggedIn \in BOOLEAN /\ inChat \in BOOLEAN
      /\ packets \in Seq(Incoming) /\ packets # <<>> /\ toBot \in Seq(Incoming)
  BY DEF Inv, TypeOK, ProcessPacket
<1>2. ~waiting /\ waiting' = waiting
  BY DEF Inv, BeginsClean, ProcessPacket
<1>3. Head(packets) = "enterchat" => loggedIn
  <2>1. Head(packets) = Head(packets \o toBot) /\ packets \o toBot # <<>>
    BY <1>1, TailConcat
  <2>2. Head(packets) = Head(ToRead) /\ ToRead # <<>> /\ ToRead \in Seq(Incoming)
    BY <2>1, Ways DEF ToRead, Inv
  <2>3. Only(ToRead, Pings \cup Unread)
    BY DEF Inv, AnswerInTurn
  <2>4. Head(packets) \in Pings \cup Unread
    BY <2>2, <2>3, OnlyTail
  <2> QED BY <2>4 DEF Pings, Unread
<1>4. inChat => loggedIn
  BY DEF Inv, FlagsAgree
<1>5. /\ loggedIn' = (loggedIn \/ Head(packets) = "proof")
      /\ inChat' = (inChat \/ Head(packets) = "enterchat")
  BY DEF ProcessPacket
<1> QED
  BY <1>1, <1>2, <1>3, <1>4, <1>5 DEF Phase, S!Next, S!LogIn, S!EnterChat

\* Every step of the connection is a step of the session or leaves its phase alone.
LEMMA StepSession == Inv /\ [Next]_vars => [S!Next]_Phase
<1> SUFFICES ASSUME Inv, [Next]_vars PROVE S!Next \/ UNCHANGED Phase
  OBVIOUS
<1>1. CASE GiveUp \/ ConnectTimesOut
  BY <1>1 DEF GiveUp, ConnectTimesOut, Phase, S!Next, S!Fall
<1>2. CASE StartConnecting
  <2>1. ~loggedIn /\ ~inChat /\ waiting
    BY <1>2 DEF Inv, FlagsAgree, StartConnecting
  <2> QED BY <1>2, <2>1 DEF StartConnecting, Phase, S!Next, S!Try
<1>3. CASE ProcessPacket
  BY <1>3, ProcessSteps
<1>4. CASE Connected \/ ReceiveEnd \/ Disconnect \/ AllProcessed \/ SendNothing \/ SendFails
           \/ TimePasses \/ Accept \/ LoseLink \/ GiveUpResending \/ Serve \/ Refuse \/ Ping
  BY <1>4 DEF Connected, ReceiveEnd, Disconnect, AllProcessed, SendNothing, SendFails,
              TimePasses, Accept, LoseLink, GiveUpResending, Serve, Refuse, Ping, bot, Phase
<1>5. CASE \E k \in 0..Len(toBot) : Receive(k)
  BY <1>5 DEF Receive, Phase
<1>6. CASE \E null \in BOOLEAN : Send(null)
  BY <1>6 DEF Send, Phase
<1>7. CASE UNCHANGED vars
  BY <1>7 DEF vars, bot, Phase
<1> QED BY <1>1, <1>2, <1>3, <1>4, <1>5, <1>6, <1>7 DEF Next, Update

\* A session passes through down, trying, logged in and in chat in order, and falls
\* back to down only.
THEOREM Implementation == Spec => ImplementsSession
<1>1. Init => S!Init
  BY DEF Init, S!Init, Phase
<1> QED
  BY <1>1, InitInv, NextInv, StepSession, PTL DEF Spec, ImplementsSession, S!Spec
=============================================================================
