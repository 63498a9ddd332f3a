-------------------------- MODULE WardenRelay_proofs --------------------------
(***************************************************************************)
(* Proofs about WardenRelay, for any number of sessions, challenges and    *)
(* faults and any way the two streams are cut.                             *)
(*                                                                         *)
(* The streams first: a framed one consists of whole packets, and the      *)
(* actions only add one at its end, move its bytes into the buffer, or     *)
(* take the first away; so a buffer is always the front of such a stream.  *)
(*                                                                         *)
(* Then the challenges.  They are in six places on their way, from the     *)
(* server through m_Packets, the client and BNLS back to m_OutPackets.  In *)
(* each they are in the order they were asked in, and all those of a place *)
(* nearer to the answer come before all those of one farther from it.      *)
(* The session of each matters: m_Packets is not cleared when a session    *)
(* ends, so a client must not be made by what an earlier one left there.   *)
(***************************************************************************)
EXTENDS WardenRelay, SequenceTheorems, TLAPS

-----------------------------------------------------------------------------
(* Framing.  A stream is framed if every byte of it is in a packet that is *)
(* there as a whole; what is in a buffer and what is on its way behind it  *)
(* make such a stream, and stay one if its first packet is taken away.     *)

Kinds == {"info", "warden", "refused", "malformed", "answer", "errorcode"}

Sent(proto) ==
  {p \in [kind : Kinds, session : Nat, n : Nat, wellFormed : BOOLEAN, size : Nat] :
     /\ p.size >= proto.header
     /\ p.wellFormed = (p.kind # "malformed")
     /\ p.kind \in {"warden", "answer"} => p.n # 0}

ByteSet(proto) == [of : Sent(proto), at : Nat]

\* p is in u, behind the first k bytes.
Whole(u, p, k) == k + p.size <= Len(u) /\ \A j \in 1..p.size : u[k + j] = Byte(p, j)

InPacket(u, i) == \E k \in Nat : k < i /\ i <= k + u[i].of.size /\ Whole(u, u[i].of, k)

Framed(proto, u) == u \in Seq(ByteSet(proto)) /\ \A i \in 1..Len(u) : InPacket(u, i)

\* t is u without its first d.
CutBy(u, t, d) == Len(u) = d + Len(t) /\ \A i \in 1..Len(t) : t[i] = u[i + d]

\* Of both headers: they are at least three bytes long, and the length is in them.
LEMMA Protocols ==
  ASSUME NEW proto \in {BNET, BNLS}
  PROVE  /\ proto.header \in Nat /\ proto.header >= 3 /\ proto.lengthAt \in Nat
         /\ proto.lengthAt >= 1 /\ proto.lengthAt + 1 <= proto.header
         /\ proto.marked \in BOOLEAN
<1>1. CASE proto = BNET
  BY <1>1 DEF BNET
<1>2. CASE proto = BNLS
  BY <1>2 DEF BNLS
<1> QED
  BY <1>1, <1>2

\* p is at the front of u.
StartsWith(u, p) == p.size \in 1..Len(u) /\ \A j \in 1..p.size : u[j] = Byte(p, j)

\* A framed stream starts with a whole packet.
LEMMA FrontPacket ==
  ASSUME NEW proto \in {BNET, BNLS}, NEW u, Framed(proto, u), 1 \in 1..Len(u)
  PROVE  u[1].of \in Sent(proto) /\ StartsWith(u, u[1].of)
<1> DEFINE p == u[1].of
<1>1. u \in Seq(ByteSet(proto)) /\ Len(u) \in Nat
  BY LenProperties DEF Framed
<1>2. u[1] \in ByteSet(proto)
  BY <1>1, ElementOfSeq
<1>3. p \in Sent(proto) /\ p.size \in Nat /\ p.size >= proto.header
  BY <1>2 DEF ByteSet, Sent
<1> HIDE DEF p
<1>4. PICK k \in Nat : k < 1 /\ 1 <= k + p.size /\ Whole(u, p, k)
  BY DEF Framed, InPacket, p
<1>5. k = 0
  BY <1>4
<1>6. p.size <= Len(u) /\ \A j \in 1..p.size : u[j] = Byte(p, j)
  BY <1>3, <1>4, <1>5 DEF Whole
<1>7. p.size \in 1..Len(u)
  BY <1>1, <1>3, <1>6, Protocols
<1>8. StartsWith(u, p)
  BY <1>6, <1>7 DEF StartsWith
<1> QED
  BY <1>3, <1>8 DEF p

\* Without it, it is a framed stream again: packets do not overlap.
LEMMA FramedCut ==
  ASSUME NEW proto \in {BNET, BNLS}, NEW u, Framed(proto, u), 1 \in 1..Len(u),
         NEW t \in Seq(ByteSet(proto)), CutBy(u, t, u[1].of.size)
  PROVE  Framed(proto, t)
<1> DEFINE p == u[1].of
           d == p.size
           m == Len(t)
<1>1. /\ p \in Sent(proto) /\ d \in Nat /\ d >= 1 /\ m \in Nat
      /\ \A j \in 1..d : u[j] = Byte(p, j)
      /\ Len(u) = d + m /\ \A i \in 1..m : t[i] = u[i + d]
  <2>1. p \in Sent(proto) /\ StartsWith(u, p)
    BY FrontPacket
  <2>2. m \in Nat /\ Len(u) = d + m /\ \A i \in 1..m : t[i] = u[i + d]
    BY LenProperties DEF CutBy
  <2>3. d \in Nat /\ d >= 1 /\ \A j \in 1..d : u[j] = Byte(p, j)
    BY ONLY <2>1, <2>2 DEF StartsWith
  <2> QED
    BY ONLY <2>1, <2>2, <2>3
<1>2. \A i \in 1..Len(u) : InPacket(u, i)
  BY DEF Framed
<1>3. u \in Seq(ByteSet(proto))
  BY DEF Framed
<1> HIDE DEF p, d, m
<1>4. ASSUME NEW i \in 1..m PROVE InPacket(t, i)
  <2> DEFINE q == t[i].of
             r == i + d
  <2>1. r \in 1..Len(u) /\ t[i] = u[r] /\ r \in Nat /\ r > d
    BY <1>1
  <2>2. u[r] \in ByteSet(proto)
    BY <1>3, <2>1, ElementOfSeq
  <2>3. q = u[r].of /\ q \in Sent(proto) /\ q.size \in Nat
    BY <2>1, <2>2 DEF ByteSet, Sent
  <2> HIDE DEF q
  <2>4. PICK k \in Nat : k < r /\ r <= k + q.size /\ Whole(u, q, k)
    BY <1>2, <2>1, <2>3 DEF InPacket
  <2>5. k >= d
    <3> SUFFICES ASSUME k < d PROVE FALSE
      BY <1>1, <2>4
    <3> DEFINE j == r - k
               e == k + 1
    <3>1. e \in 1..d /\ 1 \in 1..q.size /\ d + 1 - k \in 1..q.size
      BY <1>1, <2>1, <2>3, <2>4
    <3>2. u[e] = Byte(p, e) /\ u[e] = Byte(q, 1)
      BY <1>1, <2>4, <3>1 DEF Whole
    <3>3. p = q /\ e = 1
      BY <3>2 DEF Byte
    <3>4. k = 0 /\ q.size = d
      BY <3>3 DEF d
    <3> QED
      BY <1>1, <2>1, <2>4, <3>4
  <2>6. k - d \in Nat /\ k - d < i /\ i <= (k - d) + q.size
    BY <1>1, <2>1, <2>3, <2>4, <2>5
  <2>7. Whole(t, q, k - d)
    <3>1. (k - d) + q.size <= m
      BY <1>1, <2>3, <2>4, <2>5 DEF Whole
    <3>2. ASSUME NEW j \in 1..q.size PROVE t[(k - d) + j] = Byte(q, j)
      <4>1. (k - d) + j \in 1..m /\ ((k - d) + j) + d = k + j
        BY <1>1, <2>3, <2>5, <2>6, <3>1
      <4>2. u[k + j] = Byte(q, j)
        BY <2>4 DEF Whole
      <4> QED
        BY <1>1, <4>1, <4>2
    <3> QED
      BY <3>1, <3>2 DEF Whole, m
  <2> QED
    BY <2>6, <2>7 DEF InPacket, q
<1> QED
  BY <1>4 DEF Framed, m

\* What is sent of a packet is as long as it says.
LEMMA BytesOf ==
  ASSUME NEW proto \in {BNET, BNLS}, NEW p \in Sent(proto)
  PROVE  /\ Bytes(p) \in Seq(ByteSet(proto)) /\ Len(Bytes(p)) = p.size
         /\ p.size \in Nat /\ p.size >= 3
         /\ \A i \in 1..p.size : Bytes(p)[i] = Byte(p, i)
<1>1. p.size \in Nat /\ p.size >= 3
  BY Protocols DEF Sent
<1>2. \A i \in 1..p.size : Byte(p, i) \in ByteSet(proto)
  BY <1>1 DEF Byte, ByteSet
<1>3. Bytes(p) \in [1..p.size -> ByteSet(proto)]
  BY <1>2 DEF Bytes
<1>4. Bytes(p) \in Seq(ByteSet(proto))
  BY <1>1, <1>3, SeqDef
<1>5. Len(Bytes(p)) = p.size
  BY <1>1, <1>3, <1>4, LenProperties
<1> QED
  BY <1>1, <1>4, <1>5 DEF Bytes

\* v is u and then p.
Then(v, u, p) == /\ Len(v) = Len(u) + p.size
                 /\ \A i \in 1..Len(u) : v[i] = u[i]
                 /\ \A j \in 1..p.size : v[Len(u) + j] = Byte(p, j)

\* A packet sent at the end of a framed stream leaves it one.
LEMMA FramedAppend ==
  ASSUME NEW proto \in {BNET, BNLS}, NEW u, Framed(proto, u), NEW p \in Sent(proto)
  PROVE  Framed(proto, u \o Bytes(p)) /\ Then(u \o Bytes(p), u, p)
<1> DEFINE b == Bytes(p)
           v == u \o b
           l == Len(u)
           n == p.size
<1>1. /\ b \in Seq(ByteSet(proto)) /\ Len(b) = n /\ n \in Nat /\ n >= 3
      /\ \A i \in 1..n : b[i] = Byte(p, i)
  BY BytesOf
<1>2. u \in Seq(ByteSet(proto)) /\ l \in Nat /\ \A i \in 1..l : InPacket(u, i)
  BY LenProperties DEF Framed
<1> HIDE DEF b, l, n
<1>3. /\ v \in Seq(ByteSet(proto)) /\ Len(v) = Len(u) + Len(b)
      /\ \A i \in 1..Len(u) + Len(b) : v[i] = IF i <= Len(u) THEN u[i] ELSE b[i - Len(u)]
  BY ONLY <1>1, <1>2, ConcatProperties, ZenonT(60)
<1>4. /\ Len(v) = l + n
      /\ \A i \in 1..l + n : v[i] = IF i <= l THEN u[i] ELSE b[i - l]
  BY <1>1, <1>3 DEF l
<1> HIDE DEF v
<1>5. \A i \in 1..l : v[i] = u[i] /\ i \in 1..l + n
  BY <1>1, <1>2, <1>4
<1>6. ASSUME NEW j \in 1..n PROVE v[l + j] = Byte(p, j)
  <2>1. l + j \in 1..l + n /\ ~(l + j <= l) /\ (l + j) - l = j
    BY <1>1, <1>2
  <2> QED
    BY <1>1, <1>4, <2>1
<1>7. Whole(v, p, l)
  BY <1>1, <1>2, <1>4, <1>6 DEF Whole, n
<1>8. ASSUME NEW i \in 1..Len(v) PROVE InPacket(v, i)
  <2>1. CASE i <= l
    <3>1. i \in 1..l /\ v[i] = u[i]
      BY <1>2, <1>4, <1>5, <2>1
    <3>2. u[i] \in ByteSet(proto)
      BY <1>2, <3>1, ElementOfSeq DEF l
    <3>3. u[i].of.size \in Nat
      BY <3>2 DEF ByteSet, Sent
    <3>4. PICK k \in Nat : k < i /\ i <= k + u[i].of.size /\ Whole(u, u[i].of, k)
      BY <1>2, <3>1 DEF InPacket
    <3> DEFINE q == u[i].of
    <3> HIDE DEF q
    <3>5. Whole(v, q, k)
      <4>1. q.size \in Nat /\ k + q.size <= l
        BY <3>3, <3>4 DEF Whole, q, l
      <4>2. \A j \in 1..q.size : k + j \in 1..l /\ u[k + j] = Byte(q, j)
        BY <1>2, <3>4, <4>1, SMTT(30) DEF Whole, q
      <4> QED
        BY <1>1, <1>2, <1>4, <1>5, <4>1, <4>2, SMTT(30) DEF Whole
    <3> QED
      BY <3>1, <3>4, <3>5 DEF InPacket, q
  <2>2. CASE ~(i <= l)
    <3>1. i - l \in 1..n /\ l + (i - l) = i
      BY <1>1, <1>2, <1>4, <2>2
    <3>2. v[i] = Byte(p, i - l)
      BY <1>6, <3>1
    <3>3. v[i].of = p
      BY <3>2 DEF Byte
    <3>4. l < i /\ i <= l + p.size
      BY <1>1, <1>2, <1>4, <2>2 DEF n
    <3> QED
      BY <1>2, <1>7, <3>3, <3>4 DEF InPacket
  <2> QED
    BY <2>1, <2>2
<1> QED
  <2>1. Framed(proto, v)
    BY <1>3, <1>8 DEF Framed
  <2>2. Then(v, u, p)
    BY <1>4, <1>5, <1>6 DEF Then, l, n
  <2> QED
    BY <2>1, <2>2 DEF v, b

\* A buffer at the front of a framed stream is intact: ExtractPackets finds the length
\* of the packet that is there, takes all of it, and refuses malformed ones only.
LEMMA FramesGood ==
  ASSUME NEW proto \in {BNET, BNLS}, NEW b \in Seq(ByteSet(proto)),
         NEW w \in Seq(ByteSet(proto)), Framed(proto, b \o w)
  PROVE  /\ Intact(proto, b)
         /\ HasHeader(proto, b) =>
              /\ 1 \in 1..Len(b) /\ b[1] = (b \o w)[1]
              /\ Malformed(proto, b) <=> ~b[1].of.wellFormed
              /\ ~Malformed(proto, b) => Length(proto, b) = b[1].of.size
<1> DEFINE u == b \o w
           l == Len(b)
           h == proto.header
           a == proto.lengthAt
<1>1. /\ h \in Nat /\ h >= 3 /\ a \in Nat /\ a >= 1 /\ a + 1 <= h
      /\ l \in Nat
  BY Protocols, LenProperties
<1>2. /\ Len(u) = Len(b) + Len(w) /\ Len(w) \in Nat
      /\ \A i \in 1..Len(b) + Len(w) : u[i] = IF i <= Len(b) THEN b[i] ELSE w[i - Len(b)]
  <2>1. b \in Seq(ByteSet(proto))
    OBVIOUS
  <2>2. w \in Seq(ByteSet(proto))
    OBVIOUS
  <2> QED
    BY ONLY <2>1, <2>2, ConcatProperties, LenProperties
<1> HIDE DEF u, l, h, a
<1>3. \A i \in 1..l : i \in 1..Len(u) /\ u[i] = b[i]
  BY <1>1, <1>2 DEF l
<1>4. ASSUME HasHeader(proto, b)
      PROVE  /\ 1 \in 1..l /\ b[1] = u[1]
             /\ Malformed(proto, b) <=> ~b[1].of.wellFormed
             /\ ~Malformed(proto, b) => Length(proto, b) = b[1].of.size
             /\ ~Malformed(proto, b) /\ HasPacket(proto, b)
                  => Taken(proto, b) = Bytes(b[1].of)
  <2> DEFINE p == b[1].of
             n == p.size
  <2>1. l >= h /\ 1 \in 1..l /\ 1 \in 1..Len(u) /\ b[1] = u[1]
    BY <1>1, <1>3, <1>4 DEF HasHeader, l, h
  <2>2. /\ p \in Sent(proto) /\ \A j \in 1..n : u[j] = Byte(p, j)
    <3>1. Framed(proto, u)
      BY DEF u
    <3>2. u[1].of \in Sent(proto) /\ StartsWith(u, u[1].of)
      BY <2>1, <3>1, FrontPacket
    <3> QED
      BY <2>1, <3>2 DEF StartsWith
  <2>3. n \in Nat /\ n >= h /\ p.wellFormed \in BOOLEAN
    BY <2>2 DEF Sent, h
  <2> HIDE DEF p, n
  <2>4. \A j \in 1..n : j \in 1..l => b[j] = Byte(p, j)
    BY <1>3, <2>2
  <2>5. b[1] = Byte(p, 1) /\ b[a] = Byte(p, a) /\ b[a + 1] = Byte(p, a + 1)
    <3>1. a \in 1..n /\ a + 1 \in 1..n /\ a \in 1..l /\ a + 1 \in 1..l /\ 1 \in 1..n
      BY <1>1, <2>1, <2>3
    <3> QED
      BY <2>1, <2>4, <3>1
  <2>6. Length(proto, b) = IF p.wellFormed THEN n ELSE 0
    BY <2>5 DEF Length, Byte, a, n
  <2>7. b[1].at = 1
    BY <2>5 DEF Byte
  <2>8. Malformed(proto, b) <=> ~p.wellFormed
    BY <1>1, <2>3, <2>6, <2>7 DEF Malformed, h
  <2>9. ASSUME ~Malformed(proto, b), HasPacket(proto, b) PROVE Taken(proto, b) = Bytes(p)
    <3>1. Length(proto, b) = n /\ n <= l
      BY <1>1, <2>3, <2>6, <2>8, <2>9 DEF HasPacket, l
    <3>2. /\ 1 \in Int /\ n \in Int /\ \A i \in 1..n : b[i] \in ByteSet(proto)
      <4>1. \A i \in 1..n : i \in 1..Len(b)
        BY <1>1, <2>3, <3>1 DEF l
      <4> QED
        BY <2>3, <4>1, ElementOfSeq
    <3>3. Len(SubSeq(b, 1, n)) = n /\ SubSeq(b, 1, n) \in Seq(ByteSet(proto))
      <4>1. /\ SubSeq(b, 1, n) \in Seq(ByteSet(proto))
            /\ Len(SubSeq(b, 1, n)) = IF 1 <= n THEN n - 1 + 1 ELSE 0
        BY ONLY <3>2, SubSeqProperties
      <4> QED
        BY <1>1, <2>3, <4>1
    <3>4. \A i \in 1..n : SubSeq(b, 1, n)[i] = b[i]
      BY <1>1, <2>3, <3>1 DEF l
    <3>5. \A i \in 1..n : SubSeq(b, 1, n)[i] = Byte(p, i)
      BY <1>1, <2>3, <2>4, <3>1, <3>4
    <3>6. SubSeq(b, 1, n) = [i \in 1..n |-> Byte(p, i)]
      <4>1. SubSeq(b, 1, n) = [i \in 1..n |-> SubSeq(b, 1, n)[i]]
        BY <2>3, <3>3, LenProperties
      <4> QED
        BY <3>5, <4>1
    <3> QED
      BY <3>1, <3>6 DEF Taken, Bytes, n
  <2> QED
    BY <2>1, <2>3, <2>6, <2>8, <2>9 DEF p, n
<1> QED
  BY <1>4 DEF Intact, l, u

-----------------------------------------------------------------------------
(* The relay.                                                              *)

Challenges == {c \in [session : Nat, n : Nat] : c.n # 0}
Requests == {r \in [kind : {"seed", "raw"}, session : Nat, n : Nat] : r.kind = "raw" => r.n # 0}

\* The two streams, and the requests to BNLS.
Bnet == buf \o wire
Bnls == bnlsBuf \o bnlsWire
Asking == toBnls \o bnlsOut

Buffers(proto, b, w) ==
  b \in Seq(ByteSet(proto)) /\ w \in Seq(ByteSet(proto)) /\ Framed(proto, b \o w)

\* All bytes of u are of one session.
OfSession(u, s) == \A i \in 1..Len(u) : u[i].of.session = s

\* A packet that ends a logon, or begins one.
IsLogon(p) == p.kind \in {"info", "refused"}
LogonIn(ps, i) == i \in 1..Len(ps) /\ IsLogon(ps[i])
LogonOf(u, i) == i \in 1..Len(u) /\ u[i].at = 1 /\ IsLogon(u[i].of)

\* What battle.net has sent: no packet that an earlier session left is of its logon, and
\* they come before those of this one; and one of the logon at most is not yet processed.
Leftovers ==
  /\ \A i \in 1..Len(packets) :
       /\ packets[i].session <= session
       /\ packets[i].session # session => ~IsLogon(packets[i]) /\ ~client
       /\ pc \notin {"extract", "process"} => ~IsLogon(packets[i])
  /\ \A i, j \in 1..Len(packets) :
       i < j /\ packets[i].session = session => packets[j].session = session

OneLogon ==
  /\ \A i, j \in Nat : LogonIn(packets, i) /\ LogonIn(packets, j) => i = j
  /\ \A i, j \in Nat : LogonOf(Bnet, i) /\ LogonOf(Bnet, j) => i = j
  /\ \A i, j \in Nat : ~(LogonIn(packets, i) /\ LogonOf(Bnet, j))
  /\ ~greeted => ~requested
  /\ ~greeted \/ requested => \A i \in Nat : ~LogonIn(packets, i) /\ ~LogonOf(Bnet, i)

BnetInv ==
  /\ Buffers(BNET, buf, wire)
  /\ packets \in Seq(Sent(BNET)) /\ client \in BOOLEAN /\ session \in Nat
  /\ greeted \in BOOLEAN /\ requested \in BOOLEAN
  /\ conn = "down" => pc = "idle" /\ ~client /\ buf = <<>>
  /\ OfSession(Bnet, session)
  /\ Leftovers /\ OneLogon

\* All of a queue is of one session.
From(c, s) == \A i \in 1..Len(c) : c[i].session = s

\* A client with nothing but requests x, or none.
NoClientBut(x) == /\ bnlsBuf' = <<>> /\ bnlsWire' = <<>> /\ responses' = <<>>
                  /\ toBnls' = <<>> /\ bnlsOut' = x

\* What the client has is of this session, and without one there is nothing.
ClientInv ==
  /\ Buffers(BNLS, bnlsBuf, bnlsWire)
  /\ toBnls \in Seq(Requests) /\ bnlsOut \in Seq(Requests) /\ responses \in Seq(Challenges)
  /\ ~client => /\ bnlsBuf = <<>> /\ bnlsWire = <<>> /\ responses = <<>>
                /\ toBnls = <<>> /\ bnlsOut = <<>>
  /\ OfSession(Bnls, session)
  /\ From(toBnls, session) /\ From(bnlsOut, session) /\ From(responses, session)

\* The challenges of this session wherever they are, 0 standing for none: the places in
\* the order in which they come to the server again.
Numbers(c) == [i \in Nat |-> IF i \in 1..Len(c) THEN c[i].n ELSE 0]
Raws(t) == [i \in Nat |-> IF i \in 1..Len(t) /\ t[i].kind = "raw" THEN t[i].n ELSE 0]
Wardens(ps, s) == [i \in Nat |->
  IF i \in 1..Len(ps) /\ ps[i].kind = "warden" /\ ps[i].session = s THEN ps[i].n ELSE 0]
Carried(u, kind) == [i \in Nat |-> IF i \in 1..Len(u) /\ u[i].at = 1 /\ u[i].of.kind = kind
                                   THEN u[i].of.n ELSE 0]

Places == 1..6
PipeOf(o, r, v, a, ps, s, u) ==
  [k \in Places |-> IF k = 1 THEN Numbers(o) ELSE IF k = 2 THEN Numbers(r)
                    ELSE IF k = 3 THEN Carried(v, "answer") ELSE IF k = 4 THEN Raws(a)
                    ELSE IF k = 5 THEN Wardens(ps, s) ELSE Carried(u, "warden")]
Pipe == PipeOf(outPackets, responses, Bnls, Asking, packets, session, Bnet)

Sooner(k, i, l, j) == k < l \/ (k = l /\ i < j)

\* They are in the order they were asked in, and after the last that was answered.
InTurn(T, lo, hi) ==
  /\ \A k \in Places, i \in Nat : T[k][i] # 0 => lo < T[k][i] /\ T[k][i] <= hi
  /\ \A k, l \in Places, i, j \in Nat :
       T[k][i] # 0 /\ T[l][j] # 0 /\ Sooner(k, i, l, j) => T[k][i] < T[l][j]

AnswersInv ==
  /\ outPackets \in Seq(Challenges) /\ answered \in [session : Nat, n : Nat] /\ asked \in Nat
  /\ From(outPackets, session)
  /\ answered.session \in {0, session} /\ answered.n <= asked
  /\ InTurn(Pipe, answered.n, asked)

WardenInv == BnetInv /\ ClientInv /\ AnswersInv

-----------------------------------------------------------------------------
(* What a step does to a stream, and to the challenges in it.              *)

\* Moving the first k of w behind b changes nothing of the two together.
LEMMA ReadMore ==
  ASSUME NEW X, NEW b \in Seq(X), NEW w \in Seq(X), NEW k \in 0..Len(w)
  PROVE  /\ b \o SubSeq(w, 1, k) \in Seq(X) /\ SubSeq(w, k + 1, Len(w)) \in Seq(X)
         /\ (b \o SubSeq(w, 1, k)) \o SubSeq(w, k + 1, Len(w)) = b \o w
<1> DEFINE y == SubSeq(w, 1, k)
           z == SubSeq(w, k + 1, Len(w))
<1>1. Len(w) \in Nat /\ \A i \in 1..Len(w) : w[i] \in X
  BY LenProperties, ElementOfSeq
<1>2. y \in Seq(X)
  <2>1. 1 \in Int /\ k \in Int /\ \A i \in 1..k : w[i] \in X
    BY <1>1
  <2> QED
    BY ONLY <2>1, SubSeqProperties
<1>3. z \in Seq(X)
  <2>1. k + 1 \in Int /\ Len(w) \in Int /\ \A i \in k + 1..Len(w) : w[i] \in X
    BY <1>1
  <2> QED
    BY ONLY <2>1, SubSeqProperties
<1>4. y \o z = w
  <2>1. 1 \in 1..Len(w) + 1 /\ k \in 1 - 1..Len(w) /\ Len(w) \in k..Len(w)
    BY <1>1
  <2>2. y \o z = SubSeq(w, 1, Len(w))
    BY <2>1, ConcatAdjacentSubSeq
  <2> QED
    BY <2>2, SubSeqFull
<1> HIDE DEF y, z
<1>5. (b \o y) \o z = b \o (y \o z)
  BY ONLY b \in Seq(X), <1>2, <1>3, ConcatAssociative, SMTT(30)
<1>6. b \o y \in Seq(X)
  BY <1>2, ConcatProperties
<1> QED
  BY <1>3, <1>4, <1>5, <1>6 DEF y, z

\* A buffer and what is on its way to it, when k bytes are read.
ReadBy(b, w, k, x, z) == /\ k \in 0..Len(w)
                         /\ x = b \o SubSeq(w, 1, k) /\ z = SubSeq(w, k + 1, Len(w))

\* A read that takes any part of what has arrived keeps the stream.
LEMMA Reading ==
  ASSUME NEW proto, NEW b, NEW w, Buffers(proto, b, w), NEW k, NEW x, NEW z,
         ReadBy(b, w, k, x, z)
  PROVE  Buffers(proto, x, z) /\ x \o z = b \o w
<1>1. b \in Seq(ByteSet(proto)) /\ w \in Seq(ByteSet(proto)) /\ Framed(proto, b \o w)
  BY DEF Buffers
<1> DEFINE X == ByteSet(proto)
<1>2. /\ k \in 0..Len(w) /\ x = b \o SubSeq(w, 1, k) /\ z = SubSeq(w, k + 1, Len(w))
  BY DEF ReadBy
<1>3. b \in Seq(X) /\ w \in Seq(X)
  BY <1>1
<1> HIDE DEF X
<1>4. x \in Seq(X) /\ z \in Seq(X) /\ x \o z = b \o w
  BY <1>2, <1>3, ReadMore, ZenonT(60)
<1> QED
  BY <1>1, <1>4 DEF Buffers, X

\* A packet is taken from the front.
LEMMA TakingPacket ==
  ASSUME NEW proto \in {BNET, BNLS}, NEW b, NEW w, Buffers(proto, b, w),
         HasHeader(proto, b), ~Malformed(proto, b), HasPacket(proto, b)
  PROVE  LET p == b[1].of
             u == b \o w
             t == Left(proto, b) \o w
         IN  /\ Buffers(proto, Left(proto, b), w)
             /\ 1 \in 1..Len(u) /\ p = u[1].of /\ p \in Sent(proto) /\ p.kind # "malformed"
             /\ u[1].at = 1 /\ CutBy(u, t, p.size)
<1> DEFINE p == b[1].of
           u == b \o w
           n == p.size
           c == Left(proto, b)
           t == c \o w
<1>0. b \in Seq(ByteSet(proto)) /\ w \in Seq(ByteSet(proto)) /\ Framed(proto, u)
  BY DEF Buffers
<1>1. /\ 1 \in 1..Len(b) /\ b[1] = u[1] /\ p.wellFormed
      /\ Length(proto, b) = n /\ n <= Len(b) /\ Len(b) \in Nat /\ Len(w) \in Nat
  BY <1>0, FramesGood, LenProperties DEF HasPacket
<1>2. Len(u) = Len(b) + Len(w)
      /\ \A i \in 1..Len(b) + Len(w) : u[i] = IF i <= Len(b) THEN b[i] ELSE w[i - Len(b)]
  BY ONLY <1>0, ConcatProperties
<1>3. 1 \in 1..Len(u)
  BY <1>1, <1>2
<1> HIDE DEF u
<1>4. /\ p \in Sent(proto) /\ n \in 1..Len(u) /\ u[1] = Byte(p, 1)
  <2>0. u[1].of \in Sent(proto) /\ StartsWith(u, u[1].of)
    BY <1>0, <1>3, FrontPacket
  <2>1. /\ u[1].of \in Sent(proto) /\ u[1].of.size \in 1..Len(u)
        /\ \A j \in 1..u[1].of.size : u[j] = Byte(u[1].of, j)
    BY ONLY <2>0 DEF StartsWith
  <2>2. n \in Nat /\ 1 \in 1..n
    BY <1>1, <2>1 DEF Sent
  <2> QED
    BY <1>1, <2>1, <2>2
<1>5. p.kind # "malformed" /\ u[1].at = 1 /\ n \in Nat
  BY <1>1, <1>4 DEF Sent, Byte
<1> HIDE DEF p, n
<1>6. /\ c \in Seq(ByteSet(proto)) /\ Len(b) = n + Len(c) /\ Len(c) \in Nat
      /\ \A i \in 1..Len(c) : c[i] = b[i + n]
  <2> DEFINE a == n + 1
             l == Len(b)
  <2>1. a \in Int /\ l \in Int /\ \A i \in a..l : b[i] \in ByteSet(proto)
    <3>1. \A i \in a..l : i \in 1..Len(b)
      BY <1>1, <1>5
    <3> QED
      BY <1>0, <1>1, <1>5, <3>1, ElementOfSeq
  <2>2. c = SubSeq(b, a, l)
    BY <1>1 DEF Left
  <2> HIDE DEF a, l, c
  <2>3. /\ c \in Seq(ByteSet(proto)) /\ Len(c) = IF a <= l THEN l - a + 1 ELSE 0
        /\ \A i \in 1..l - a + 1 : c[i] = b[a + i - 1]
    BY ONLY <2>1, <2>2, SubSeqProperties
  <2>4. l = n + Len(c) /\ l - a + 1 = Len(c) /\ Len(c) \in Nat
    <3>1. CASE a <= l
      BY <1>1, <1>5, <2>3, <3>1 DEF a, l
    <3>2. CASE ~(a <= l)
      BY <1>1, <1>5, <2>3, <3>2 DEF a, l
    <3> QED
      BY <3>1, <3>2
  <2>5. \A i \in 1..Len(c) : a + i - 1 = i + n
    BY <1>5, <2>4 DEF a
  <2> QED
    BY <2>3, <2>4, <2>5 DEF l
<1> HIDE DEF c
<1>7. /\ t \in Seq(ByteSet(proto)) /\ Len(t) = Len(c) + Len(w)
      /\ \A i \in 1..Len(c) + Len(w) : t[i] = IF i <= Len(c) THEN c[i] ELSE w[i - Len(c)]
  BY ONLY <1>0, <1>6, ConcatProperties
<1> HIDE DEF t
<1>8. CutBy(u, t, n)
  <2>1. Len(u) = n + Len(t)
    BY <1>1, <1>2, <1>5, <1>6, <1>7
  <2>2. ASSUME NEW i \in 1..Len(t) PROVE t[i] = u[i + n]
    <3> DEFINE r == i + n
    <3>1. r \in 1..Len(b) + Len(w) /\ i \in 1..Len(c) + Len(w)
      BY <1>1, <1>5, <1>6, <1>7, <2>2
    <3>2. CASE i <= Len(c)
      <4>1. i \in 1..Len(c) /\ r <= Len(b)
        BY <1>5, <1>6, <3>1, <3>2
      <4> QED
        BY <1>2, <1>6, <1>7, <3>1, <3>2, <4>1
    <3>3. CASE ~(i <= Len(c))
      <4>1. ~(r <= Len(b)) /\ r - Len(b) = i - Len(c)
        BY <1>5, <1>6, <3>1, <3>3
      <4> QED
        BY <1>2, <1>7, <3>1, <3>3, <4>1
    <3> QED
      BY <3>2, <3>3
  <2> QED
    BY <2>1, <2>2 DEF CutBy
<1>9. Framed(proto, t)
  BY <1>0, <1>1, <1>3, <1>7, <1>8, FramedCut DEF p, n
<1>10. Buffers(proto, c, w)
  BY <1>0, <1>6, <1>9 DEF Buffers, t
<1> QED
  BY <1>1, <1>3, <1>4, <1>5, <1>8, <1>10 DEF p, u, n, c, t

\* A packet is sent.
LEMMA SendingPacket ==
  ASSUME NEW proto \in {BNET, BNLS}, NEW b, NEW w, Buffers(proto, b, w), NEW p \in Sent(proto)
  PROVE  /\ Buffers(proto, b, w \o Bytes(p))
         /\ b \o (w \o Bytes(p)) = (b \o w) \o Bytes(p)
<1> DEFINE y == Bytes(p)
           z == w \o y
           u == b \o w
<1>1. b \in Seq(ByteSet(proto)) /\ w \in Seq(ByteSet(proto)) /\ Framed(proto, u)
  BY DEF Buffers
<1>2. y \in Seq(ByteSet(proto)) /\ Framed(proto, u \o y)
  BY <1>1, BytesOf, FramedAppend
<1> HIDE DEF y
<1>3. b \o z = u \o y
  BY ONLY <1>1, <1>2, ConcatAssociative, SMTT(30)
<1>4. z \in Seq(ByteSet(proto))
  BY ONLY <1>1, <1>2, ConcatProperties
<1> QED
  BY <1>1, <1>2, <1>3, <1>4 DEF Buffers, y

\* From a place to the next, or from the server into the first: g is f with one more at
\* its end, or without those before.
Longer(f, g, i, n) ==
  /\ g[i] = n /\ \A j \in Nat : j # i => g[j] = f[j]
  /\ \A j \in Nat : f[j] # 0 => j < i
Later(f, g, d) == \A i \in Nat : g[i] # 0 => i >= 1 /\ g[i] = f[i + d]

\* Of the first d, only the first is lost.
Shifted(f, g, d) == \A i \in Nat : f[i] # 0 => i = 1 \/ (i - d \in Nat /\ g[i - d] = f[i])

\* Nothing that is in T is missing in V.
Held(T, n) == \E k \in Places, i \in Nat : T[k][i] = n
Retains(T, V) == \A n \in Nat \ {0} : Held(T, n) => Held(V, n)

AllNat(T) == \A k \in Places, i \in Nat : T[k][i] \in Nat

\* Places that lose what is at their fronts leave the order as it is.
LEMMA TurnKept ==
  ASSUME NEW lo \in Nat, NEW hi \in Nat, NEW T, AllNat(T),
         NEW V, AllNat(V), InTurn(T, lo, hi),
         \A k \in Places : \E d \in Nat : Later(T[k], V[k], d)
  PROVE  InTurn(V, lo, hi)
<1>1. ASSUME NEW k \in Places, NEW i \in Nat, NEW j \in Nat, V[k][i] # 0, V[k][j] # 0, i < j
      PROVE  V[k][i] < V[k][j]
  <2>1. PICK d \in Nat : Later(T[k], V[k], d)
    OBVIOUS
  <2>2. V[k][i] = T[k][i + d] /\ V[k][j] = T[k][j + d]
    BY <1>1, <2>1 DEF Later
  <2>3. i + d \in Nat /\ j + d \in Nat /\ Sooner(k, i + d, k, j + d)
    BY <1>1 DEF Sooner
  <2> QED
    BY <1>1, <2>2, <2>3 DEF InTurn
<1>2. \A k \in Places, i \in Nat : V[k][i] # 0 => \E r \in Nat : V[k][i] = T[k][r]
  BY DEF Later
<1>3. ASSUME NEW k \in Places, NEW l \in Places, NEW i \in Nat, NEW j \in Nat,
             V[k][i] # 0, V[l][j] # 0, k < l
      PROVE  V[k][i] < V[l][j]
  <2>1. PICK r \in Nat, q \in Nat : V[k][i] = T[k][r] /\ V[l][j] = T[l][q]
    BY <1>2, <1>3
  <2>2. Sooner(k, r, l, q)
    BY <1>3 DEF Sooner
  <2> QED
    BY <1>3, <2>1, <2>2 DEF InTurn
<1>4. \A k \in Places, i \in Nat : V[k][i] # 0 => lo < V[k][i] /\ V[k][i] <= hi
  BY <1>2 DEF InTurn
<1> QED
  BY <1>1, <1>3, <1>4 DEF InTurn, Sooner

\* The first of a place becomes the last of the next, which is nearer to the server.
LEMMA TurnMoved ==
  ASSUME NEW lo \in Nat, NEW hi \in Nat, NEW T, AllNat(T),
         NEW V, AllNat(V), InTurn(T, lo, hi),
         NEW c \in 1..5, NEW i0 \in Nat, NEW n \in Nat, NEW d \in Nat, NEW p \in Nat,
         T[c + 1][p] = n, n # 0, p <= d,
         Longer(T[c], V[c], i0, n), Later(T[c + 1], V[c + 1], d),
         \A k \in Places : k # c /\ k # c + 1 => V[k] = T[k]
  PROVE  InTurn(V, lo, hi)
<1>0. c \in Places /\ c + 1 \in Places /\ c \in Nat /\ \A k \in Places : k \in Nat
  <2>1. c \in 1..5
    OBVIOUS
  <2> QED
    BY ONLY <2>1 DEF Places
<1>a. \A k \in Places, i \in Nat : T[k][i] \in Nat /\ V[k][i] \in Nat
  BY DEF AllNat
<1>b. i0 \in Nat /\ n \in Nat /\ d \in Nat /\ p \in Nat /\ p <= d
  OBVIOUS
<1>1. ASSUME NEW k \in Places, NEW i \in Nat, V[k][i] # 0
      PROVE  \/ k = c /\ i = i0 /\ V[k][i] = n
             \/ k = c /\ i < i0 /\ V[k][i] = T[k][i]
             \/ k = c + 1 /\ i >= 1 /\ V[k][i] = T[k][i + d]
             \/ k # c /\ k # c + 1 /\ V[k][i] = T[k][i]
  BY <1>1 DEF Longer, Later
<1>2. ASSUME NEW k \in Places, NEW i \in Nat, T[k][i] # 0, k < c + 1 \/ (k = c + 1 /\ i < p)
      PROVE  T[k][i] < n
  BY <1>0, <1>2 DEF InTurn, Sooner
<1>3. ASSUME NEW k \in Places, NEW i \in Nat, T[k][i] # 0, c + 1 < k \/ (k = c + 1 /\ p < i)
      PROVE  n < T[k][i]
  BY <1>0, <1>3 DEF InTurn, Sooner
<1>4. lo < n /\ n <= hi
  BY <1>0 DEF InTurn
<1>5. \A k \in Places, i \in Nat : V[k][i] # 0 => lo < V[k][i] /\ V[k][i] <= hi
  <2> SUFFICES ASSUME NEW k \in Places, NEW i \in Nat, V[k][i] # 0
               PROVE  lo < V[k][i] /\ V[k][i] <= hi
    OBVIOUS
  <2>1. i + d \in Nat
    OBVIOUS
  <2>2. V[k][i] = n \/ \E r \in Nat : V[k][i] = T[k][r]
    BY <1>1, <2>1
  <2> QED
    BY <1>4, <2>2 DEF InTurn
<1>6. ASSUME NEW k \in Places, NEW l \in Places, NEW i \in Nat, NEW j \in Nat,
             V[k][i] # 0, V[l][j] # 0, Sooner(k, i, l, j)
      PROVE  V[k][i] < V[l][j]
  <2>0. i + d \in Nat /\ j + d \in Nat /\ (i >= 1 => p < i + d) /\ (j >= 1 => p < j + d)
    BY ONLY <1>b, i \in Nat, j \in Nat
  <2>a. k \in Nat /\ l \in Nat /\ i \in Nat /\ j \in Nat
    BY <1>0
  <2>1. CASE k = c /\ i = i0
    <3>1. V[k][i] = n
      BY <1>1, <1>6, <2>1
    <3>2. \/ l = c + 1 /\ j >= 1 /\ V[l][j] = T[l][j + d]
          \/ l > c + 1 /\ V[l][j] = T[l][j]
      <4>1. c < l \/ (l = c /\ i0 < j)
        BY <1>6, <2>1 DEF Sooner
      <4>2. l # c
        BY <1>1, <1>6, <1>b, <2>a, <4>1
      <4>3. l = c + 1 \/ l > c + 1
        BY ONLY <1>0, <1>b, <2>a, <4>1, <4>2
      <4>4. l > c + 1 => l # c /\ l # c + 1
        BY ONLY <1>0, <2>a
      <4> QED
        BY <1>1, <1>6, <4>2, <4>3, <4>4
    <3> QED
      BY <1>3, <1>6, <2>0, <3>1, <3>2
  <2>2. CASE l = c /\ j = i0
    <3>1. V[l][j] = n
      BY <1>1, <1>6, <2>2
    <3>2. V[k][i] = T[k][i] /\ k < c + 1
      <4>1. k < c \/ (k = c /\ i < i0)
        BY <1>6, <2>2 DEF Sooner
      <4>2. k < c + 1 /\ k # c + 1 /\ ~(k = c /\ i = i0)
        BY ONLY <1>0, <1>b, <2>a, <4>1
      <4> QED
        BY <1>1, <1>6, <4>2
    <3> QED
      BY <1>2, <1>6, <3>1, <3>2
  <2>3. CASE ~(k = c /\ i = i0) /\ ~(l = c /\ j = i0)
    <3>1. \E r, q \in Nat : V[k][i] = T[k][r] /\ V[l][j] = T[l][q] /\ Sooner(k, r, l, q)
      <4>1. CASE k # c + 1 /\ l # c + 1
        BY <1>1, <1>6, <2>3, <4>1
      <4>2. CASE k = c + 1 /\ l # c + 1
        BY <1>0, <1>1, <1>6, <2>0, <2>3, <4>2 DEF Sooner
      <4>3. CASE k # c + 1 /\ l = c + 1
        BY <1>0, <1>1, <1>6, <2>0, <2>3, <4>3 DEF Sooner
      <4>4. CASE k = c + 1 /\ l = c + 1
        <5>1. V[k][i] = T[k][i + d] /\ V[l][j] = T[l][j + d] /\ i < j
          BY <1>0, <1>1, <1>6, <4>4 DEF Sooner
        <5>2. Sooner(k, i + d, l, j + d)
          BY <4>4, <5>1 DEF Sooner
        <5> QED
          BY <2>0, <5>1, <5>2
      <4> QED
        BY <4>1, <4>2, <4>3, <4>4
    <3> QED
      BY <1>6, <3>1 DEF InTurn
  <2> QED
    BY <2>1, <2>2, <2>3
<1> QED
  BY <1>5, <1>6 DEF InTurn

\* The server asks another question.
LEMMA TurnAsked ==
  ASSUME NEW lo \in Nat, NEW hi \in Nat, lo <= hi, NEW T, AllNat(T),
         NEW V, AllNat(V), InTurn(T, lo, hi), NEW i0 \in Nat,
         Longer(T[6], V[6], i0, hi + 1), \A k \in Places : k # 6 => V[k] = T[k]
  PROVE  InTurn(V, lo, hi + 1)
<1>0. 6 \in Places /\ \A k \in Places : k \in Nat /\ k <= 6
  BY ONLY DEF Places
<1>1. ASSUME NEW k \in Places, NEW i \in Nat, V[k][i] # 0
      PROVE  (k = 6 /\ i = i0 /\ V[k][i] = hi + 1) \/ (V[k][i] = T[k][i] /\ (k = 6 => i < i0))
  BY <1>1 DEF Longer
<1>2. \A k \in Places, i \in Nat : T[k][i] # 0 => lo < T[k][i] /\ T[k][i] <= hi
  BY DEF InTurn
<1>3. \A k \in Places, i \in Nat : T[k][i] \in Nat
  BY DEF AllNat
<1>a. lo \in Nat /\ hi \in Nat /\ lo <= hi /\ i0 \in Nat
  OBVIOUS
<1>4. \A k \in Places, i \in Nat : V[k][i] # 0 => lo < V[k][i] /\ V[k][i] <= hi + 1
  <2> SUFFICES ASSUME NEW k \in Places, NEW i \in Nat, V[k][i] # 0
               PROVE  lo < V[k][i] /\ V[k][i] <= hi + 1
    OBVIOUS
  <2> DEFINE v == V[k][i]
  <2>1. v = hi + 1 \/ (lo < v /\ v <= hi /\ v \in Nat)
    BY <1>1, <1>2, <1>3
  <2> HIDE DEF v
  <2>2. lo < v /\ v <= hi + 1
    BY ONLY <1>a, <2>1
  <2> QED
    BY <2>2 DEF v
<1>5. ASSUME NEW k \in Places, NEW l \in Places, NEW i \in Nat, NEW j \in Nat,
             V[k][i] # 0, V[l][j] # 0, Sooner(k, i, l, j)
      PROVE  V[k][i] < V[l][j]
  <2>1. CASE l = 6 /\ j = i0
    <3>1. k < 6 \/ (k = 6 /\ i < i0)
      BY <1>5, <2>1 DEF Sooner
    <3>2. ~(k = 6 /\ i = i0)
      BY <1>a, <3>1
    <3>3. V[l][j] = hi + 1 /\ V[k][i] = T[k][i]
      BY <1>1, <1>5, <2>1, <3>2 DEF Longer
    <3> DEFINE v == V[k][i]
    <3>4. v <= hi /\ v \in Nat
      BY <1>2, <1>3, <1>5, <3>3
    <3> HIDE DEF v
    <3>5. v < hi + 1
      BY ONLY <1>a, <3>4
    <3> QED
      BY <3>3, <3>5 DEF v
  <2>2. CASE ~(l = 6 /\ j = i0)
    <3>1. V[l][j] = T[l][j] /\ (l = 6 => j < i0)
      BY <1>1, <1>5, <2>2
    <3>2. V[k][i] = T[k][i]
      <4>1. k < l \/ (k = l /\ i < j)
        BY <1>5 DEF Sooner
      <4>2. k \in Nat /\ l \in Nat /\ l <= 6 /\ i \in Nat /\ j \in Nat
        BY <1>0
      <4>3. ~(k = 6 /\ i = i0)
        BY ONLY <1>a, <3>1, <4>1, <4>2
      <4> QED
        BY <1>1, <1>5, <4>3
    <3> QED
      BY <1>5, <3>1, <3>2 DEF InTurn
  <2> QED
    BY <2>1, <2>2
<1> QED
  BY <1>4, <1>5 DEF InTurn

\* What a queue or a stream carries, when something is taken or added.
LEMMA NumbersOf ==
  ASSUME NEW c \in Seq(Challenges)
  PROVE  /\ \A i \in Nat : Numbers(c)[i] \in Nat
         /\ \A x \in Challenges : Longer(Numbers(c), Numbers(Append(c, x)), Len(c) + 1, x.n)
         /\ c # <<>> => /\ Later(Numbers(c), Numbers(Tail(c)), 1)
                        /\ Shifted(Numbers(c), Numbers(Tail(c)), 1)
                        /\ Numbers(c)[1] = Head(c).n /\ Head(c) \in Challenges
<1>1. Len(c) \in Nat /\ \A i \in 1..Len(c) : c[i] \in Challenges
  BY LenProperties, ElementOfSeq
<1>2. \A i \in 1..Len(c) : c[i].n \in Nat \ {0}
  BY <1>1 DEF Challenges
<1>3. \A i \in Nat : Numbers(c)[i] = IF i \in 1..Len(c) THEN c[i].n ELSE 0
  BY DEF Numbers
<1>4. \A i \in Nat : Numbers(c)[i] \in Nat
  BY <1>2, <1>3
<1>5. ASSUME NEW x \in Challenges
      PROVE  Longer(Numbers(c), Numbers(Append(c, x)), Len(c) + 1, x.n)
  <2> DEFINE e == Append(c, x)
             l == Len(c)
  <2>1. /\ Len(e) = l + 1 /\ e[l + 1] = x /\ \A i \in 1..l : e[i] = c[i]
    BY <1>1, AppendProperties
  <2> HIDE DEF e
  <2>2. \A i \in Nat : Numbers(e)[i] = IF i \in 1..l + 1 THEN e[i].n ELSE 0
    BY <2>1 DEF Numbers
  <2> HIDE DEF l
  <2>3. l \in Nat /\ \A i \in Nat : Numbers(c)[i] = IF i \in 1..l THEN c[i].n ELSE 0
    BY <1>1, <1>3 DEF l
  <2>4. Numbers(e)[l + 1] = x.n
    BY <2>1, <2>2, <2>3
  <2>5. \A i \in Nat : i # l + 1 => Numbers(e)[i] = Numbers(c)[i]
    BY <2>1, <2>2, <2>3
  <2>6. \A i \in Nat : Numbers(c)[i] # 0 => i < l + 1
    BY <2>3
  <2> QED
    BY <2>4, <2>5, <2>6 DEF Longer, e, l
<1>6. ASSUME c # <<>>
      PROVE  /\ Later(Numbers(c), Numbers(Tail(c)), 1)
             /\ Shifted(Numbers(c), Numbers(Tail(c)), 1)
             /\ Numbers(c)[1] = Head(c).n /\ Head(c) \in Challenges
  <2> DEFINE e == Tail(c)
             l == Len(c)
             m == Len(e)
  <2>1. l # 0 /\ Head(c) = c[1]
    BY <1>6, EmptySeq
  <2>2. m = l - 1 /\ \A i \in 1..m : e[i] = c[i + 1]
    BY <1>6, HeadTailProperties
  <2>3. \A i \in Nat : Numbers(e)[i] = IF i \in 1..m THEN e[i].n ELSE 0
    BY DEF Numbers
  <2> HIDE DEF e
  <2>4. l \in Nat /\ \A i \in Nat : Numbers(c)[i] = IF i \in 1..l THEN c[i].n ELSE 0
    BY <1>1, <1>3
  <2> HIDE DEF l, m
  <2>5. ASSUME NEW i \in Nat, Numbers(e)[i] # 0
        PROVE  i >= 1 /\ Numbers(e)[i] = Numbers(c)[i + 1]
    <3>1. i \in 1..m /\ i + 1 \in 1..l
      BY <2>1, <2>2, <2>3, <2>4, <2>5
    <3> QED
      BY <2>2, <2>3, <2>4, <3>1
  <2>6. 1 \in 1..l
    BY <2>1, <2>4
  <2>7. Numbers(c)[1] = c[1].n
    BY <2>4, <2>6
  <2>8. c[1] \in Challenges
    BY <1>1, <2>6 DEF l
  <2>9. ASSUME NEW i \in Nat, Numbers(c)[i] # 0, i # 1
        PROVE  i - 1 \in Nat /\ Numbers(e)[i - 1] = Numbers(c)[i]
    <3>1. i \in 1..l /\ i - 1 \in 1..m /\ i - 1 \in Nat /\ (i - 1) + 1 = i
      BY <2>1, <2>2, <2>4, <2>9
    <3> QED
      BY <2>2, <2>3, <2>4, <3>1
  <2> QED
    BY <2>1, <2>5, <2>7, <2>8, <2>9 DEF Later, Shifted, e
<1> QED
  BY <1>4, <1>5, <1>6

\* The same of requests, of which only those with a challenge count.
LEMMA RawsOf ==
  ASSUME NEW c \in Seq(Requests)
  PROVE  /\ \A i \in Nat : Raws(c)[i] \in Nat
         /\ \A x \in Requests :
              x.kind = "raw" => Longer(Raws(c), Raws(Append(c, x)), Len(c) + 1, x.n)
         /\ c # <<>> => /\ Later(Raws(c), Raws(Tail(c)), 1) /\ Head(c) \in Requests
                        /\ Shifted(Raws(c), Raws(Tail(c)), 1)
                        /\ Raws(c)[1] = IF Head(c).kind = "raw" THEN Head(c).n ELSE 0
<1> DEFINE R(e, i) == e[i].kind = "raw"
<1>1. Len(c) \in Nat /\ \A i \in 1..Len(c) : c[i] \in Requests
  BY LenProperties, ElementOfSeq
<1>2. \A i \in 1..Len(c) : c[i].n \in Nat
  BY <1>1 DEF Requests
<1>3. \A i \in Nat : Raws(c)[i] = IF i \in 1..Len(c) /\ R(c, i) THEN c[i].n ELSE 0
  BY DEF Raws
<1>4. \A i \in Nat : Raws(c)[i] \in Nat
  BY <1>2, <1>3
<1>5. ASSUME NEW x \in Requests, x.kind = "raw"
      PROVE  Longer(Raws(c), Raws(Append(c, x)), Len(c) + 1, x.n)
  <2> DEFINE e == Append(c, x)
             l == Len(c)
  <2>1. /\ Len(e) = l + 1 /\ e[l + 1] = x /\ \A i \in 1..l : e[i] = c[i]
    BY <1>1, AppendProperties
  <2> HIDE DEF e
  <2>2. \A i \in Nat : Raws(e)[i] = IF i \in 1..l + 1 /\ R(e, i) THEN e[i].n ELSE 0
    BY <2>1 DEF Raws
  <2> HIDE DEF l
  <2>3. l \in Nat /\ \A i \in Nat : Raws(c)[i] = IF i \in 1..l /\ R(c, i) THEN c[i].n ELSE 0
    BY <1>1, <1>3 DEF l
  <2>4. Raws(e)[l + 1] = x.n
    BY <1>5, <2>1, <2>2, <2>3
  <2>5. \A i \in Nat : i # l + 1 => Raws(e)[i] = Raws(c)[i]
    BY <2>1, <2>2, <2>3
  <2>6. \A i \in Nat : Raws(c)[i] # 0 => i < l + 1
    BY <2>3
  <2> QED
    BY <2>4, <2>5, <2>6 DEF Longer, e, l
<1>6. ASSUME c # <<>>
      PROVE  /\ Later(Raws(c), Raws(Tail(c)), 1) /\ Head(c) \in Requests
             /\ Shifted(Raws(c), Raws(Tail(c)), 1)
             /\ Raws(c)[1] = IF Head(c).kind = "raw" THEN Head(c).n ELSE 0
  <2> DEFINE e == Tail(c)
             l == Len(c)
             m == Len(e)
  <2>1. l # 0 /\ Head(c) = c[1]
    BY <1>6, EmptySeq
  <2>2. m = l - 1 /\ \A i \in 1..m : e[i] = c[i + 1]
    BY <1>6, HeadTailProperties
  <2>3. \A i \in Nat : Raws(e)[i] = IF i \in 1..m /\ R(e, i) THEN e[i].n ELSE 0
    BY DEF Raws
  <2> HIDE DEF e
  <2>4. l \in Nat /\ \A i \in Nat : Raws(c)[i] = IF i \in 1..l /\ R(c, i) THEN c[i].n ELSE 0
    BY <1>1, <1>3
  <2> HIDE DEF l, m
  <2>5. ASSUME NEW i \in Nat, Raws(e)[i] # 0
        PROVE  i >= 1 /\ Raws(e)[i] = Raws(c)[i + 1]
    <3>1. i \in 1..m /\ i + 1 \in 1..l
      BY <2>1, <2>2, <2>3, <2>4, <2>5
    <3> QED
      BY <2>2, <2>3, <2>4, <2>5, <3>1
  <2>6. 1 \in 1..l
    BY <2>1, <2>4
  <2>7. Raws(c)[1] = IF c[1].kind = "raw" THEN c[1].n ELSE 0
    BY <2>4, <2>6
  <2>8. c[1] \in Requests
    BY <1>1, <2>6 DEF l
  <2>9. ASSUME NEW i \in Nat, Raws(c)[i] # 0, i # 1
        PROVE  i - 1 \in Nat /\ Raws(e)[i - 1] = Raws(c)[i]
    <3>1. i \in 1..l /\ R(c, i) /\ Raws(c)[i] = c[i].n
      BY <2>4, <2>9
    <3>2. i - 1 \in 1..m /\ i - 1 \in Nat /\ (i - 1) + 1 = i
      BY <2>1, <2>2, <2>4, <2>9, <3>1
    <3> QED
      BY <2>2, <2>3, <3>1, <3>2
  <2> QED
    BY <2>1, <2>5, <2>7, <2>8, <2>9 DEF Later, Shifted, e
<1> QED
  BY <1>4, <1>5, <1>6

\* The same of m_Packets, where only this session's challenges count.
LEMMA WardensOf ==
  ASSUME NEW c \in Seq(Sent(BNET)), NEW s
  PROVE  /\ \A i \in Nat : Wardens(c, s)[i] \in Nat
         /\ \A x \in Sent(BNET) :
              IF x.kind = "warden" /\ x.session = s
                THEN Longer(Wardens(c, s), Wardens(Append(c, x), s), Len(c) + 1, x.n)
                ELSE Wardens(Append(c, x), s) = Wardens(c, s)
         /\ c # <<>> =>
              /\ Later(Wardens(c, s), Wardens(Tail(c), s), 1) /\ Head(c) \in Sent(BNET)
              /\ Shifted(Wardens(c, s), Wardens(Tail(c), s), 1)
              /\ Wardens(c, s)[1] =
                   IF Head(c).kind = "warden" /\ Head(c).session = s THEN Head(c).n ELSE 0
<1> DEFINE R(e, i) == e[i].kind = "warden" /\ e[i].session = s
<1>1. Len(c) \in Nat /\ \A i \in 1..Len(c) : c[i] \in Sent(BNET)
  BY LenProperties, ElementOfSeq
<1>2. \A i \in 1..Len(c) : c[i].n \in Nat
  BY <1>1 DEF Sent
<1>3. \A i \in Nat : Wardens(c, s)[i] = IF i \in 1..Len(c) /\ R(c, i) THEN c[i].n ELSE 0
  BY DEF Wardens
<1>4. \A i \in Nat : Wardens(c, s)[i] \in Nat
  BY <1>2, <1>3
<1>5. ASSUME NEW x \in Sent(BNET)
      PROVE  IF x.kind = "warden" /\ x.session = s
               THEN Longer(Wardens(c, s), Wardens(Append(c, x), s), Len(c) + 1, x.n)
               ELSE Wardens(Append(c, x), s) = Wardens(c, s)
  <2> DEFINE e == Append(c, x)
             l == Len(c)
             f == Wardens(c, s)
             g == Wardens(e, s)
             b == x.kind = "warden" /\ x.session = s
  <2>1. /\ Len(e) = l + 1 /\ e[l + 1] = x /\ \A i \in 1..l : e[i] = c[i]
    BY <1>1, AppendProperties
  <2> HIDE DEF e
  <2>2. \A i \in Nat : g[i] = IF i \in 1..l + 1 /\ R(e, i) THEN e[i].n ELSE 0
    BY <2>1 DEF Wardens
  <2>a. f = [i \in Nat |-> f[i]] /\ g = [i \in Nat |-> g[i]]
    BY DEF Wardens
  <2> HIDE DEF l, f, g
  <2>3. l \in Nat /\ \A i \in Nat : f[i] = IF i \in 1..l /\ R(c, i) THEN c[i].n ELSE 0
    BY <1>1, <1>3 DEF l, f
  <2>4. g[l + 1] = IF b THEN x.n ELSE 0
    BY <2>1, <2>2, <2>3
  <2>5. \A i \in Nat : i # l + 1 => g[i] = f[i]
    BY <2>1, <2>2, <2>3
  <2>6. f[l + 1] = 0 /\ \A i \in Nat : f[i] # 0 => i < l + 1
    BY <2>3
  <2>7. CASE b
    <3>1. Longer(f, g, l + 1, x.n)
      BY <2>4, <2>5, <2>6, <2>7 DEF Longer
    <3> QED
      BY <2>7, <3>1 DEF e, l, f, g
  <2>8. CASE ~b
    <3>1. \A i \in Nat : g[i] = f[i]
      BY <2>4, <2>5, <2>6, <2>8
    <3>2. f = g
      BY <2>a, <3>1
    <3> QED
      BY <2>8, <3>2 DEF e, l, f, g
  <2> QED
    BY <2>7, <2>8
<1>6. ASSUME c # <<>>
      PROVE  /\ Later(Wardens(c, s), Wardens(Tail(c), s), 1) /\ Head(c) \in Sent(BNET)
             /\ Shifted(Wardens(c, s), Wardens(Tail(c), s), 1)
             /\ Wardens(c, s)[1] =
                  IF Head(c).kind = "warden" /\ Head(c).session = s THEN Head(c).n ELSE 0
  <2> DEFINE e == Tail(c)
             l == Len(c)
             m == Len(e)
  <2>1. l # 0 /\ Head(c) = c[1]
    BY <1>6, EmptySeq
  <2>2. m = l - 1 /\ \A i \in 1..m : e[i] = c[i + 1]
    BY <1>6, HeadTailProperties
  <2>3. \A i \in Nat : Wardens(e, s)[i] = IF i \in 1..m /\ R(e, i) THEN e[i].n ELSE 0
    BY DEF Wardens
  <2> HIDE DEF e
  <2>4. /\ l \in Nat
        /\ \A i \in Nat : Wardens(c, s)[i] = IF i \in 1..l /\ R(c, i) THEN c[i].n ELSE 0
    BY <1>1, <1>3
  <2> HIDE DEF l, m
  <2>5. ASSUME NEW i \in Nat, Wardens(e, s)[i] # 0
        PROVE  i >= 1 /\ Wardens(e, s)[i] = Wardens(c, s)[i + 1]
    <3>1. i \in 1..m /\ i + 1 \in 1..l
      BY <2>1, <2>2, <2>3, <2>4, <2>5
    <3> QED
      BY <2>2, <2>3, <2>4, <2>5, <3>1
  <2>6. 1 \in 1..l
    BY <2>1, <2>4
  <2>7. Wardens(c, s)[1] = IF R(c, 1) THEN c[1].n ELSE 0
    BY <2>4, <2>6
  <2>8. c[1] \in Sent(BNET)
    BY <1>1, <2>6 DEF l
  <2>9. ASSUME NEW i \in Nat, Wardens(c, s)[i] # 0, i # 1
        PROVE  i - 1 \in Nat /\ Wardens(e, s)[i - 1] = Wardens(c, s)[i]
    <3>1. i \in 1..l /\ R(c, i) /\ Wardens(c, s)[i] = c[i].n
      BY <2>4, <2>9
    <3>2. i - 1 \in 1..m /\ i - 1 \in Nat /\ (i - 1) + 1 = i
      BY <2>1, <2>2, <2>4, <2>9, <3>1
    <3> QED
      BY <2>2, <2>3, <3>1, <3>2
  <2> QED
    BY <2>1, <2>5, <2>7, <2>8, <2>9 DEF Later, Shifted, e
<1> QED
  BY <1>4, <1>5, <1>6

\* The same of a stream, when a packet is sent,
LEMMA CarriedMore ==
  ASSUME NEW proto \in {BNET, BNLS}, NEW u, Framed(proto, u), NEW kind, NEW p \in Sent(proto)
  PROVE  LET v == u \o Bytes(p)
         IN  /\ IF p.kind = kind
                  THEN Longer(Carried(u, kind), Carried(v, kind), Len(u) + 1, p.n)
                  ELSE Carried(v, kind) = Carried(u, kind)
             /\ \A i \in Nat : LogonOf(v, i) <=> LogonOf(u, i) \/ (i = Len(u) + 1 /\ IsLogon(p))
             /\ \A s : OfSession(u, s) /\ p.session = s => OfSession(v, s)
<1>0. Then(u \o Bytes(p), u, p)
  BY FramedAppend
<1> DEFINE v == u \o Bytes(p)
           l == Len(u)
           m == Len(v)
           f == Carried(u, kind)
           g == Carried(v, kind)
<1>1. l \in Nat /\ p.size \in Nat /\ p.size >= 3
  BY BytesOf, LenProperties DEF Framed
<1>2. /\ m = l + p.size /\ \A i \in 1..l : v[i] = u[i]
      /\ \A j \in 1..p.size : v[l + j] = Byte(p, j)
  BY ONLY <1>0 DEF Then
<1> HIDE DEF v
<1>3. /\ f = [i \in Nat |-> IF i \in 1..l /\ u[i].at = 1 /\ u[i].of.kind = kind
                            THEN u[i].of.n ELSE 0]
      /\ g = [i \in Nat |-> IF i \in 1..m /\ v[i].at = 1 /\ v[i].of.kind = kind
                            THEN v[i].of.n ELSE 0]
  BY DEF Carried
<1> HIDE DEF l, m, f, g
<1>4. ASSUME NEW i \in 1..m
      PROVE  (i \in 1..l /\ v[i] = u[i]) \/ (i > l /\ v[i] = Byte(p, i - l))
  <2>1. CASE i <= l
    <3>1. i \in 1..l
      BY <1>1, <1>2, <2>1
    <3> QED
      BY <1>2, <3>1
  <2>2. CASE ~(i <= l)
    <3>1. i - l \in 1..p.size /\ l + (i - l) = i /\ i > l
      BY <1>1, <1>2, <2>2
    <3> QED
      BY <1>2, <3>1
  <2> QED
    BY <2>1, <2>2
<1>5. v[l + 1] = Byte(p, 1) /\ l + 1 \in 1..m /\ l + 1 \notin 1..l /\ \A i \in 1..l : i \in 1..m
  BY <1>1, <1>2
<1>6. \A i \in 1..m : v[i].at = 1 /\ i \notin 1..l => i = l + 1
  <2> SUFFICES ASSUME NEW i \in 1..m, v[i].at = 1, i \notin 1..l PROVE i = l + 1
    OBVIOUS
  <2>1. v[i] = Byte(p, i - l)
    BY <1>4
  <2>2. i - l = 1
    BY <2>1 DEF Byte
  <2> QED
    BY <1>1, <2>2
<1>7. \A i \in Nat : i # l + 1 => g[i] = f[i]
  <2> SUFFICES ASSUME NEW i \in Nat, i # l + 1 PROVE g[i] = f[i]
    OBVIOUS
  <2>1. CASE i \in 1..l
    BY <1>2, <1>3, <1>5, <2>1
  <2>2. CASE i \notin 1..l
    BY <1>3, <1>6, <2>2
  <2> QED
    BY <2>1, <2>2
<1>8. f[l + 1] = 0 /\ g[l + 1] = IF p.kind = kind THEN p.n ELSE 0
  <2>1. l + 1 \in Nat /\ v[l + 1].at = 1 /\ v[l + 1].of = p
    BY <1>1, <1>5 DEF Byte
  <2> QED
    BY <1>3, <1>5, <2>1
<1>9. \A i \in Nat : f[i] # 0 => i < l + 1
  BY <1>1, <1>3
<1>10. IF p.kind = kind THEN Longer(f, g, l + 1, p.n) ELSE g = f
  <2>1. CASE p.kind = kind
    BY <1>7, <1>8, <1>9, <2>1 DEF Longer
  <2>2. CASE p.kind # kind
    <3>1. \A i \in Nat : g[i] = f[i]
      BY <1>7, <1>8, <2>2
    <3> QED
      BY <1>3, <2>2, <3>1
  <2> QED
    BY <2>1, <2>2
<1>11. \A i \in Nat : LogonOf(v, i) <=> LogonOf(u, i) \/ (i = l + 1 /\ IsLogon(p))
  <2> SUFFICES ASSUME NEW i \in Nat
               PROVE  LogonOf(v, i) <=> LogonOf(u, i) \/ (i = l + 1 /\ IsLogon(p))
    OBVIOUS
  <2>1. CASE i \in 1..l
    BY <1>2, <1>5, <2>1 DEF LogonOf, l, m
  <2>2. CASE i \notin 1..l
    <3>1. ~LogonOf(u, i)
      BY <2>2 DEF LogonOf, l
    <3>2. v[l + 1].at = 1 /\ v[l + 1].of = p
      BY <1>5 DEF Byte
    <3> QED
      BY <1>5, <1>6, <2>2, <3>1, <3>2 DEF LogonOf, m
  <2> QED
    BY <2>1, <2>2
<1>12. ASSUME NEW s, OfSession(u, s), p.session = s
       PROVE  OfSession(v, s)
  <2> SUFFICES ASSUME NEW i \in 1..m PROVE v[i].of.session = s
    BY DEF OfSession, m
  <2>1. CASE i \in 1..l /\ v[i] = u[i]
    BY <1>12, <2>1 DEF OfSession, l
  <2>2. CASE v[i] = Byte(p, i - l)
    <3>1. v[i].of = p
      BY <2>2 DEF Byte
    <3> QED
      BY <1>12, <3>1
  <2> QED
    BY <1>4, <2>1, <2>2
<1> QED
  BY <1>10, <1>11, <1>12 DEF f, g, l, m, v

\* when the one at its front is taken,
LEMMA CarriedLess ==
  ASSUME NEW proto \in {BNET, BNLS}, NEW u, Framed(proto, u), NEW kind, 1 \in 1..Len(u),
         NEW t \in Seq(ByteSet(proto)), NEW d, d = u[1].of.size, u[1].at = 1, CutBy(u, t, d)
  PROVE  /\ Later(Carried(u, kind), Carried(t, kind), d)
         /\ Shifted(Carried(u, kind), Carried(t, kind), d)
         /\ d \in Nat /\ 1 <= d /\ u[1].of.n \in Nat
         /\ Carried(u, kind)[1] = IF u[1].of.kind = kind THEN u[1].of.n ELSE 0
         /\ \A i \in Nat : LogonOf(t, i) => LogonOf(u, i + d) /\ i >= 1
         /\ \A i \in Nat : LogonOf(u, i) => i = 1 \/ (i - d \in Nat /\ LogonOf(t, i - d))
         /\ \A s : OfSession(u, s) => OfSession(t, s)
<1>1. /\ u[1].of \in Sent(proto) /\ d \in 1..Len(u) /\ Len(t) \in Nat
      /\ Len(u) = d + Len(t) /\ \A i \in 1..Len(t) : t[i] = u[i + d]
  <2>1. u[1].of \in Sent(proto) /\ StartsWith(u, u[1].of)
    BY FrontPacket
  <2> QED
    BY <2>1, LenProperties DEF CutBy, StartsWith
<1>a. ASSUME NEW i \in 1..d PROVE u[i].at = i
  <2>1. StartsWith(u, u[1].of)
    BY FrontPacket
  <2>2. u[i] = Byte(u[1].of, i)
    BY <2>1 DEF StartsWith
  <2> QED
    BY <2>2 DEF Byte
<1>2. d \in Nat /\ 1 <= d /\ u[1].of.n \in Nat
  BY <1>1 DEF Sent
<1>3. ASSUME NEW i \in 1..Len(t) PROVE i + d \in 1..Len(u) /\ i >= 1 /\ i + d \in Nat
  <2>1. Len(t) \in Nat /\ Len(u) = d + Len(t) /\ d \in Nat
    BY <1>1, <1>2
  <2> QED
    BY ONLY <2>1, i \in 1..Len(t)
<1>4. /\ \A i \in Nat : Carried(u, kind)[i] =
           IF i \in 1..Len(u) /\ u[i].at = 1 /\ u[i].of.kind = kind THEN u[i].of.n ELSE 0
      /\ \A i \in Nat : Carried(t, kind)[i] =
           IF i \in 1..Len(t) /\ t[i].at = 1 /\ t[i].of.kind = kind THEN t[i].of.n ELSE 0
  BY DEF Carried
<1>5. Later(Carried(u, kind), Carried(t, kind), d)
  <2> SUFFICES ASSUME NEW i \in Nat, Carried(t, kind)[i] # 0
               PROVE  i >= 1 /\ Carried(t, kind)[i] = Carried(u, kind)[i + d]
    BY DEF Later
  <2>1. i \in 1..Len(t) /\ t[i].at = 1 /\ t[i].of.kind = kind /\ Carried(t, kind)[i] = t[i].of.n
    BY <1>4
  <2> QED
    BY <1>1, <1>3, <1>4, <2>1
<1>6. Carried(u, kind)[1] = IF u[1].of.kind = kind THEN u[1].of.n ELSE 0
  BY <1>4
<1>b. ASSUME NEW i \in 1..Len(u), u[i].at = 1, i # 1
      PROVE  i - d \in 1..Len(t) /\ i - d \in Nat /\ t[i - d] = u[i]
  <2>1. i \notin 1..d
    BY <1>a, <1>b
  <2>2. Len(u) = d + Len(t) /\ d \in Nat /\ Len(t) \in Nat
    BY <1>1, <1>2
  <2>3. i - d \in 1..Len(t) /\ i - d \in Nat /\ (i - d) + d = i
    BY ONLY <2>1, <2>2, i \in 1..Len(u)
  <2> QED
    BY <1>1, <2>3
<1>9. Shifted(Carried(u, kind), Carried(t, kind), d)
  <2> SUFFICES ASSUME NEW i \in Nat, Carried(u, kind)[i] # 0, i # 1
               PROVE  i - d \in Nat /\ Carried(t, kind)[i - d] = Carried(u, kind)[i]
    BY DEF Shifted
  <2>1. i \in 1..Len(u) /\ u[i].at = 1 /\ u[i].of.kind = kind /\ Carried(u, kind)[i] = u[i].of.n
    BY <1>4
  <2> QED
    BY <1>4, <1>b, <2>1
<1>10. \A i \in Nat : LogonOf(u, i) => i = 1 \/ (i - d \in Nat /\ LogonOf(t, i - d))
  BY <1>b DEF LogonOf
<1>7. \A i \in Nat : LogonOf(t, i) => LogonOf(u, i + d) /\ i >= 1
  BY <1>1, <1>3 DEF LogonOf
<1>8. \A s : OfSession(u, s) => OfSession(t, s)
  BY <1>1, <1>3 DEF OfSession
<1> QED
  BY <1>2, <1>5, <1>6, <1>7, <1>8, <1>9, <1>10

\* and in any case.
LEMMA CarriedNat ==
  ASSUME NEW proto \in {BNET, BNLS}, NEW u, Framed(proto, u), NEW kind
  PROVE  \A i \in Nat : Carried(u, kind)[i] \in Nat
<1>1. \A i \in 1..Len(u) : u[i] \in ByteSet(proto)
  BY ElementOfSeq DEF Framed
<1>2. \A i \in 1..Len(u) : u[i].of.n \in Nat
  BY <1>1 DEF ByteSet, Sent
<1> QED
  BY <1>2 DEF Carried

\* m_Packets, likewise.
LEMMA LogonsIn ==
  ASSUME NEW c \in Seq(Sent(BNET))
  PROVE  /\ \A p \in Sent(BNET), i \in Nat :
              LogonIn(Append(c, p), i) <=> LogonIn(c, i) \/ (i = Len(c) + 1 /\ IsLogon(p))
         /\ c # <<>> => /\ \A i \in Nat : LogonIn(Tail(c), i) => LogonIn(c, i + 1) /\ i >= 1
                        /\ \A i \in Nat : LogonIn(c, i) =>
                             i = 1 \/ (i - 1 \in Nat /\ LogonIn(Tail(c), i - 1))
                        /\ IsLogon(Head(c)) => LogonIn(c, 1)
<1>1. Len(c) \in Nat
  BY LenProperties
<1>2. ASSUME NEW p \in Sent(BNET), NEW i \in Nat
      PROVE  LogonIn(Append(c, p), i) <=> LogonIn(c, i) \/ (i = Len(c) + 1 /\ IsLogon(p))
  <2> DEFINE e == Append(c, p)
             l == Len(c)
  <2>1. Len(e) = l + 1 /\ e[l + 1] = p /\ \A j \in 1..l : e[j] = c[j]
    BY AppendProperties
  <2> HIDE DEF e
  <2>2. i \in 1..l + 1 <=> i \in 1..l \/ i = l + 1
    BY <1>1
  <2>3. l + 1 \notin 1..l
    BY <1>1
  <2> HIDE DEF l
  <2>4. LogonIn(c, i) <=> i \in 1..l /\ IsLogon(c[i])
    BY DEF LogonIn, l
  <2>5. LogonIn(e, i) <=> i \in 1..l + 1 /\ IsLogon(e[i])
    BY <2>1 DEF LogonIn
  <2>6. LogonIn(e, i) <=> LogonIn(c, i) \/ (i = l + 1 /\ IsLogon(p))
    BY <2>1, <2>2, <2>3, <2>4, <2>5
  <2> QED
    BY <2>6 DEF e, l
<1>3. ASSUME c # <<>>
      PROVE  /\ \A i \in Nat : LogonIn(Tail(c), i) => LogonIn(c, i + 1) /\ i >= 1
             /\ \A i \in Nat : LogonIn(c, i) =>
                  i = 1 \/ (i - 1 \in Nat /\ LogonIn(Tail(c), i - 1))
             /\ IsLogon(Head(c)) => LogonIn(c, 1)
  <2>1. Len(c) # 0 /\ Head(c) = c[1]
    BY <1>3, EmptySeq
  <2>2. Len(Tail(c)) = Len(c) - 1 /\ \A i \in 1..Len(Tail(c)) : Tail(c)[i] = c[i + 1]
    BY <1>3, HeadTailProperties
  <2>3. \A i \in 1..Len(Tail(c)) : i + 1 \in 1..Len(c) /\ i >= 1
    BY <1>1, <2>2
  <2>4. 1 \in 1..Len(c)
    BY <1>1, <2>1
  <2>5. ASSUME NEW i \in 1..Len(c), i # 1
        PROVE  i - 1 \in Nat /\ i - 1 \in 1..Len(Tail(c)) /\ Tail(c)[i - 1] = c[i]
    <3>1. i - 1 \in 1..Len(Tail(c)) /\ i - 1 \in Nat /\ (i - 1) + 1 = i
      BY <1>1, <2>2, <2>5
    <3> QED
      BY <2>2, <3>1
  <2>6. \A i \in Nat : LogonIn(c, i) => i = 1 \/ (i - 1 \in Nat /\ LogonIn(Tail(c), i - 1))
    BY <2>5 DEF LogonIn
  <2>7. \A i \in Nat : LogonIn(Tail(c), i) => LogonIn(c, i + 1) /\ i >= 1
    BY <2>2, <2>3 DEF LogonIn
  <2> QED
    BY <2>1, <2>4, <2>6, <2>7 DEF LogonIn
<1> QED
  BY <1>2, <1>3

-----------------------------------------------------------------------------
(* From battle.net to m_Packets.                                           *)

\* Nothing on its way, and nothing in the buffer.
LEMMA EmptyStream ==
  ASSUME NEW proto
  PROVE  /\ Buffers(proto, <<>>, <<>>) /\ Len(<<>> \o <<>>) = 0
         /\ \A i \in Nat : ~LogonOf(<<>> \o <<>>, i)
<1>1. <<>> \o <<>> = <<>> /\ <<>> \in Seq(ByteSet(proto)) /\ Len(<<>>) = 0
  BY EmptySeq, ConcatEmptySeq
<1>2. Framed(proto, <<>>) /\ \A i \in Nat : ~LogonOf(<<>>, i)
  BY <1>1 DEF Framed, LogonOf
<1> QED
  BY <1>1, <1>2 DEF Buffers

\* A step that leaves battle.net's packets alone; it may delete the client.
LEMMA BnetQuiet ==
  ASSUME BnetInv, UNCHANGED <<buf, wire, packets, session, greeted, requested>>,
         client' \in {client, FALSE},
         conn' = "down" => conn = "down" /\ pc' = pc,
         pc' \notin {"extract", "process"} => pc \notin {"extract", "process"} \/ packets = <<>>
  PROVE  BnetInv'
<1>1. Bnet' = Bnet
  BY DEF Bnet
<1>2. packets = <<>> => 1..Len(packets) = {}
  BY EmptySeq
<1>b. client \in BOOLEAN /\ Leftovers /\ OneLogon
  BY DEF BnetInv
<1>c. client' \in BOOLEAN
  BY <1>b
<1>d. client' => client
  OBVIOUS
<1>e. UNCHANGED <<packets, session, greeted, requested>>
  OBVIOUS
<1>a. /\ UNCHANGED <<packets, session, greeted, requested>> /\ (client' => client)
      /\ client' \in BOOLEAN /\ Leftovers /\ OneLogon
  BY <1>b, <1>c, <1>d, <1>e
<1>3. Leftovers'
  <2>1. \A i \in 1..Len(packets') :
          /\ packets'[i].session <= session'
          /\ packets'[i].session # session' => ~IsLogon(packets'[i]) /\ ~client'
    BY <1>a DEF Leftovers
  <2>2. \A i \in 1..Len(packets') :
          pc' \notin {"extract", "process"} => ~IsLogon(packets'[i])
    BY <1>2, <1>a DEF Leftovers
  <2>3. \A i, j \in 1..Len(packets') :
          i < j /\ packets'[i].session = session' => packets'[j].session = session'
    BY <1>a DEF Leftovers
  <2> QED
    BY <2>1, <2>2, <2>3 DEF Leftovers
<1>4. OneLogon'
  BY <1>1, <1>a DEF OneLogon
<1>5. /\ Buffers(BNET, buf', wire') /\ packets' \in Seq(Sent(BNET)) /\ session' \in Nat
      /\ OfSession(Bnet', session')
  BY <1>1 DEF BnetInv
<1>6. greeted' \in BOOLEAN /\ requested' \in BOOLEAN
  BY <1>a DEF BnetInv
<1>7. conn' = "down" => pc' = "idle" /\ ~client' /\ buf' = <<>>
  BY <1>a DEF BnetInv
<1> QED
  BY <1>a, <1>3, <1>4, <1>5, <1>6, <1>7 DEF BnetInv

\* m_Packets stays when a session ends, without packets of its logon.
LEMMA GiveUpBnet == ASSUME BnetInv, GiveUp PROVE BnetInv'
<1>1. /\ conn' = "down" /\ buf' = <<>> /\ wire' = <<>> /\ client' = FALSE /\ pc = "idle"
      /\ UNCHANGED <<packets, pc, session, greeted, requested>>
  BY DEF GiveUp
<1>2. Buffers(BNET, buf', wire') /\ Len(Bnet') = 0 /\ \A i \in Nat : ~LogonOf(Bnet', i)
  BY <1>1, EmptyStream DEF Bnet
<1>3. \A i \in Nat : ~LogonIn(packets, i)
  BY <1>1 DEF BnetInv, Leftovers, LogonIn
<1>4. Leftovers'
  BY <1>1 DEF BnetInv, Leftovers
<1>5. OneLogon'
  BY <1>1, <1>2, <1>3 DEF BnetInv, OneLogon
<1>6. /\ packets' \in Seq(Sent(BNET)) /\ client' \in BOOLEAN /\ session' \in Nat
      /\ greeted' \in BOOLEAN /\ requested' \in BOOLEAN
  BY <1>1 DEF BnetInv
<1>7. OfSession(Bnet', session')
  BY <1>2 DEF OfSession
<1> QED
  BY <1>1, <1>2, <1>4, <1>5, <1>6, <1>7 DEF BnetInv

\* They are of an earlier session from now on.
LEMMA ConnectBnet == ASSUME BnetInv, Connect PROVE BnetInv'
<1>1. /\ conn' = "up" /\ wire' = <<>> /\ session' = session + 1 /\ ~greeted' /\ ~requested'
      /\ greeted' \in BOOLEAN /\ requested' \in BOOLEAN
      /\ buf' = <<>> /\ pc = "idle" /\ ~client
      /\ UNCHANGED <<packets, pc, client>>
  BY DEF Connect, BnetInv
<1>2. Buffers(BNET, buf', wire') /\ Len(Bnet') = 0 /\ \A i \in Nat : ~LogonOf(Bnet', i)
  BY <1>1, EmptyStream DEF Bnet
<1>3. \A i \in 1..Len(packets) : ~IsLogon(packets[i])
  BY <1>1 DEF BnetInv, Leftovers
<1>4. \A i \in Nat : ~LogonIn(packets, i)
  BY <1>3 DEF LogonIn
<1>5. \A i \in 1..Len(packets) : packets[i].session < session'
  <2> SUFFICES ASSUME NEW i \in 1..Len(packets) PROVE packets[i].session < session'
    OBVIOUS
  <2>1. packets[i] \in Sent(BNET)
    BY ElementOfSeq DEF BnetInv
  <2>2. packets[i].session \in Nat /\ packets[i].session <= session /\ session \in Nat
    BY <2>1 DEF Sent, BnetInv, Leftovers
  <2> QED
    BY <1>1, <2>2
<1>6. session' \in Nat /\ session' # session
  BY <1>1 DEF BnetInv
<1>7. Leftovers'
  <2>1. \A i \in 1..Len(packets) :
          packets[i].session <= session' /\ packets[i].session # session'
    <3> SUFFICES ASSUME NEW i \in 1..Len(packets)
                 PROVE  packets[i].session <= session' /\ packets[i].session # session'
      OBVIOUS
    <3>1. packets[i] \in Sent(BNET)
      BY ElementOfSeq DEF BnetInv
    <3>2. packets[i].session \in Nat
      BY <3>1 DEF Sent
    <3> QED
      BY <1>5, <1>6, <3>2
  <2> QED
    BY <1>1, <1>3, <2>1 DEF Leftovers
<1>8. OneLogon'
  BY <1>1, <1>2, <1>4 DEF OneLogon
<1>9. packets' \in Seq(Sent(BNET)) /\ client' \in BOOLEAN /\ OfSession(Bnet', session')
  BY <1>1, <1>2 DEF BnetInv, OfSession
<1> QED
  BY <1>1, <1>2, <1>6, <1>7, <1>8, <1>9 DEF BnetInv

\* Reading, however much.
LEMMA ReceiveBnet == ASSUME BnetInv, NEW k \in 0..Len(wire), Receive(k) PROVE BnetInv'
<1>1. /\ conn = "up" /\ pc' = "extract"
      /\ buf' = buf \o SubSeq(wire, 1, k) /\ wire' = SubSeq(wire, k + 1, Len(wire))
      /\ UNCHANGED <<conn, packets, client, session, greeted, requested>>
  BY DEF Receive
<1>2. Buffers(BNET, buf, wire)
  BY DEF BnetInv
<1>3. Buffers(BNET, buf', wire') /\ Bnet' = Bnet
  <2>1. ReadBy(buf, wire, k, buf', wire')
    BY <1>1 DEF ReadBy
  <2>2. Buffers(BNET, buf', wire') /\ buf' \o wire' = buf \o wire
    BY ONLY <1>2, <2>1, Reading
  <2> QED
    BY <2>2 DEF Bnet
<1>4. Leftovers'
  BY <1>1 DEF BnetInv, Leftovers
<1>5. OneLogon'
  BY <1>1, <1>3 DEF BnetInv, OneLogon
<1> QED
  BY <1>1, <1>3, <1>4, <1>5 DEF BnetInv

\* A packet goes from the buffer to m_Packets.
LEMMA ExtractBnet == ASSUME BnetInv, Extract PROVE BnetInv'
<1>1. CASE UNCHANGED <<buf, packets>> /\ pc' = "process" /\ conn' \in {conn, "lost"}
  <2>1. UNCHANGED <<wire, session, greeted, requested, client>> /\ pc = "extract"
    BY DEF Extract, world
  <2>2. conn # "down"
    BY <2>1 DEF BnetInv
  <2> QED
    BY <1>1, <2>1, <2>2, BnetQuiet
<1>2. CASE /\ HasHeader(BNET, buf) /\ ~Malformed(BNET, buf) /\ HasPacket(BNET, buf)
           /\ packets' = Append(packets, buf[1].of) /\ buf' = Left(BNET, buf)
           /\ UNCHANGED <<conn, pc>>
  <2> DEFINE p == buf[1].of
             d == p.size
             u == Bnet
             t == Bnet'
             l == Len(packets)
  <2>1. /\ UNCHANGED <<wire, session, greeted, requested, client>> /\ pc = "extract"
        /\ Buffers(BNET, buf, wire) /\ packets \in Seq(Sent(BNET)) /\ l \in Nat
        /\ Leftovers /\ OneLogon /\ session \in Nat
    BY LenProperties DEF Extract, world, BnetInv
  <2>2. /\ Buffers(BNET, buf', wire') /\ 1 \in 1..Len(u) /\ p = u[1].of
        /\ p \in Sent(BNET) /\ u[1].at = 1 /\ CutBy(u, t, d)
    BY <1>2, <2>1, TakingPacket DEF Bnet
  <2>3. Framed(BNET, u) /\ t \in Seq(ByteSet(BNET))
    BY <2>1, <2>2 DEF Buffers, Bnet, Framed
  <2>4. p.session = session /\ OfSession(u, session)
    BY <2>2 DEF BnetInv, OfSession
  <2> HIDE DEF p, d, u, t
  <2>5. /\ d \in Nat /\ 1 <= d
        /\ \A i \in Nat : LogonOf(t, i) => LogonOf(u, i + d) /\ i >= 1
        /\ OfSession(t, session)
    <3>1. /\ 1 \in 1..Len(u) /\ d = u[1].of.size /\ u[1].at = 1 /\ CutBy(u, t, d)
      BY <2>2 DEF d
    <3>2. BNET \in {BNET, BNLS}
      OBVIOUS
    <3>3. /\ Later(Carried(u, "warden"), Carried(t, "warden"), d)
          /\ d \in Nat /\ 1 <= d
          /\ \A i \in Nat : LogonOf(t, i) => LogonOf(u, i + d) /\ i >= 1
          /\ \A s : OfSession(u, s) => OfSession(t, s)
      BY ONLY <2>3, <3>1, <3>2, CarriedLess
    <3> QED
      BY <2>4, <3>3
  <2>6. /\ packets' = Append(packets, p) /\ packets' \in Seq(Sent(BNET))
        /\ Len(packets') = l + 1
        /\ packets'[l + 1] = p /\ \A i \in 1..l : packets'[i] = packets[i]
        /\ \A i \in Nat :
             LogonIn(packets', i) <=> LogonIn(packets, i) \/ (i = l + 1 /\ IsLogon(p))
    BY <1>2, <2>1, <2>2, AppendProperties, LogonsIn DEF p
  <2> HIDE DEF l
  <2>7. Leftovers'
    <3>1. \A i \in 1..l + 1 : i \in 1..l \/ i = l + 1
      BY <2>1
    <3>2. \A i \in 1..l + 1 :
            /\ packets'[i].session <= session
            /\ packets'[i].session # session => ~IsLogon(packets'[i]) /\ ~client
      BY <2>1, <2>4, <2>6, <3>1 DEF Leftovers, l
    <3>3. \A i, j \in 1..l + 1 :
            i < j /\ packets'[i].session = session => packets'[j].session = session
      <4> SUFFICES ASSUME NEW i \in 1..l + 1, NEW j \in 1..l + 1, i < j,
                          packets'[i].session = session
                   PROVE  packets'[j].session = session
        OBVIOUS
      <4>1. i \in 1..l
        BY <2>1
      <4> QED
        BY <2>1, <2>4, <2>6, <3>1, <4>1 DEF Leftovers, l
    <3> QED
      BY <1>2, <2>1, <2>6, <3>2, <3>3 DEF Leftovers
  <2>8. OneLogon'
    <3>1. IsLogon(p) <=> LogonOf(u, 1)
      BY <2>2 DEF LogonOf
    <3>2. \A i \in Nat : LogonOf(t, i) => LogonOf(u, i + d) /\ i + d \in Nat /\ i + d # 1
      <4>1. d >= 1
        BY <2>5
      <4> QED
        BY <2>5, <4>1
    <3>3. OneLogon /\ 1 \in Nat
      BY <2>1
    <3>4. \A i, j \in Nat : LogonIn(packets', i) /\ LogonIn(packets', j) => i = j
      BY <2>6, <3>1, <3>3 DEF OneLogon, u
    <3>5. \A i, j \in Nat : LogonOf(t, i) /\ LogonOf(t, j) => i = j
      <4> SUFFICES ASSUME NEW i \in Nat, NEW j \in Nat, LogonOf(t, i), LogonOf(t, j)
                   PROVE  i = j
        OBVIOUS
      <4>1. i + d = j + d
        BY <3>2, <3>3 DEF OneLogon, u
      <4> QED
        BY <2>5, <4>1
    <3>6. \A i, j \in Nat : ~(LogonIn(packets', i) /\ LogonOf(t, j))
      BY <2>6, <3>1, <3>2, <3>3 DEF OneLogon, u
    <3>7. ~greeted \/ requested => \A i \in Nat : ~LogonIn(packets', i) /\ ~LogonOf(t, i)
      BY <2>6, <3>1, <3>2, <3>3 DEF OneLogon, u
    <3> QED
      BY <2>1, <3>3, <3>4, <3>5, <3>6, <3>7 DEF OneLogon, t
  <2>9. conn' # "down"
    BY <1>2, <2>1 DEF BnetInv
  <2> QED
    BY <2>1, <2>2, <2>5, <2>6, <2>7, <2>8, <2>9 DEF BnetInv, t
<1> QED
  BY <1>1, <1>2 DEF Extract

\* A packet of this model is one that may be sent.
LEMMA PacketSent ==
  ASSUME NEW proto \in {BNET, BNLS}, NEW kind \in Kinds, NEW s \in Nat, NEW n \in Nat,
         kind \in {"warden", "answer"} => n # 0
  PROVE  /\ Packet(proto, kind, s, n) \in Sent(proto)
         /\ Packet(proto, kind, s, n).kind = kind /\ Packet(proto, kind, s, n).session = s
         /\ Packet(proto, kind, s, n).n = n
<1> DEFINE e == IF kind \in {"warden", "answer"} THEN 1 ELSE 0
           z == proto.header + e
<1>1. proto.header \in Nat
  BY Protocols
<1>2. z \in Nat /\ z >= proto.header
  BY <1>1
<1>3. Packet(proto, kind, s, n) = [kind |-> kind, session |-> s, n |-> n,
                                   wellFormed |-> kind # "malformed", size |-> z]
  BY DEF Packet
<1> HIDE DEF z
<1>4. (kind # "malformed") \in BOOLEAN
  OBVIOUS
<1> QED
  BY <1>2, <1>3, <1>4 DEF Sent

\* The first packet is processed; after one of a logon, there is no other.
LEMMA ProcessedBnet ==
  ASSUME BnetInv, pc = "process", packets # <<>>, packets' = Tail(packets),
         UNCHANGED <<buf, wire, session, greeted>>, conn' # "down",
         NEW p, p = Head(packets),
         client' \in BOOLEAN, requested' \in BOOLEAN,
         client' => client \/ IsLogon(p), requested' => requested \/ IsLogon(p),
         pc' = "process" \/ IsLogon(p)
  PROVE  BnetInv'
<1>1. /\ packets \in Seq(Sent(BNET)) /\ Leftovers /\ OneLogon /\ Buffers(BNET, buf, wire)
      /\ session \in Nat /\ OfSession(Bnet, session) /\ Bnet' = Bnet
      /\ greeted \in BOOLEAN
  BY DEF BnetInv, Bnet
<1>2. /\ packets' \in Seq(Sent(BNET)) /\ Len(packets) \in Nat /\ Len(packets) # 0
      /\ Len(packets') = Len(packets) - 1 /\ p = packets[1]
      /\ \A i \in 1..Len(packets') : packets'[i] = packets[i + 1]
  BY <1>1, HeadTailProperties, EmptySeq, LenProperties
<1>3. /\ 1 \in 1..Len(packets)
      /\ \A i \in 1..Len(packets') : i + 1 \in 1..Len(packets) /\ 1 < i + 1
  BY <1>2
<1>4. /\ \A i \in Nat : LogonIn(packets', i) => LogonIn(packets, i + 1) /\ i + 1 \in Nat
                                               /\ i + 1 # 1
      /\ IsLogon(p) <=> LogonIn(packets, 1)
  BY <1>2, <1>3 DEF LogonIn
<1>5. IsLogon(p) => /\ \A i \in Nat : ~LogonIn(packets', i) /\ ~LogonOf(Bnet, i)
                    /\ greeted
  BY <1>1, <1>4 DEF OneLogon
<1>6. IsLogon(p) => /\ \A i \in 1..Len(packets') : packets'[i].session = session
                    /\ \A i \in 1..Len(packets') : ~IsLogon(packets'[i])
  <2> SUFFICES ASSUME IsLogon(p), NEW i \in 1..Len(packets')
               PROVE  packets'[i].session = session /\ ~IsLogon(packets'[i])
    OBVIOUS
  <2>1. p.session = session
    BY <1>1, <1>2, <1>3 DEF Leftovers
  <2>2. packets'[i].session = session
    BY <1>1, <1>2, <1>3, <2>1 DEF Leftovers
  <2>3. ~LogonIn(packets', i) /\ i \in Nat
    BY <1>5
  <2> QED
    BY <2>2, <2>3 DEF LogonIn
<1>7. Leftovers'
  <2>1. ASSUME NEW i \in 1..Len(packets')
        PROVE  /\ packets'[i].session <= session'
               /\ packets'[i].session # session' => ~IsLogon(packets'[i]) /\ ~client'
               /\ pc' \notin {"extract", "process"} => ~IsLogon(packets'[i])
    <3>1. CASE IsLogon(p)
      <4>1. packets'[i].session = session' /\ ~IsLogon(packets'[i])
        BY <1>6, <3>1
      <4>2. session' <= session'
        BY <1>1
      <4> QED
        BY <4>1, <4>2
    <3>2. CASE ~IsLogon(p)
      <4>1. packets'[i] = packets[i + 1] /\ i + 1 \in 1..Len(packets)
        BY <1>2, <1>3
      <4>2. client' => client
        BY <3>2
      <4>3. pc' = "process"
        BY <3>2
      <4>4. session' = session
        OBVIOUS
      <4> QED
        BY <1>1, <4>1, <4>2, <4>3, <4>4 DEF Leftovers
    <3> QED
      BY <3>1, <3>2
  <2>2. \A i, j \in 1..Len(packets') :
          i < j /\ packets'[i].session = session => packets'[j].session = session
    <3> SUFFICES ASSUME NEW i \in 1..Len(packets'), NEW j \in 1..Len(packets'), i < j,
                        packets'[i].session = session
                 PROVE  packets'[j].session = session
      OBVIOUS
    <3>1. i + 1 < j + 1
      BY <1>2
    <3> QED
      BY <1>1, <1>2, <1>3, <3>1 DEF Leftovers
  <2>3. session' = session
    OBVIOUS
  <2> QED
    BY <2>1, <2>2, <2>3 DEF Leftovers
<1>8. OneLogon'
  <2>1. \A i, j \in Nat : LogonIn(packets', i) /\ LogonIn(packets', j) => i = j
    <3> SUFFICES ASSUME NEW i \in Nat, NEW j \in Nat, LogonIn(packets', i),
                        LogonIn(packets', j)
                 PROVE  i = j
      OBVIOUS
    <3>1. i + 1 = j + 1
      BY <1>1, <1>4 DEF OneLogon
    <3> QED
      BY <3>1
  <2>2. \A i, j \in Nat : LogonOf(Bnet', i) /\ LogonOf(Bnet', j) => i = j
    BY <1>1 DEF OneLogon
  <2>3. \A i, j \in Nat : ~(LogonIn(packets', i) /\ LogonOf(Bnet', j))
    BY <1>1, <1>4 DEF OneLogon
  <2>4. ~greeted' => ~requested'
    <3>1. ~greeted => ~requested
      BY <1>1 DEF OneLogon
    <3> QED
      BY <1>5, <3>1
  <2>5. ~greeted' \/ requested' => \A i \in Nat : ~LogonIn(packets', i) /\ ~LogonOf(Bnet', i)
    <3>1. ~greeted \/ requested => \A i \in Nat : ~LogonIn(packets, i) /\ ~LogonOf(Bnet, i)
      BY <1>1 DEF OneLogon
    <3>2. CASE ~greeted \/ requested
      BY <1>1, <1>4, <3>1, <3>2
    <3>3. CASE ~(~greeted' \/ requested') \/ IsLogon(p)
      BY <1>1, <1>5, <3>3
    <3> QED
      BY <3>2, <3>3
  <2> QED
    BY <2>1, <2>2, <2>3, <2>4, <2>5 DEF OneLogon
<1>9. Buffers(BNET, buf', wire') /\ session' \in Nat /\ OfSession(Bnet', session')
  BY <1>1
<1>10. greeted' \in BOOLEAN
  BY <1>1
<1> QED
  BY <1>2, <1>7, <1>8, <1>9, <1>10 DEF BnetInv

\* Battle.net sends a packet.
LEMMA ServerBnet ==
  ASSUME BnetInv, NEW p \in Sent(BNET), p.session = session, conn = "up",
         wire' = wire \o Bytes(p), UNCHANGED <<bot, session>>,
         greeted' \in BOOLEAN, requested' \in BOOLEAN,
         IF IsLogon(p) THEN (~greeted \/ requested) /\ greeted' /\ ~requested'
                       ELSE UNCHANGED <<greeted, requested>>
  PROVE  BnetInv'
<1>1. /\ UNCHANGED <<conn, buf, packets, client, pc>> /\ Buffers(BNET, buf, wire)
      /\ packets \in Seq(Sent(BNET)) /\ session \in Nat
      /\ Leftovers /\ OneLogon /\ OfSession(Bnet, session)
  BY DEF bot, BnetInv
<1>a. client' \in BOOLEAN
  BY DEF bot, BnetInv
<1>2. /\ Buffers(BNET, buf', wire') /\ Bnet' = Bnet \o Bytes(p)
  <2>1. BNET \in {BNET, BNLS} /\ p \in Sent(BNET)
    OBVIOUS
  <2>2. /\ Buffers(BNET, buf, wire \o Bytes(p))
        /\ buf \o (wire \o Bytes(p)) = (buf \o wire) \o Bytes(p)
    BY ONLY <1>1, <2>1, SendingPacket
  <2> QED
    BY <1>1, <2>2 DEF Bnet
<1> DEFINE u == Bnet
           v == Bnet \o Bytes(p)
           e == Len(u) + 1
<1>3. Framed(BNET, u) /\ BNET \in {BNET, BNLS} /\ p \in Sent(BNET)
  BY <1>1 DEF Buffers, Bnet
<1>4. /\ IF p.kind = "warden" THEN Longer(Carried(u, "warden"), Carried(v, "warden"), e, p.n)
                              ELSE Carried(v, "warden") = Carried(u, "warden")
      /\ \A i \in Nat : LogonOf(v, i) <=> LogonOf(u, i) \/ (i = e /\ IsLogon(p))
      /\ \A s : OfSession(u, s) /\ p.session = s => OfSession(v, s)
  BY ONLY <1>3, CarriedMore
<1> HIDE DEF e
<1>5. OfSession(Bnet', session')
  BY <1>1, <1>2, <1>4
<1>6. Leftovers'
  BY <1>1 DEF Leftovers
<1>7. OneLogon'
  <2>1. CASE IsLogon(p)
    <3>1. \A i \in Nat : ~LogonIn(packets, i) /\ ~LogonOf(u, i)
      BY <1>1, <2>1 DEF OneLogon
    <3>2. \A i \in Nat : LogonOf(Bnet', i) => i = e
      BY <1>2, <1>4, <3>1
    <3>3. \A i \in Nat : ~LogonIn(packets', i)
      BY <1>1, <3>1
    <3>4. greeted' /\ ~requested'
      BY <2>1
    <3> QED
      BY <3>2, <3>3, <3>4 DEF OneLogon
  <2>2. CASE ~IsLogon(p)
    <3>1. \A i \in Nat : LogonOf(Bnet', i) <=> LogonOf(u, i)
      BY <1>2, <1>4, <2>2
    <3>2. UNCHANGED <<greeted, requested, packets>>
      BY <1>1, <2>2
    <3> QED
      BY <1>1, <3>1, <3>2 DEF OneLogon
  <2> QED
    BY <2>1, <2>2
<1>8. packets' \in Seq(Sent(BNET)) /\ session' \in Nat /\ conn' # "down"
  BY <1>1
<1> QED
  BY <1>a, <1>2, <1>5, <1>6, <1>7, <1>8 DEF BnetInv

\* Every step keeps BnetInv.
LEMMA BnetStep ==
  ASSUME BnetInv, asked \in Nat, [Next]_vars
  PROVE  BnetInv'
<1>1. CASE UNCHANGED vars
  <2>1. UNCHANGED <<buf, wire, packets, session, greeted, requested, client, conn, pc>>
    BY <1>1 DEF vars, bot, world
  <2>2. conn' = "down" => conn = "down" /\ pc' = pc
    BY <2>1
  <2>3. pc' \notin {"extract", "process"} => pc \notin {"extract", "process"}
    BY <2>1
  <2> QED
    BY <2>1, <2>2, <2>3, BnetQuiet
<1>q. ASSUME UNCHANGED <<conn, buf, wire, packets, session, greeted, requested>>,
             client' \in {client, FALSE}, pc # "idle",
             pc' \notin {"extract", "process"}
               => pc \notin {"extract", "process"} \/ packets = <<>>
      PROVE  BnetInv'
  <2>1. conn' # "down"
    BY <1>q DEF BnetInv
  <2> QED
    BY <1>q, <2>1, BnetQuiet
<1>2. CASE GiveUp
  BY <1>2, GiveUpBnet
<1>3. CASE Connect
  BY <1>3, ConnectBnet
<1>4. ASSUME NEW k \in 0..Len(wire), Receive(k) PROVE BnetInv'
  BY <1>4, ReceiveBnet
<1>5. CASE ReceiveFails
  BY <1>5, BnetQuiet DEF ReceiveFails
<1>6. CASE Extract
  BY <1>6, ExtractBnet
<1>7. CASE ProcessInfo
  <2>1. /\ pc = "process" /\ packets # <<>> /\ packets' = Tail(packets)
        /\ IsLogon(Head(packets)) /\ client' = TRUE /\ requested' = TRUE
        /\ UNCHANGED <<conn, buf, wire, session, greeted, pc>>
    BY <1>7 DEF ProcessInfo, BeginWarden, IsLogon
  <2>2. conn' # "down" /\ client' \in BOOLEAN /\ requested' \in BOOLEAN
    BY <2>1 DEF BnetInv
  <2> QED
    BY <2>1, <2>2, ProcessedBnet
<1>8. CASE ProcessWarden
  <2>1. /\ pc = "process" /\ packets # <<>> /\ packets' = Tail(packets)
        /\ UNCHANGED <<conn, buf, wire, session, greeted, pc, client, requested>>
    BY <1>8 DEF ProcessWarden, world
  <2>2. conn' # "down" /\ client' \in BOOLEAN /\ requested' \in BOOLEAN
    BY <2>1 DEF BnetInv
  <2> QED
    BY <2>1, <2>2, ProcessedBnet
<1>9. CASE Disconnect
  <2>1. /\ pc = "process" /\ packets # <<>> /\ packets' = Tail(packets)
        /\ IsLogon(Head(packets)) /\ conn' = "lost"
        /\ UNCHANGED <<buf, wire, session, greeted, client, requested>>
    BY <1>9 DEF Disconnect, IsLogon
  <2>2. client' \in BOOLEAN /\ requested' \in BOOLEAN
    BY <2>1 DEF BnetInv
  <2> QED
    BY <2>1, <2>2, ProcessedBnet
<1>10. CASE AllProcessed
  <2>1. /\ UNCHANGED <<conn, buf, wire, packets, session, greeted, requested>>
        /\ client' \in {client, FALSE} /\ pc # "idle"
        /\ packets = <<>>
    BY <1>10 DEF AllProcessed, world
  <2> QED
    BY <1>q, <2>1
<1>11. CASE SkipClient \/ SendNothing
  BY <1>11, BnetQuiet DEF SkipClient, SendNothing, world, BnetInv
<1>12. CASE DeleteClient
  <2>1. /\ UNCHANGED <<conn, buf, wire, packets, session, greeted, requested>>
        /\ client' \in {client, FALSE} /\ pc # "idle"
        /\ pc \notin {"extract", "process"}
    BY <1>12 DEF DeleteClient
  <2> QED
    BY <1>q, <2>1
<1>13. CASE ClientConnects
  <2>1. /\ UNCHANGED <<conn, buf, wire, packets, session, greeted, requested>>
        /\ client' \in {client, FALSE} /\ pc # "idle"
        /\ pc \notin {"extract", "process"}
    BY <1>13 DEF ClientConnects
  <2> QED
    BY <1>q, <2>1
<1>14. ASSUME NEW k \in 0..Len(bnlsWire), ClientReceive(k) PROVE BnetInv'
  <2>1. /\ UNCHANGED <<conn, buf, wire, packets, session, greeted, requested>>
        /\ client' \in {client, FALSE} /\ pc # "idle"
        /\ pc \notin {"extract", "process"}
    BY <1>14 DEF ClientReceive
  <2> QED
    BY <1>q, <2>1
<1>15. CASE ClientReceiveFails
  <2>1. /\ UNCHANGED <<conn, buf, wire, packets, session, greeted, requested>>
        /\ client' \in {client, FALSE} /\ pc # "idle"
        /\ pc \notin {"extract", "process"}
    BY <1>15 DEF ClientReceiveFails
  <2> QED
    BY <1>q, <2>1
<1>16. CASE ClientExtract \/ ClientExtracted
  <2>1. /\ UNCHANGED <<conn, buf, wire, packets, session, greeted, requested>>
        /\ client' \in {client, FALSE} /\ pc # "idle"
        /\ pc \notin {"extract", "process"}
    BY <1>16 DEF ClientExtract, ClientExtracted, world
  <2> QED
    BY <1>q, <2>1
<1>17. CASE Flush
  <2>1. /\ UNCHANGED <<conn, buf, wire, packets, session, greeted, requested>>
        /\ client' \in {client, FALSE} /\ pc # "idle"
        /\ pc \notin {"extract", "process"}
    BY <1>17 DEF Flush
  <2> QED
    BY <1>q, <2>1
<1>18. CASE Relay
  <2>1. /\ UNCHANGED <<conn, buf, wire, packets, session, greeted, requested>>
        /\ client' \in {client, FALSE} /\ pc # "idle"
        /\ pc \notin {"extract", "process"}
    BY <1>18 DEF Relay, world
  <2> QED
    BY <1>q, <2>1
<1>19. CASE Send
  <2>1. /\ UNCHANGED <<conn, buf, wire, packets, session, greeted, requested>>
        /\ client' \in {client, FALSE} /\ pc # "idle"
        /\ pc \notin {"extract", "process"}
    BY <1>19 DEF Send
  <2> QED
    BY <1>q, <2>1
<1>20. CASE BnlsServes \/ BnlsErrs
  BY <1>20, BnetQuiet DEF BnlsServes, BnlsErrs, bot
<1>s. BNET \in {BNET, BNLS} /\ session \in Nat /\ 0 \in Nat /\ asked + 1 \in Nat
      /\ asked + 1 # 0 /\ greeted \in BOOLEAN /\ requested \in BOOLEAN /\ OneLogon
  BY DEF BnetInv
<1>21. CASE Greet
  <2> DEFINE p == Packet(BNET, "info", session, 0)
  <2>1. p \in Sent(BNET) /\ IsLogon(p) /\ p.session = session
    BY <1>s, PacketSent DEF Kinds, IsLogon
  <2>2. /\ conn = "up" /\ wire' = wire \o Bytes(p) /\ UNCHANGED <<bot, session>>
        /\ greeted' = TRUE /\ ~greeted /\ requested' = requested
    BY <1>21 DEF Greet
  <2>3. ~requested' /\ requested' \in BOOLEAN /\ greeted' \in BOOLEAN
    BY <1>s, <2>2 DEF OneLogon
  <2> HIDE DEF p
  <2> QED
    BY <2>1, <2>2, <2>3, ServerBnet
<1>22. CASE AskWarden
  <2> DEFINE p == Packet(BNET, "warden", session, asked + 1)
  <2>1. p \in Sent(BNET) /\ ~IsLogon(p) /\ p.session = session
    BY <1>s, PacketSent DEF Kinds, IsLogon
  <2>2. /\ conn = "up" /\ wire' = wire \o Bytes(p) /\ UNCHANGED <<bot, session>>
        /\ UNCHANGED <<greeted, requested>>
    BY <1>22 DEF AskWarden
  <2>3. requested' \in BOOLEAN /\ greeted' \in BOOLEAN
    BY <1>s, <2>2
  <2> HIDE DEF p
  <2> QED
    BY <2>1, <2>2, <2>3, ServerBnet
<1>23. CASE Refuse
  <2> DEFINE p == Packet(BNET, "refused", session, 0)
  <2>1. p \in Sent(BNET) /\ IsLogon(p) /\ p.session = session
    BY <1>s, PacketSent DEF Kinds, IsLogon
  <2>2. /\ conn = "up" /\ wire' = wire \o Bytes(p) /\ UNCHANGED <<bot, session>>
        /\ requested' = FALSE /\ requested /\ greeted' = greeted
    BY <1>23 DEF Refuse
  <2>3. greeted' /\ requested' \in BOOLEAN /\ greeted' \in BOOLEAN
    BY <1>s, <2>2 DEF OneLogon
  <2> HIDE DEF p
  <2> QED
    BY <2>1, <2>2, <2>3, ServerBnet
<1>24. CASE Misbehave
  <2> DEFINE p == Packet(BNET, "malformed", session, 0)
  <2>1. p \in Sent(BNET) /\ ~IsLogon(p) /\ p.session = session
    BY <1>s, PacketSent DEF Kinds, IsLogon
  <2>2. /\ conn = "up" /\ wire' = wire \o Bytes(p) /\ UNCHANGED <<bot, session>>
        /\ UNCHANGED <<greeted, requested>>
    BY <1>24 DEF Misbehave
  <2>3. requested' \in BOOLEAN /\ greeted' \in BOOLEAN
    BY <1>s, <2>2
  <2> HIDE DEF p
  <2> QED
    BY <2>1, <2>2, <2>3, ServerBnet
<1> QED
  BY <1>1, <1>2, <1>3, <1>4, <1>5, <1>6, <1>7, <1>8, <1>9, <1>10, <1>11, <1>12, <1>13, <1>14,
     <1>15, <1>16, <1>17, <1>18, <1>19, <1>20, <1>21, <1>22, <1>23, <1>24 DEF Next, Update

-----------------------------------------------------------------------------
(* The client.                                                             *)

\* Queues of one session, when something is added or taken.
LEMMA FromOf ==
  ASSUME NEW X, NEW s
  PROVE  /\ <<>> \in Seq(X) /\ From(<<>>, s)
         /\ \A x \in X : <<x>> \in Seq(X) /\ (x.session = s => From(<<x>>, s))
         /\ \A c \in Seq(X), x \in X :
              From(c, s) /\ x.session = s => From(Append(c, x), s)
         /\ \A c \in Seq(X) : From(c, s) /\ c # <<>> => From(Tail(c), s) /\ Head(c).session = s
         /\ \A c, d \in Seq(X) : From(c, s) /\ From(d, s) => From(c \o d, s)
<1>1. <<>> \in Seq(X) /\ From(<<>>, s)
  BY EmptySeq DEF From
<1>2. ASSUME NEW x \in X PROVE <<x>> \in Seq(X) /\ (x.session = s => From(<<x>>, s))
  <2>1. <<x>> \in Seq(X) /\ Len(<<x>>) = 1 /\ <<x>>[1] = x
    OBVIOUS
  <2>2. \A i \in 1..1 : i = 1
    OBVIOUS
  <2> QED
    BY <2>1, <2>2 DEF From
<1>3. ASSUME NEW c \in Seq(X), NEW x \in X, From(c, s), x.session = s
      PROVE  From(Append(c, x), s)
  <2> DEFINE e == Append(c, x)
  <2>1. /\ Len(e) = Len(c) + 1 /\ e[Len(c) + 1] = x /\ \A i \in 1..Len(c) : e[i] = c[i]
        /\ Len(c) \in Nat
    BY AppendProperties, LenProperties
  <2> HIDE DEF e
  <2>2. \A i \in 1..Len(e) : i \in 1..Len(c) \/ i = Len(c) + 1
    BY <2>1
  <2>3. From(e, s)
    BY <1>3, <2>1, <2>2 DEF From
  <2> QED
    BY <2>3 DEF e
<1>4. ASSUME NEW c \in Seq(X), From(c, s), c # <<>>
      PROVE  From(Tail(c), s) /\ Head(c).session = s
  <2> DEFINE e == Tail(c)
  <2>1. /\ Len(e) = Len(c) - 1 /\ \A i \in 1..Len(e) : e[i] = c[i + 1]
        /\ Len(c) \in Nat /\ Len(c) # 0 /\ Head(c) = c[1]
    BY <1>4, HeadTailProperties, LenProperties, EmptySeq
  <2> HIDE DEF e
  <2>2. 1 \in 1..Len(c) /\ \A i \in 1..Len(e) : i + 1 \in 1..Len(c)
    BY <2>1
  <2>3. From(e, s) /\ Head(c).session = s
    BY <1>4, <2>1, <2>2 DEF From
  <2> QED
    BY <2>3 DEF e
<1>5. ASSUME NEW c \in Seq(X), NEW d \in Seq(X), From(c, s), From(d, s)
      PROVE  From(c \o d, s)
  <2> DEFINE e == c \o d
  <2>1. c \in Seq(X) /\ d \in Seq(X)
    OBVIOUS
  <2>2. /\ Len(e) = Len(c) + Len(d)
        /\ \A i \in 1..Len(c) + Len(d) : e[i] = IF i <= Len(c) THEN c[i] ELSE d[i - Len(c)]
    BY ONLY <2>1, ConcatProperties
  <2>3. Len(c) \in Nat /\ Len(d) \in Nat
    BY LenProperties
  <2> HIDE DEF e
  <2>4. ASSUME NEW i \in 1..Len(e) PROVE e[i].session = s
    <3>1. CASE i <= Len(c)
      <4>1. i \in 1..Len(c) /\ e[i] = c[i]
        BY <2>2, <2>3, <3>1
      <4> QED
        BY <1>5, <4>1 DEF From
    <3>2. CASE ~(i <= Len(c))
      <4>1. i - Len(c) \in 1..Len(d) /\ e[i] = d[i - Len(c)]
        BY <2>2, <2>3, <3>2
      <4> QED
        BY <1>5, <4>1 DEF From
    <3> QED
      BY <3>1, <3>2
  <2>5. From(e, s)
    BY <2>4 DEF From
  <2> QED
    BY <2>5 DEF e
<1> QED
  BY <1>1, <1>2, <1>3, <1>4, <1>5

\* A client that has just been made, or none.
LEMMA FreshClient ==
  ASSUME session \in Nat, NEW x, x \in Seq(Requests), From(x, session),
         client' \/ x = <<>>, NoClientBut(x), UNCHANGED session
  PROVE  ClientInv'
<1>1. /\ bnlsBuf' = <<>> /\ bnlsWire' = <<>> /\ responses' = <<>> /\ toBnls' = <<>>
      /\ bnlsOut' = x /\ session' = session
  BY DEF NoClientBut
<1>2. Buffers(BNLS, bnlsBuf', bnlsWire') /\ Len(Bnls') = 0
  BY <1>1, EmptyStream DEF Bnls
<1>3. toBnls' \in Seq(Requests) /\ From(toBnls', session')
  BY <1>1, FromOf
<1>4. responses' \in Seq(Challenges) /\ From(responses', session')
  BY <1>1, FromOf
<1>5. OfSession(Bnls', session')
  BY <1>2 DEF OfSession
<1>6. bnlsOut' \in Seq(Requests) /\ From(bnlsOut', session')
  BY <1>1
<1> QED
  BY <1>1, <1>2, <1>3, <1>4, <1>5, <1>6 DEF ClientInv

\* A step that leaves the client alone.
LEMMA ClientQuiet ==
  ASSUME ClientInv,
         UNCHANGED <<client, bnlsBuf, bnlsWire, toBnls, bnlsOut, responses, session>>
  PROVE  ClientInv'
BY DEF ClientInv, Bnls

\* A request is added to the client's queue.
LEMMA RequestAdded ==
  ASSUME ClientInv, client, NEW x \in Requests, x.session = session,
         bnlsOut' = Append(bnlsOut, x),
         UNCHANGED <<client, bnlsBuf, bnlsWire, toBnls, responses, session>>
  PROVE  ClientInv'
<1>1. bnlsOut \in Seq(Requests) /\ From(bnlsOut, session)
  BY DEF ClientInv
<1>2. bnlsOut' \in Seq(Requests)
  BY <1>1, AppendProperties
<1>3. From(bnlsOut', session')
  BY <1>1, FromOf
<1> QED
  BY <1>2, <1>3 DEF ClientInv, Bnls

\* BNLS sends a packet, and has one request less.
LEMMA ServerBnls ==
  ASSUME ClientInv, NEW p \in Sent(BNLS), p.session = session,
         bnlsWire' = bnlsWire \o Bytes(p), toBnls # <<>>, toBnls' = Tail(toBnls),
         UNCHANGED <<client, bnlsBuf, bnlsOut, responses, session>>
  PROVE  ClientInv' /\ Bnls' = Bnls \o Bytes(p)
<1>1. /\ Buffers(BNLS, bnlsBuf, bnlsWire) /\ OfSession(Bnls, session)
      /\ toBnls \in Seq(Requests) /\ From(toBnls, session) /\ client
  BY DEF ClientInv
<1>2. Buffers(BNLS, bnlsBuf', bnlsWire') /\ Bnls' = Bnls \o Bytes(p)
  <2>1. BNLS \in {BNET, BNLS} /\ p \in Sent(BNLS)
    OBVIOUS
  <2>2. /\ Buffers(BNLS, bnlsBuf, bnlsWire \o Bytes(p))
        /\ bnlsBuf \o (bnlsWire \o Bytes(p)) = (bnlsBuf \o bnlsWire) \o Bytes(p)
    BY ONLY <1>1, <2>1, SendingPacket
  <2> QED
    BY <2>2 DEF Bnls
<1>3. OfSession(Bnls', session')
  <2> DEFINE u == Bnls
             v == Bnls \o Bytes(p)
             e == Len(u) + 1
  <2>1. Framed(BNLS, u) /\ BNLS \in {BNET, BNLS} /\ p \in Sent(BNLS)
    BY <1>1 DEF Buffers, Bnls
  <2>2. /\ IF p.kind = "warden" THEN Longer(Carried(u, "warden"), Carried(v, "warden"), e, p.n)
                                ELSE Carried(v, "warden") = Carried(u, "warden")
        /\ \A i \in Nat : LogonOf(v, i) <=> LogonOf(u, i) \/ (i = e /\ IsLogon(p))
        /\ \A s : OfSession(u, s) /\ p.session = s => OfSession(v, s)
    BY ONLY <2>1, CarriedMore
  <2> QED
    BY <1>1, <1>2, <2>2
<1>a. toBnls' \in Seq(Requests)
  BY <1>1, HeadTailProperties
<1>b. From(toBnls', session')
  BY <1>1, FromOf
<1>4. toBnls' \in Seq(Requests) /\ From(toBnls', session')
  BY <1>a, <1>b
<1> QED
  BY <1>1, <1>2, <1>3, <1>4 DEF ClientInv

\* A packet of BNLS is taken; what it carried may be kept.
LEMMA ExtractClient ==
  ASSUME ClientInv, ClientExtract
  PROVE  /\ ClientInv'
         /\ \E p \in Sent(BNLS) :
              /\ 1 \in 1..Len(Bnls) /\ p = Bnls[1].of /\ Bnls[1].at = 1
              /\ CutBy(Bnls, Bnls', p.size) /\ Bnls' \in Seq(ByteSet(BNLS))
              /\ responses' = IF p.kind = "answer" THEN Append(responses, Challenge(p))
                                                   ELSE responses
              /\ p.kind = "answer" => Challenge(p) \in Challenges
<1> DEFINE p == bnlsBuf[1].of
<1>1. /\ HasHeader(BNLS, bnlsBuf) /\ ~Malformed(BNLS, bnlsBuf) /\ HasPacket(BNLS, bnlsBuf)
      /\ responses' = IF p.kind = "answer" THEN Append(responses, Challenge(p)) ELSE responses
      /\ bnlsBuf' = Left(BNLS, bnlsBuf)
      /\ UNCHANGED <<client, bnlsOut, toBnls, bnlsWire, session>>
  BY DEF ClientExtract, world
<1>2. Buffers(BNLS, bnlsBuf, bnlsWire) /\ BNLS \in {BNET, BNLS}
      /\ OfSession(Bnls, session) /\ responses \in Seq(Challenges) /\ From(responses, session)
  BY DEF ClientInv
<1>3. /\ Buffers(BNLS, bnlsBuf', bnlsWire')
      /\ 1 \in 1..Len(Bnls) /\ p = Bnls[1].of /\ p \in Sent(BNLS) /\ p.kind # "malformed"
      /\ Bnls[1].at = 1 /\ CutBy(Bnls, Bnls', p.size)
  BY <1>1, <1>2, TakingPacket DEF Bnls
<1> HIDE DEF p
<1>4. p.session = session
  BY <1>2, <1>3 DEF OfSession
<1>5. p.kind = "answer" => Challenge(p) \in Challenges /\ Challenge(p).session = session
  BY <1>3, <1>4 DEF Challenge, Challenges, Sent
<1>6. Framed(BNLS, Bnls) /\ Bnls' \in Seq(ByteSet(BNLS))
  BY <1>2, <1>3 DEF Buffers, Bnls, Framed
<1>7. OfSession(Bnls', session')
  <2> DEFINE u == Bnls
             t == Bnls'
             d == p.size
  <2>1. /\ 1 \in 1..Len(u) /\ d = u[1].of.size /\ u[1].at = 1 /\ CutBy(u, t, d)
        /\ Framed(BNLS, u) /\ t \in Seq(ByteSet(BNLS))
    BY <1>3, <1>6
  <2> HIDE DEF u, t, d
  <2>2. Later(Carried(u, "warden"), Carried(t, "warden"), d)
        /\ \A s : OfSession(u, s) => OfSession(t, s)
    BY ONLY <1>2, <2>1, CarriedLess
  <2> QED
    BY <1>1, <1>2, <2>2 DEF u, t
<1>8. ASSUME client PROVE responses' \in Seq(Challenges) /\ From(responses', session')
  <2>1. CASE p.kind = "answer"
    <3>1. responses' = Append(responses, Challenge(p)) /\ Challenge(p) \in Challenges
          /\ Challenge(p).session = session
      BY <1>1, <1>5, <2>1 DEF p
    <3>2. responses' \in Seq(Challenges)
      BY <1>2, <3>1, AppendProperties
    <3>3. From(responses', session)
      BY <1>2, <3>1, FromOf
    <3> QED
      BY <1>1, <3>2, <3>3
  <2>2. CASE p.kind # "answer"
    BY <1>1, <1>2, <2>2 DEF p
  <2> QED
    BY <2>1, <2>2
<1>9. client
  <2> SUFFICES ASSUME ~client PROVE FALSE
    OBVIOUS
  <2>1. bnlsBuf = <<>>
    BY DEF ClientInv
  <2>2. Len(bnlsBuf) = 0
    BY <2>1
  <2> QED
    BY <1>1, <2>2 DEF HasHeader, BNLS
<1>10. ClientInv'
  <2>1. /\ toBnls' \in Seq(Requests) /\ bnlsOut' \in Seq(Requests)
        /\ From(toBnls', session') /\ From(bnlsOut', session') /\ client'
    BY <1>1, <1>9 DEF ClientInv
  <2> QED
    BY <1>3, <1>7, <1>8, <1>9, <2>1 DEF ClientInv
<1>11. /\ responses' = IF p.kind = "answer" THEN Append(responses, Challenge(p)) ELSE responses
       /\ p.kind = "answer" => Challenge(p) \in Challenges
  BY <1>1, <1>5 DEF p
<1> QED
  BY <1>3, <1>6, <1>10, <1>11

\* Every step keeps ClientInv.
LEMMA ClientStep ==
  ASSUME BnetInv, ClientInv, [Next]_vars
  PROVE  ClientInv'
<1>0. <<>> \in Seq(Requests) /\ From(<<>>, session) /\ session \in Nat
  BY FromOf DEF BnetInv
<1>a. /\ bnlsOut \in Seq(Requests) /\ From(bnlsOut, session)
      /\ toBnls \in Seq(Requests) /\ From(toBnls, session)
      /\ responses \in Seq(Challenges) /\ From(responses, session)
      /\ Buffers(BNLS, bnlsBuf, bnlsWire) /\ OfSession(Bnls, session)
  BY DEF ClientInv
<1>p. packets # <<>> => /\ Head(packets) \in Sent(BNET)
                        /\ client \/ IsLogon(Head(packets)) => Head(packets).session = session
  <2> SUFFICES ASSUME packets # <<>>
               PROVE  /\ Head(packets) \in Sent(BNET)
                      /\ client \/ IsLogon(Head(packets)) => Head(packets).session = session
    OBVIOUS
  <2>1. packets \in Seq(Sent(BNET)) /\ Leftovers
    BY DEF BnetInv
  <2>2. 1 \in 1..Len(packets) /\ Head(packets) = packets[1]
    BY <2>1, EmptySeq, LenProperties
  <2>3. packets[1] \in Sent(BNET)
    BY <2>1, <2>2, ElementOfSeq
  <2> QED
    BY <2>1, <2>2, <2>3 DEF Leftovers
<1>1. CASE UNCHANGED vars
  BY <1>1, ClientQuiet DEF vars, bot, world
<1>2. CASE GiveUp \/ DeleteClient
  <2>1. NoClientBut(<<>>) /\ UNCHANGED session
    BY <1>2 DEF GiveUp, DeleteClient, NoClient, NoClientBut
  <2> QED
    BY <1>0, <2>1, FreshClient
<1>3. CASE Connect
  <2>1. ~client
    BY <1>3 DEF Connect, BnetInv
  <2>2. UNCHANGED <<client, bnlsBuf, bnlsWire, toBnls, bnlsOut, responses>>
    BY <1>3 DEF Connect
  <2>3. /\ bnlsBuf' = <<>> /\ bnlsWire' = <<>> /\ responses' = <<>>
        /\ toBnls' = <<>> /\ bnlsOut' = <<>>
    BY <2>1, <2>2 DEF ClientInv
  <2>4. Buffers(BNLS, bnlsBuf', bnlsWire') /\ Len(Bnls') = 0
    BY <2>3, EmptyStream DEF Bnls
  <2>5. <<>> \in Seq(Requests) /\ <<>> \in Seq(Challenges) /\ From(<<>>, session')
    BY FromOf
  <2>6. OfSession(Bnls', session')
    BY <2>4 DEF OfSession
  <2> QED
    BY <2>3, <2>4, <2>5, <2>6 DEF ClientInv
<1>4. CASE ProcessInfo
  <2> DEFINE x == [kind |-> "seed", session |-> Head(packets).session, n |-> 0]
  <2>1. /\ packets # <<>> /\ IsLogon(Head(packets))
        /\ client' = TRUE /\ NoClientBut(<<x>>) /\ UNCHANGED session
    BY <1>4 DEF ProcessInfo, BeginWarden, IsLogon, NoClientBut
  <2>2. x.session = session /\ x \in Requests
    BY <1>0, <1>p, <2>1 DEF Requests
  <2> HIDE DEF x
  <2>3. <<x>> \in Seq(Requests) /\ From(<<x>>, session)
    BY <2>2, FromOf
  <2> QED
    BY <1>0, <2>1, <2>3, FreshClient
<1>5. CASE ProcessWarden
  <2> DEFINE x == [kind |-> "raw", session |-> Head(packets).session, n |-> Head(packets).n]
  <2>1. /\ packets # <<>> /\ Head(packets).kind = "warden"
        /\ bnlsOut' = IF client THEN Append(bnlsOut, x) ELSE bnlsOut
        /\ UNCHANGED <<client, bnlsBuf, bnlsWire, toBnls, responses, session>>
    BY <1>5 DEF ProcessWarden, world
  <2>2. CASE client
    <3>1. x.session = session /\ x \in Requests
      BY <1>p, <2>1, <2>2 DEF Requests, Sent
    <3>2. bnlsOut' = Append(bnlsOut, x)
      BY <2>1, <2>2
    <3> HIDE DEF x
    <3> QED
      BY <2>1, <2>2, <3>1, <3>2, RequestAdded
  <2>3. CASE ~client
    BY <2>1, <2>3, ClientQuiet
  <2> QED
    BY <2>2, <2>3
<1>6. ASSUME NEW k \in 0..Len(bnlsWire), ClientReceive(k) PROVE ClientInv'
  <2>1. /\ ReadBy(bnlsBuf, bnlsWire, k, bnlsBuf', bnlsWire') /\ client
        /\ UNCHANGED <<client, toBnls, bnlsOut, responses, session>>
    BY <1>6 DEF ClientReceive, ReadBy
  <2>2. Buffers(BNLS, bnlsBuf', bnlsWire') /\ bnlsBuf' \o bnlsWire' = bnlsBuf \o bnlsWire
    BY ONLY <1>a, <2>1, Reading, SMTT(30)
  <2> QED
    BY <1>a, <2>1, <2>2 DEF ClientInv, Bnls
<1>7. CASE ClientExtract
  BY <1>7, ExtractClient
<1>8. CASE Flush
  <2>1. /\ toBnls' = IF sock = "up" THEN toBnls \o bnlsOut ELSE toBnls
        /\ bnlsOut' = <<>>
        /\ UNCHANGED <<client, bnlsBuf, bnlsWire, responses, session>>
    BY <1>8 DEF Flush
  <2>2. toBnls \o bnlsOut \in Seq(Requests) /\ From(toBnls \o bnlsOut, session)
    BY <1>a, FromOf, ConcatProperties
  <2>3. toBnls' \in Seq(Requests) /\ From(toBnls', session)
    BY <1>a, <2>1, <2>2
  <2>4. ~client => toBnls' = <<>>
    <3>1. ~client => toBnls = <<>> /\ bnlsOut = <<>>
      BY DEF ClientInv
    <3> QED
      BY <2>1, <3>1, ConcatEmptySeq
  <2> QED
    BY <1>0, <1>a, <2>1, <2>3, <2>4 DEF ClientInv, Bnls
<1>9. CASE Relay
  <2>1. /\ UNCHANGED <<client, bnlsBuf, bnlsWire, toBnls, bnlsOut, session>>
        /\ IF responses = <<>> THEN responses' = responses ELSE responses' = Tail(responses)
    BY <1>9 DEF Relay, world
  <2>2. CASE responses = <<>>
    BY <2>1, <2>2, ClientQuiet
  <2>3. CASE responses # <<>>
    <3>1. responses' \in Seq(Challenges)
      BY <1>a, <2>1, <2>3, HeadTailProperties
    <3>a. responses' = Tail(responses)
      BY <2>1, <2>3
    <3>2. From(responses', session)
      BY <1>a, <2>3, <3>a, FromOf
    <3>3. client
      BY <2>3 DEF ClientInv
    <3> QED
      BY <2>1, <3>1, <3>2, <3>3 DEF ClientInv, Bnls
  <2> QED
    BY <2>2, <2>3
<1>10. CASE BnlsServes \/ BnlsErrs
  <2> DEFINE q == Head(toBnls)
  <2>1. /\ toBnls # <<>> /\ toBnls' = Tail(toBnls)
        /\ UNCHANGED <<client, bnlsBuf, bnlsOut, responses, session>>
    BY <1>10 DEF BnlsServes, BnlsErrs, bot
  <2>2. q \in Requests /\ q.session = session
    BY <1>a, <2>1, FromOf, HeadTailProperties
  <2> HIDE DEF q
  <2>3. q.n \in Nat /\ q.kind \in {"seed", "raw"} /\ (q.kind = "raw" => q.n # 0)
    BY <2>2 DEF Requests
  <2>4. \/ q.kind = "seed" /\ bnlsWire' = bnlsWire
        \/ \E kind \in {"answer", "errorcode", "malformed"} :
             /\ q.kind = "raw"
             /\ bnlsWire' = bnlsWire \o Bytes(Packet(BNLS, kind, session, q.n))
    BY <1>10, <2>2, <2>3 DEF BnlsServes, BnlsErrs, q
  <2>5. CASE q.kind = "seed" /\ bnlsWire' = bnlsWire
    <3>1. toBnls' \in Seq(Requests)
      BY <1>a, <2>1, HeadTailProperties
    <3>2. From(toBnls', session)
      BY <1>a, <2>1, FromOf
    <3>3. client
      BY <2>1 DEF ClientInv
    <3> QED
      BY <2>1, <2>5, <3>1, <3>2, <3>3 DEF ClientInv, Bnls
  <2>6. ASSUME NEW kind \in {"answer", "errorcode", "malformed"}, q.kind = "raw",
               bnlsWire' = bnlsWire \o Bytes(Packet(BNLS, kind, session, q.n))
        PROVE  ClientInv'
    <3> DEFINE p == Packet(BNLS, kind, session, q.n)
    <3>1. p \in Sent(BNLS) /\ p.session = session
      BY <1>0, <2>3, <2>6, PacketSent, SMTT(30) DEF Kinds
    <3>2. bnlsWire' = bnlsWire \o Bytes(p)
      BY <2>6
    <3> HIDE DEF p
    <3> QED
      BY <2>1, <3>1, <3>2, ServerBnls
  <2> QED
    BY <2>4, <2>5, <2>6
<1>11. CASE (\E k \in 0..Len(wire) : Receive(k)) \/ ReceiveFails \/ Extract \/ Disconnect
            \/ AllProcessed \/ SkipClient \/ ClientConnects \/ ClientReceiveFails
            \/ ClientExtracted \/ Send \/ SendNothing
  <2>1. UNCHANGED <<client, bnlsBuf, bnlsWire, toBnls, bnlsOut, responses, session>>
    BY <1>11 DEF Receive, ReceiveFails, Extract, Disconnect, AllProcessed, SkipClient,
       ClientConnects, ClientReceiveFails, ClientExtracted, Send, SendNothing, world
  <2> QED
    BY <2>1, ClientQuiet
<1>12. CASE Greet \/ AskWarden \/ Refuse \/ Misbehave
  <2>1. UNCHANGED <<client, bnlsBuf, bnlsWire, toBnls, bnlsOut, responses, session>>
    BY <1>12 DEF Greet, AskWarden, Refuse, Misbehave, bot
  <2> QED
    BY <2>1, ClientQuiet
<1> QED
  BY <1>1, <1>2, <1>3, <1>4, <1>5, <1>6, <1>7, <1>8, <1>9, <1>10, <1>11, <1>12
  DEF Next, Update

-----------------------------------------------------------------------------
(* The answers.                                                            *)

\* The places one by one; nothing is at 0.
LEMMA PlacesOf ==
  ASSUME NEW o \in Seq(Challenges), NEW r \in Seq(Challenges), NEW v, Framed(BNLS, v),
         NEW a \in Seq(Requests), NEW ps \in Seq(Sent(BNET)), NEW s, NEW u, Framed(BNET, u),
         NEW T, T = PipeOf(o, r, v, a, ps, s, u)
  PROVE  /\ AllNat(T) /\ \A k \in Places : T[k][0] = 0
         /\ T[1] = Numbers(o) /\ T[2] = Numbers(r) /\ T[3] = Carried(v, "answer")
         /\ T[4] = Raws(a) /\ T[5] = Wardens(ps, s) /\ T[6] = Carried(u, "warden")
<1>1. /\ T[1] = Numbers(o) /\ T[2] = Numbers(r) /\ T[3] = Carried(v, "answer")
      /\ T[4] = Raws(a) /\ T[5] = Wardens(ps, s) /\ T[6] = Carried(u, "warden")
  BY DEF PipeOf, Places
<1>2. BNET \in {BNET, BNLS} /\ BNLS \in {BNET, BNLS}
  OBVIOUS
<1>3. \A k \in Places : k = 1 \/ k = 2 \/ k = 3 \/ k = 4 \/ k = 5 \/ k = 6
  BY DEF Places
<1>4. /\ \A i \in Nat : Numbers(o)[i] \in Nat
      /\ \A i \in Nat : Numbers(r)[i] \in Nat
      /\ \A i \in Nat : Raws(a)[i] \in Nat
      /\ \A i \in Nat : Wardens(ps, s)[i] \in Nat
  BY NumbersOf, RawsOf, WardensOf
<1>5. /\ \A i \in Nat : Carried(v, "answer")[i] \in Nat
      /\ \A i \in Nat : Carried(u, "warden")[i] \in Nat
  BY <1>2, CarriedNat
<1>6. AllNat(T)
  BY <1>1, <1>3, <1>4, <1>5 DEF AllNat
<1>7. /\ Numbers(o)[0] = 0 /\ Numbers(r)[0] = 0 /\ Raws(a)[0] = 0 /\ Wardens(ps, s)[0] = 0
      /\ Carried(v, "answer")[0] = 0 /\ Carried(u, "warden")[0] = 0
  BY DEF Numbers, Raws, Wardens, Carried
<1> QED
  BY <1>1, <1>3, <1>6, <1>7

\* The same of Pipe, before a step
LEMMA PipePlaces ==
  ASSUME BnetInv, ClientInv, outPackets \in Seq(Challenges)
  PROVE  /\ AllNat(Pipe) /\ \A k \in Places : Pipe[k][0] = 0
         /\ Pipe[1] = Numbers(outPackets) /\ Pipe[2] = Numbers(responses)
         /\ Pipe[3] = Carried(Bnls, "answer") /\ Pipe[4] = Raws(Asking)
         /\ Pipe[5] = Wardens(packets, session) /\ Pipe[6] = Carried(Bnet, "warden")
<1>1. /\ responses \in Seq(Challenges) /\ Framed(BNLS, Bnls) /\ packets \in Seq(Sent(BNET))
      /\ Framed(BNET, Bnet)
  BY DEF BnetInv, ClientInv, Buffers, Bnet, Bnls
<1>2. Asking \in Seq(Requests)
  BY ConcatProperties DEF ClientInv, Asking
<1> QED
  BY <1>1, <1>2, PlacesOf DEF Pipe

\* and after it.
LEMMA PipePlacesNext ==
  ASSUME BnetInv', ClientInv', outPackets' \in Seq(Challenges)
  PROVE  /\ AllNat(Pipe') /\ \A k \in Places : Pipe'[k][0] = 0
         /\ Pipe'[1] = Numbers(outPackets') /\ Pipe'[2] = Numbers(responses')
         /\ Pipe'[3] = Carried(Bnls', "answer") /\ Pipe'[4] = Raws(Asking')
         /\ Pipe'[5] = Wardens(packets', session') /\ Pipe'[6] = Carried(Bnet', "warden")
<1>1. /\ responses' \in Seq(Challenges) /\ Framed(BNLS, Bnls') /\ packets' \in Seq(Sent(BNET))
      /\ Framed(BNET, Bnet')
  BY DEF BnetInv, ClientInv, Buffers, Bnet, Bnls
<1>2. Asking' \in Seq(Requests)
  BY ConcatProperties DEF ClientInv, Asking
<1> QED
  BY <1>1, <1>2, PlacesOf DEF Pipe

\* A place keeps what it has, or loses what is at its front, or everything.
Nothing(f) == \A i \in Nat : f[i] = 0
Fewer(f, g) == g = f \/ Nothing(g) \/ \E d \in Nat : Later(f, g, d)

\* Each of these is a cut.
LEMMA FewerIsLater ==
  ASSUME NEW f, NEW g, f[0] = 0, Fewer(f, g)
  PROVE  \E d \in Nat : Later(f, g, d)
<1>1. CASE g = f
  <2>1. \A i \in Nat : f[i] # 0 => i >= 1 /\ f[i] = f[i + 0]
    OBVIOUS
  <2>2. Later(f, g, 0)
    BY <1>1, <2>1 DEF Later
  <2> QED
    BY <2>2
<1>2. CASE Nothing(g)
  <2>1. Later(f, g, 0)
    BY <1>2 DEF Later, Nothing
  <2> QED
    BY <2>1
<1> QED
  BY <1>1, <1>2 DEF Fewer

\* Nothing is lost when the first of a place goes on to the next,
LEMMA MovedRetains ==
  ASSUME NEW T, NEW V, NEW c \in 1..5, NEW i0 \in Nat, NEW n, NEW d \in Nat,
         T[c + 1][1] = n, Longer(T[c], V[c], i0, n), Shifted(T[c + 1], V[c + 1], d),
         \A k \in Places : k # c /\ k # c + 1 => V[k] = T[k]
  PROVE  Retains(T, V)
<1>1. c \in Places /\ c + 1 \in Places
  <2>1. c \in 1..5
    OBVIOUS
  <2> QED
    BY ONLY <2>1 DEF Places
<1> SUFFICES ASSUME NEW m \in Nat \ {0}, NEW k \in Places, NEW i \in Nat, T[k][i] = m
             PROVE  \E l \in Places, j \in Nat : V[l][j] = m
  BY DEF Retains, Held
<1>2. CASE k = c
  <2>1. i < i0 /\ V[c][i] = T[c][i]
    BY <1>2 DEF Longer
  <2> QED
    BY <1>1, <1>2, <2>1
<1>3. CASE k = c + 1 /\ i = 1
  <2>1. V[c][i0] = m
    BY <1>3 DEF Longer
  <2> QED
    BY <1>1, <2>1
<1>4. CASE k = c + 1 /\ i # 1
  <2>1. i - d \in Nat /\ V[c + 1][i - d] = m
    BY <1>4 DEF Shifted
  <2> QED
    BY <1>1, <2>1
<1>5. CASE k # c /\ k # c + 1
  BY <1>5
<1> QED
  BY <1>2, <1>3, <1>4, <1>5

\* when a place has nothing to lose, or nothing at its front,
Keeps(f, g) == g = f \/ Nothing(f) \/ \E d \in Nat : f[1] = 0 /\ Shifted(f, g, d)

LEMMA KeptRetains ==
  ASSUME NEW T, NEW V, \A k \in Places : Keeps(T[k], V[k])
  PROVE  Retains(T, V)
<1> SUFFICES ASSUME NEW m \in Nat \ {0}, NEW k \in Places, NEW i \in Nat, T[k][i] = m
             PROVE  \E l \in Places, j \in Nat : V[l][j] = m
  BY DEF Retains, Held
<1>1. CASE V[k] = T[k]
  BY <1>1
<1>2. CASE Nothing(T[k])
  BY <1>2 DEF Nothing
<1>3. ASSUME NEW d \in Nat, T[k][1] = 0, Shifted(T[k], V[k], d)
      PROVE  \E l \in Places, j \in Nat : V[l][j] = m
  <2>1. i # 1
    BY <1>3
  <2>2. i - d \in Nat /\ V[k][i - d] = m
    BY <1>3, <2>1 DEF Shifted
  <2> QED
    BY <2>2
<1> QED
  BY <1>1, <1>2, <1>3 DEF Keeps

\* in the places that there are.
LEMMA PipeRetains ==
  ASSUME BnetInv, ClientInv, outPackets \in Seq(Challenges),
         BnetInv', ClientInv', outPackets' \in Seq(Challenges),
         Keeps(Numbers(outPackets), Numbers(outPackets')),
         Keeps(Numbers(responses), Numbers(responses')),
         Keeps(Carried(Bnls, "answer"), Carried(Bnls', "answer")),
         Keeps(Raws(Asking), Raws(Asking')),
         Keeps(Wardens(packets, session), Wardens(packets', session')),
         Keeps(Carried(Bnet, "warden"), Carried(Bnet', "warden"))
  PROVE  Retains(Pipe, Pipe')
<1> DEFINE T == Pipe
           V == Pipe'
<1>1. Keeps(T[1], V[1]) /\ Keeps(T[2], V[2]) /\ Keeps(T[3], V[3]) /\ Keeps(T[4], V[4])
      /\ Keeps(T[5], V[5]) /\ Keeps(T[6], V[6])
  BY PipePlaces, PipePlacesNext
<1>2. \A k \in Places : k = 1 \/ k = 2 \/ k = 3 \/ k = 4 \/ k = 5 \/ k = 6
  BY DEF Places
<1> HIDE DEF T, V
<1>3. \A k \in Places : Keeps(T[k], V[k])
  BY <1>1, <1>2
<1> QED
  BY <1>3, KeptRetains DEF T, V

\* Nothing new is asked or answered; some places lose what they have, or the first of one
\* goes on to the next.
LEMMA AnswersKept ==
  ASSUME BnetInv, ClientInv, AnswersInv, BnetInv', ClientInv',
         UNCHANGED <<session, answered, asked>>,
         outPackets' \in Seq(Challenges), From(outPackets', session),
         Fewer(Numbers(outPackets), Numbers(outPackets')),
         Fewer(Numbers(responses), Numbers(responses')),
         Fewer(Carried(Bnls, "answer"), Carried(Bnls', "answer")),
         Fewer(Raws(Asking), Raws(Asking')),
         Fewer(Wardens(packets, session), Wardens(packets', session')),
         Fewer(Carried(Bnet, "warden"), Carried(Bnet', "warden"))
  PROVE  AnswersInv'
<1> DEFINE T == Pipe
           V == Pipe'
           lo == answered.n
           hi == asked
<1>1. /\ answered \in [session : Nat, n : Nat] /\ hi \in Nat /\ outPackets \in Seq(Challenges)
      /\ InTurn(T, lo, hi)
  BY DEF AnswersInv
<1>2. lo \in Nat
  BY <1>1
<1>3. AllNat(T) /\ AllNat(V)
  BY <1>1, PipePlaces, PipePlacesNext
<1>4. \A k \in Places : \E d \in Nat : Later(T[k], V[k], d)
  <2> SUFFICES ASSUME NEW k \in Places PROVE \E d \in Nat : Later(T[k], V[k], d)
    OBVIOUS
  <2>1. k = 1 \/ k = 2 \/ k = 3 \/ k = 4 \/ k = 5 \/ k = 6
    BY DEF Places
  <2>2. Fewer(T[1], V[1]) /\ Fewer(T[2], V[2]) /\ Fewer(T[3], V[3]) /\ Fewer(T[4], V[4])
        /\ Fewer(T[5], V[5]) /\ Fewer(T[6], V[6])
    BY <1>1, PipePlaces, PipePlacesNext
  <2>3. T[k][0] = 0
    BY <1>1, PipePlaces
  <2> HIDE DEF T, V
  <2>4. Fewer(T[k], V[k])
    BY <2>1, <2>2
  <2> QED
    BY <2>3, <2>4, FewerIsLater
<1> HIDE DEF T, V, lo, hi
<1>5. InTurn(V, lo, hi)
  BY ONLY <1>1, <1>2, <1>3, <1>4, TurnKept
<1> QED
  BY <1>5 DEF AnswersInv, T, V, lo, hi

\* The first of a place goes on.
LEMMA AnswersMoved ==
  ASSUME BnetInv, ClientInv, AnswersInv, BnetInv', ClientInv',
         UNCHANGED <<session, answered, asked>>,
         outPackets' \in Seq(Challenges), From(outPackets', session),
         NEW c \in 1..5, NEW i0 \in Nat, NEW n \in Nat, NEW d \in Nat,
         Pipe[c + 1][1] = n, n # 0, 1 <= d,
         Longer(Pipe[c], Pipe'[c], i0, n), Later(Pipe[c + 1], Pipe'[c + 1], d),
         Shifted(Pipe[c + 1], Pipe'[c + 1], d),
         \A k \in Places : k # c /\ k # c + 1 => Pipe'[k] = Pipe[k]
  PROVE  AnswersInv' /\ Retains(Pipe, Pipe')
<1> DEFINE T == Pipe
           V == Pipe'
           lo == answered.n
           hi == asked
<1>1. /\ answered \in [session : Nat, n : Nat] /\ hi \in Nat /\ outPackets \in Seq(Challenges)
      /\ InTurn(T, lo, hi)
  BY DEF AnswersInv
<1>2. lo \in Nat
  BY <1>1
<1>3. AllNat(T) /\ AllNat(V)
  BY <1>1, PipePlaces, PipePlacesNext
<1>4. /\ c \in 1..5 /\ i0 \in Nat /\ n \in Nat /\ d \in Nat /\ 1 \in Nat
      /\ T[c + 1][1] = n /\ n # 0 /\ 1 <= d
      /\ Longer(T[c], V[c], i0, n) /\ Later(T[c + 1], V[c + 1], d)
      /\ Shifted(T[c + 1], V[c + 1], d)
      /\ \A k \in Places : k # c /\ k # c + 1 => V[k] = T[k]
  OBVIOUS
<1> HIDE DEF T, V, lo, hi
<1>5. InTurn(V, lo, hi)
  BY ONLY <1>1, <1>2, <1>3, <1>4, TurnMoved
<1>6. Retains(T, V)
  BY ONLY <1>4, MovedRetains
<1> QED
  BY <1>5, <1>6 DEF AnswersInv, T, V, lo, hi

\* Nothing goes anywhere.
LEMMA AnswersSame ==
  ASSUME BnetInv, ClientInv, AnswersInv, BnetInv', ClientInv',
         UNCHANGED <<session, answered, asked, outPackets, responses, Bnls, Asking, packets>>,
         Carried(Bnet', "warden") = Carried(Bnet, "warden")
  PROVE  AnswersInv' /\ Retains(Pipe, Pipe')
<1>1. /\ outPackets \in Seq(Challenges)
      /\ outPackets' \in Seq(Challenges) /\ From(outPackets', session)
  BY DEF AnswersInv
<1>2. AnswersInv'
  BY <1>1, AnswersKept DEF Fewer
<1>3. Retains(Pipe, Pipe')
  BY <1>1, PipeRetains DEF Keeps
<1> QED
  BY <1>2, <1>3

\* GetWardenResponse: from the client to m_OutPackets.
LEMMA RelayAnswers ==
  ASSUME BnetInv, ClientInv, AnswersInv, BnetInv', ClientInv', Relay
  PROVE  AnswersInv' /\ Retains(Pipe, Pipe')
<1>1. /\ UNCHANGED <<session, answered, asked, Bnls, Asking, packets, Bnet>>
      /\ outPackets \in Seq(Challenges) /\ From(outPackets, session)
      /\ responses \in Seq(Challenges) /\ From(responses, session)
  BY DEF Relay, world, Bnls, Asking, Bnet, AnswersInv, ClientInv
<1>2. CASE responses = <<>>
  <2>1. UNCHANGED <<outPackets, responses>>
    BY <1>2 DEF Relay
  <2> QED
    BY <1>1, <2>1, AnswersSame
<1>3. CASE responses # <<>>
  <2> DEFINE x == Head(responses)
             i0 == Len(outPackets) + 1
             n == x.n
  <2>1. outPackets' = Append(outPackets, x) /\ responses' = Tail(responses)
    BY <1>3 DEF Relay
  <2>2. x \in Challenges /\ x.session = session /\ n \in Nat /\ n # 0
    <3>1. x \in Challenges
      BY <1>1, <1>3, HeadTailProperties
    <3>2. x.session = session
      BY <1>1, <1>3, FromOf
    <3> QED
      BY <3>1, <3>2 DEF Challenges
  <2>3. i0 \in Nat
    BY <1>1, LenProperties
  <2> HIDE DEF x, n, i0
  <2>4. outPackets' \in Seq(Challenges) /\ From(outPackets', session)
    <3>1. outPackets' \in Seq(Challenges)
      BY <1>1, <2>1, <2>2, AppendProperties
    <3>2. From(outPackets', session)
      BY <1>1, <2>1, <2>2, FromOf
    <3> QED
      BY <3>1, <3>2
  <2>5. PICK c \in 1..5 : c = 1
    OBVIOUS
  <2>6. Longer(Pipe[c], Pipe'[c], i0, n)
    <3>1. Longer(Numbers(outPackets), Numbers(outPackets'), i0, n)
      BY <1>1, <2>1, <2>2, NumbersOf DEF i0, n
    <3> QED
      BY <1>1, <2>4, <2>5, <3>1, PipePlaces, PipePlacesNext
  <2>7. /\ Later(Pipe[c + 1], Pipe'[c + 1], 1) /\ Shifted(Pipe[c + 1], Pipe'[c + 1], 1)
        /\ Pipe[c + 1][1] = n
    <3>1. /\ Later(Numbers(responses), Numbers(responses'), 1)
          /\ Shifted(Numbers(responses), Numbers(responses'), 1) /\ Numbers(responses)[1] = n
      BY <1>1, <1>3, <2>1, NumbersOf DEF n, x
    <3>2. c + 1 = 2
      BY <2>5
    <3> QED
      BY <1>1, <2>4, <3>1, <3>2, PipePlaces, PipePlacesNext
  <2>8. \A k \in Places : k # c /\ k # c + 1 => Pipe'[k] = Pipe[k]
    <3>1. \A k \in Places : k # c /\ k # c + 1 => k = 3 \/ k = 4 \/ k = 5 \/ k = 6
      BY <2>5 DEF Places
    <3>2. Pipe'[3] = Pipe[3] /\ Pipe'[4] = Pipe[4] /\ Pipe'[5] = Pipe[5] /\ Pipe'[6] = Pipe[6]
      BY <1>1, <2>4, PipePlaces, PipePlacesNext
    <3> QED
      BY <3>1, <3>2
  <2>9. 1 \in Nat /\ 1 <= 1 /\ UNCHANGED <<session, answered, asked>>
    BY <1>1
  <2> QED
    BY <2>2, <2>3, <2>4, <2>6, <2>7, <2>8, <2>9, AnswersMoved
<1> QED
  BY <1>2, <1>3

\* What is first in two queues together is first in the first,
LEMMA TailConcat ==
  ASSUME NEW X, NEW a \in Seq(X), NEW b \in Seq(X), a # <<>>
  PROVE  Tail(a \o b) = Tail(a) \o b /\ a \o b # <<>> /\ Head(a \o b) = Head(a)
<1> DEFINE e == a \o b
           c == Tail(a)
           f == Tail(e)
           g == c \o b
<1>0. a \in Seq(X) /\ b \in Seq(X)
  OBVIOUS
<1>1. /\ e \in Seq(X) /\ Len(e) = Len(a) + Len(b)
      /\ \A i \in 1..Len(a) + Len(b) : e[i] = IF i <= Len(a) THEN a[i] ELSE b[i - Len(a)]
  BY ONLY <1>0, ConcatProperties
<1>2. /\ Len(a) \in Nat /\ Len(b) \in Nat /\ Len(a) # 0 /\ c \in Seq(X)
      /\ Len(c) = Len(a) - 1 /\ \A i \in 1..Len(c) : c[i] = a[i + 1]
      /\ Head(a) = a[1]
  BY HeadTailProperties, EmptySeq, LenProperties
<1> HIDE DEF e, c
<1>3. /\ g \in Seq(X) /\ Len(g) = Len(c) + Len(b)
      /\ \A i \in 1..Len(c) + Len(b) : g[i] = IF i <= Len(c) THEN c[i] ELSE b[i - Len(c)]
  BY ONLY <1>0, <1>2, ConcatProperties
<1>4. e # <<>> /\ Head(e) = a[1]
  <2>1. Len(e) # 0 /\ 1 \in 1..Len(a) + Len(b) /\ 1 <= Len(a)
    BY <1>1, <1>2
  <2>2. e # <<>> /\ Head(e) = e[1]
    BY <1>1, <2>1, EmptySeq
  <2> QED
    BY <1>1, <2>1, <2>2
<1>5. f \in Seq(X) /\ Len(f) = Len(e) - 1 /\ \A i \in 1..Len(f) : f[i] = e[i + 1]
  BY <1>1, <1>4, HeadTailProperties
<1> HIDE DEF f, g
<1>6. Len(f) = Len(g)
  BY <1>1, <1>2, <1>3, <1>5
<1>7. ASSUME NEW i \in 1..Len(f) PROVE f[i] = g[i]
  <2>1. i + 1 \in 1..Len(a) + Len(b) /\ i \in 1..Len(c) + Len(b)
    BY <1>1, <1>2, <1>3, <1>5, <1>6
  <2>2. CASE i <= Len(c)
    <3>1. i \in 1..Len(c) /\ i + 1 <= Len(a)
      BY <1>2, <2>2
    <3> QED
      BY <1>1, <1>2, <1>3, <1>5, <2>1, <2>2, <3>1
  <2>3. CASE ~(i <= Len(c))
    <3>1. ~(i + 1 <= Len(a)) /\ (i + 1) - Len(a) = i - Len(c)
      BY <1>2, <2>1, <2>3
    <3> QED
      BY <1>1, <1>3, <1>5, <2>1, <2>3, <3>1
  <2> QED
    BY <2>2, <2>3
<1>8. f = g
  BY ONLY <1>3, <1>5, <1>6, <1>7, SeqEqual
<1> QED
  BY <1>2, <1>4, <1>8 DEF e, c, f, g

\* and what is last in the second is last in both.
LEMMA AppendConcat ==
  ASSUME NEW X, NEW a \in Seq(X), NEW b \in Seq(X), NEW x \in X
  PROVE  a \o Append(b, x) = Append(a \o b, x)
<1>1. a \in Seq(X) /\ b \in Seq(X) /\ <<x>> \in Seq(X) /\ a \o b \in Seq(X)
  BY ConcatProperties
<1>2. Append(b, x) = b \o <<x>> /\ Append(a \o b, x) = (a \o b) \o <<x>>
  BY <1>1, AppendIsConcat
<1>3. (a \o b) \o <<x>> = a \o (b \o <<x>>)
  BY ONLY <1>1, ConcatAssociative
<1> QED
  BY <1>2, <1>3

\* From BNLS to the client.
LEMMA ClientExtractAnswers ==
  ASSUME BnetInv, ClientInv, AnswersInv, BnetInv', ClientInv', ClientExtract
  PROVE  AnswersInv' /\ Retains(Pipe, Pipe')
<1>1. /\ UNCHANGED <<session, answered, asked, outPackets, Asking, packets, Bnet>>
      /\ outPackets \in Seq(Challenges) /\ From(outPackets, session)
      /\ responses \in Seq(Challenges)
  BY DEF ClientExtract, world, Asking, Bnet, AnswersInv, ClientInv
<1>a. outPackets' \in Seq(Challenges) /\ From(outPackets', session)
  BY <1>1
<1>2. PICK p \in Sent(BNLS) :
        /\ 1 \in 1..Len(Bnls) /\ p = Bnls[1].of /\ Bnls[1].at = 1
        /\ CutBy(Bnls, Bnls', p.size) /\ Bnls' \in Seq(ByteSet(BNLS))
        /\ responses' = IF p.kind = "answer" THEN Append(responses, Challenge(p))
                                             ELSE responses
        /\ p.kind = "answer" => Challenge(p) \in Challenges
  BY ExtractClient
<1> DEFINE d == p.size
           n == p.n
<1>3. /\ Later(Carried(Bnls, "answer"), Carried(Bnls', "answer"), d)
      /\ Shifted(Carried(Bnls, "answer"), Carried(Bnls', "answer"), d)
      /\ d \in Nat /\ 1 <= d
      /\ Carried(Bnls, "answer")[1] = IF p.kind = "answer" THEN n ELSE 0
  <2> DEFINE u == Bnls
             t == Bnls'
  <2>1. BNLS \in {BNET, BNLS} /\ Framed(BNLS, u) /\ 1 \in 1..Len(u)
        /\ t \in Seq(ByteSet(BNLS)) /\ d = u[1].of.size /\ u[1].at = 1 /\ CutBy(u, t, d)
    BY <1>2 DEF ClientInv, Buffers, Bnls
  <2> HIDE DEF u, t, d
  <2>2. /\ Later(Carried(u, "answer"), Carried(t, "answer"), d)
        /\ Shifted(Carried(u, "answer"), Carried(t, "answer"), d)
        /\ d \in Nat /\ 1 <= d
        /\ Carried(u, "answer")[1] = IF u[1].of.kind = "answer" THEN u[1].of.n ELSE 0
    BY ONLY <2>1, CarriedLess
  <2> QED
    BY <1>2, <2>2 DEF u, t
<1> HIDE DEF d
<1>4. CASE p.kind # "answer"
  <2>1. responses' = responses
    BY <1>2, <1>4
  <2>2. Fewer(Carried(Bnls, "answer"), Carried(Bnls', "answer"))
    BY <1>3 DEF Fewer
  <2>3. AnswersInv'
    BY <1>1, <1>a, <2>1, <2>2, AnswersKept DEF Fewer
  <2>4. Keeps(Carried(Bnls, "answer"), Carried(Bnls', "answer"))
    BY <1>3, <1>4 DEF Keeps
  <2>5. Retains(Pipe, Pipe')
    BY <1>1, <1>a, <2>1, <2>4, PipeRetains DEF Keeps
  <2> QED
    BY <2>3, <2>5
<1>5. CASE p.kind = "answer"
  <2> DEFINE x == Challenge(p)
             i0 == Len(responses) + 1
  <2>1. responses' = Append(responses, x) /\ x \in Challenges /\ x.n = n /\ n \in Nat /\ n # 0
    BY <1>2, <1>5 DEF Challenge, Challenges
  <2>2. i0 \in Nat
    BY <1>1, LenProperties
  <2> HIDE DEF x, n, i0
  <2>5. PICK c \in 1..5 : c = 2
    OBVIOUS
  <2>6. Longer(Pipe[c], Pipe'[c], i0, n)
    <3>1. Longer(Numbers(responses), Numbers(responses'), i0, n)
      BY <1>1, <2>1, NumbersOf DEF i0
    <3> QED
      BY <1>1, <1>a, <2>5, <3>1, PipePlaces, PipePlacesNext
  <2>7. /\ Later(Pipe[c + 1], Pipe'[c + 1], d) /\ Shifted(Pipe[c + 1], Pipe'[c + 1], d)
        /\ Pipe[c + 1][1] = n
    <3>1. c + 1 = 3
      BY <2>5
    <3> QED
      BY <1>1, <1>3, <1>5, <1>a, <3>1, PipePlaces, PipePlacesNext
  <2>8. \A k \in Places : k # c /\ k # c + 1 => Pipe'[k] = Pipe[k]
    <3>1. \A k \in Places : k # c /\ k # c + 1 => k = 1 \/ k = 4 \/ k = 5 \/ k = 6
      BY <2>5 DEF Places
    <3>2. Pipe'[1] = Pipe[1] /\ Pipe'[4] = Pipe[4] /\ Pipe'[5] = Pipe[5] /\ Pipe'[6] = Pipe[6]
      BY <1>1, <1>a, PipePlaces, PipePlacesNext
    <3> QED
      BY <3>1, <3>2
  <2>9. UNCHANGED <<session, answered, asked>>
    BY <1>1
  <2> QED
    BY <1>3, <1>a, <2>1, <2>2, <2>6, <2>7, <2>8, <2>9, AnswersMoved
<1> QED
  BY <1>4, <1>5

\* From m_Packets to the client's queue.
LEMMA ProcessWardenAnswers ==
  ASSUME BnetInv, ClientInv, AnswersInv, BnetInv', ClientInv', ProcessWarden
  PROVE  AnswersInv' /\ (client \/ Wardens(packets, session)[1] = 0 => Retains(Pipe, Pipe'))
<1> DEFINE p == Head(packets)
           x == [kind |-> "raw", session |-> p.session, n |-> p.n]
           n == p.n
<1>1. /\ UNCHANGED <<session, answered, asked, outPackets, responses, Bnls, Bnet, toBnls>>
      /\ outPackets \in Seq(Challenges) /\ From(outPackets, session)
      /\ packets \in Seq(Sent(BNET)) /\ packets # <<>> /\ p.kind = "warden"
      /\ packets' = Tail(packets)
      /\ bnlsOut' = IF client THEN Append(bnlsOut, x) ELSE bnlsOut
      /\ toBnls \in Seq(Requests) /\ bnlsOut \in Seq(Requests)
  BY DEF ProcessWarden, world, Bnls, Bnet, AnswersInv, ClientInv, BnetInv
<1>a. outPackets' \in Seq(Challenges) /\ From(outPackets', session)
  BY <1>1
<1>2. /\ p \in Sent(BNET) /\ n \in Nat /\ n # 0
      /\ client => p.session = session
  <2>1. Leftovers /\ 1 \in 1..Len(packets) /\ p = packets[1]
    BY <1>1, EmptySeq, LenProperties DEF BnetInv
  <2>2. p \in Sent(BNET)
    BY <1>1, <2>1, ElementOfSeq
  <2> QED
    BY <1>1, <2>1, <2>2 DEF Leftovers, Sent
<1>3. /\ Later(Wardens(packets, session), Wardens(packets', session), 1)
      /\ Shifted(Wardens(packets, session), Wardens(packets', session), 1)
      /\ p.session = session => Wardens(packets, session)[1] = n
  BY <1>1, WardensOf
<1>4. CASE ~client
  <2>1. Asking' = Asking
    BY <1>1, <1>4 DEF Asking
  <2>2. Fewer(Wardens(packets, session), Wardens(packets', session'))
    BY <1>1, <1>3 DEF Fewer
  <2>3. AnswersInv'
    BY <1>1, <1>a, <2>1, <2>2, AnswersKept DEF Fewer
  <2>4. ASSUME Wardens(packets, session)[1] = 0 PROVE Retains(Pipe, Pipe')
    <3>1. Keeps(Wardens(packets, session), Wardens(packets', session'))
      BY <1>1, <1>3, <2>4 DEF Keeps
    <3> QED
      BY <1>1, <1>a, <2>1, <3>1, PipeRetains DEF Keeps
  <2> QED
    BY <1>4, <2>3, <2>4
<1>5. CASE client
  <2> DEFINE i0 == Len(Asking) + 1
  <2>1. x \in Requests /\ x.kind = "raw" /\ x.n = n
    BY <1>2 DEF Requests, Sent
  <2> HIDE DEF x
  <2>2. Asking' = Append(Asking, x) /\ Asking \in Seq(Requests)
    <3>1. bnlsOut' = Append(bnlsOut, x) /\ toBnls' = toBnls
      BY <1>1, <1>5
    <3>2. toBnls \o Append(bnlsOut, x) = Append(toBnls \o bnlsOut, x)
      BY <1>1, <2>1, AppendConcat, SMTT(30)
    <3>3. toBnls \o bnlsOut \in Seq(Requests)
      BY <1>1, ConcatProperties
    <3> QED
      BY <3>1, <3>2, <3>3 DEF Asking
  <2>3. i0 \in Nat
    BY <2>2, LenProperties
  <2> HIDE DEF p, n, i0
  <2>5. PICK c \in 1..5 : c = 4
    OBVIOUS
  <2>6. Longer(Pipe[c], Pipe'[c], i0, n)
    <3>1. Longer(Raws(Asking), Raws(Asking'), i0, n)
      BY <2>1, <2>2, RawsOf DEF i0
    <3> QED
      BY <1>1, <1>a, <2>5, <3>1, PipePlaces, PipePlacesNext
  <2>7. /\ Later(Pipe[c + 1], Pipe'[c + 1], 1) /\ Shifted(Pipe[c + 1], Pipe'[c + 1], 1)
        /\ Pipe[c + 1][1] = n
    <3>1. c + 1 = 5
      BY <2>5
    <3>2. session' = session /\ p.session = session
      BY <1>1, <1>2, <1>5
    <3> QED
      BY <1>1, <1>3, <1>a, <3>1, <3>2, PipePlaces, PipePlacesNext
  <2>8. \A k \in Places : k # c /\ k # c + 1 => Pipe'[k] = Pipe[k]
    <3>1. \A k \in Places : k # c /\ k # c + 1 => k = 1 \/ k = 2 \/ k = 3 \/ k = 6
      BY <2>5 DEF Places
    <3>2. Pipe'[1] = Pipe[1] /\ Pipe'[2] = Pipe[2] /\ Pipe'[3] = Pipe[3] /\ Pipe'[6] = Pipe[6]
      BY <1>1, <1>a, PipePlaces, PipePlacesNext
    <3> QED
      BY <3>1, <3>2
  <2>9. 1 \in Nat /\ 1 <= 1 /\ UNCHANGED <<session, answered, asked>>
    BY <1>1
  <2> QED
    BY <1>2, <1>a, <2>3, <2>6, <2>7, <2>8, <2>9, AnswersMoved
<1> QED
  BY <1>4, <1>5

\* From battle.net to m_Packets.
LEMMA ExtractAnswers ==
  ASSUME BnetInv, ClientInv, AnswersInv, BnetInv', ClientInv', Extract
  PROVE  AnswersInv' /\ Retains(Pipe, Pipe')
<1>1. /\ UNCHANGED <<session, answered, asked, outPackets, responses, Bnls, Asking, wire>>
      /\ outPackets \in Seq(Challenges) /\ From(outPackets, session)
      /\ packets \in Seq(Sent(BNET)) /\ Buffers(BNET, buf, wire) /\ OfSession(Bnet, session)
  BY DEF Extract, world, Bnls, Asking, AnswersInv, BnetInv
<1>a. outPackets' \in Seq(Challenges) /\ From(outPackets', session)
  BY <1>1
<1>2. CASE UNCHANGED <<buf, packets>>
  <2>1. UNCHANGED <<Bnet, packets>>
    BY <1>1, <1>2 DEF Bnet
  <2> QED
    BY <1>1, <2>1, AnswersSame
<1>3. CASE /\ HasHeader(BNET, buf) /\ ~Malformed(BNET, buf) /\ HasPacket(BNET, buf)
           /\ packets' = Append(packets, buf[1].of) /\ buf' = Left(BNET, buf)
  <2> DEFINE p == buf[1].of
             d == p.size
             n == p.n
             u == Bnet
             t == Bnet'
             i0 == Len(packets) + 1
  <2>1. /\ Buffers(BNET, buf', wire') /\ 1 \in 1..Len(u) /\ p = u[1].of
        /\ p \in Sent(BNET) /\ u[1].at = 1 /\ CutBy(u, t, d)
    BY <1>1, <1>3, TakingPacket DEF Bnet
  <2>2. /\ BNET \in {BNET, BNLS} /\ Framed(BNET, u) /\ t \in Seq(ByteSet(BNET))
        /\ 1 \in 1..Len(u) /\ d = u[1].of.size /\ u[1].at = 1 /\ CutBy(u, t, d)
    BY <1>1, <2>1 DEF Buffers, Bnet, Framed
  <2>3. p.session = session /\ packets' = Append(packets, p)
    BY <1>1, <1>3, <2>1 DEF OfSession
  <2> HIDE DEF p, u, t
  <2>4. /\ Later(Carried(u, "warden"), Carried(t, "warden"), d)
        /\ Shifted(Carried(u, "warden"), Carried(t, "warden"), d)
        /\ d \in Nat /\ 1 <= d
        /\ Carried(u, "warden")[1] = IF u[1].of.kind = "warden" THEN u[1].of.n ELSE 0
    BY ONLY <2>2, CarriedLess
  <2>5. CASE p.kind # "warden"
    <3>1. Wardens(packets', session) = Wardens(packets, session)
      BY <1>1, <2>1, <2>3, <2>5, WardensOf
    <3>2. Fewer(Carried(u, "warden"), Carried(t, "warden"))
      BY <2>4 DEF Fewer
    <3>3. AnswersInv'
      BY <1>1, <1>a, <3>1, <3>2, AnswersKept DEF Fewer, u, t
    <3>4. Keeps(Carried(u, "warden"), Carried(t, "warden"))
      BY <2>1, <2>4, <2>5 DEF Keeps
    <3>5. Retains(Pipe, Pipe')
      BY <1>1, <1>a, <3>1, <3>4, PipeRetains DEF Keeps, u, t
    <3> QED
      BY <3>3, <3>5
  <2>6. CASE p.kind = "warden"
    <3>0. n \in Nat /\ n # 0 /\ i0 \in Nat
      BY <1>1, <2>1, <2>6, LenProperties DEF Sent
    <3> HIDE DEF d, n, i0
    <3>5. PICK c \in 1..5 : c = 5
      OBVIOUS
    <3>6. Longer(Pipe[c], Pipe'[c], i0, n)
      <4>1. Longer(Wardens(packets, session), Wardens(packets', session), i0, n)
        BY <1>1, <2>1, <2>3, <2>6, WardensOf DEF i0, n
      <4> QED
        BY <1>1, <1>a, <3>5, <4>1, PipePlaces, PipePlacesNext
    <3>7. /\ Later(Pipe[c + 1], Pipe'[c + 1], d) /\ Shifted(Pipe[c + 1], Pipe'[c + 1], d)
          /\ Pipe[c + 1][1] = n
      <4>1. c + 1 = 6
        BY <3>5
      <4>2. /\ Later(Carried(Bnet, "warden"), Carried(Bnet', "warden"), d)
            /\ Shifted(Carried(Bnet, "warden"), Carried(Bnet', "warden"), d)
            /\ Carried(Bnet, "warden")[1] = n
        BY <2>1, <2>4, <2>6 DEF u, t, n
      <4> QED
        BY <1>1, <1>a, <4>1, <4>2, PipePlaces, PipePlacesNext
    <3>8. \A k \in Places : k # c /\ k # c + 1 => Pipe'[k] = Pipe[k]
      <4>1. \A k \in Places : k # c /\ k # c + 1 => k = 1 \/ k = 2 \/ k = 3 \/ k = 4
        BY <3>5 DEF Places
      <4>2. Pipe'[1] = Pipe[1] /\ Pipe'[2] = Pipe[2] /\ Pipe'[3] = Pipe[3] /\ Pipe'[4] = Pipe[4]
        BY <1>1, <1>a, PipePlaces, PipePlacesNext
      <4> QED
        BY <4>1, <4>2
    <3>9. UNCHANGED <<session, answered, asked>>
      BY <1>1
    <3> QED
      BY <1>a, <2>4, <3>0, <3>6, <3>7, <3>8, <3>9, AnswersMoved
  <2> QED
    BY <2>5, <2>6
<1> QED
  BY <1>2, <1>3 DEF Extract

\* BNLS takes a request, and answers it or does not.
LEMMA BnlsAnswers ==
  ASSUME BnetInv, ClientInv, AnswersInv, BnetInv', ClientInv', BnlsServes \/ BnlsErrs
  PROVE  /\ AnswersInv'
         /\ BnlsServes /\ (Head(toBnls).kind = "raw" => seeded = session)
              => Retains(Pipe, Pipe')
<1> DEFINE q == Head(toBnls)
           n == q.n
<1>1. /\ UNCHANGED <<session, answered, asked, outPackets, responses, packets, Bnet>>
      /\ UNCHANGED <<bnlsBuf, bnlsOut>>
      /\ outPackets \in Seq(Challenges) /\ From(outPackets, session)
      /\ toBnls # <<>> /\ toBnls' = Tail(toBnls)
      /\ toBnls \in Seq(Requests) /\ bnlsOut \in Seq(Requests) /\ From(toBnls, session)
      /\ Buffers(BNLS, bnlsBuf, bnlsWire)
  BY DEF BnlsServes, BnlsErrs, bot, Bnet, AnswersInv, ClientInv
<1>a. outPackets' \in Seq(Challenges) /\ From(outPackets', session)
  BY <1>1
<1>2. q \in Requests /\ q.session = session /\ session \in Nat
  BY <1>1, FromOf, HeadTailProperties DEF BnetInv
<1>3. n \in Nat /\ q.kind \in {"seed", "raw"} /\ (q.kind = "raw" => n # 0)
  BY <1>2 DEF Requests
<1>4. /\ Asking \in Seq(Requests) /\ Asking # <<>> /\ Asking' = Tail(Asking) /\ Head(Asking) = q
  <2>1. Tail(toBnls \o bnlsOut) = Tail(toBnls) \o bnlsOut /\ toBnls \o bnlsOut # <<>>
        /\ Head(toBnls \o bnlsOut) = Head(toBnls)
    BY <1>1, TailConcat
  <2>2. toBnls \o bnlsOut \in Seq(Requests)
    BY <1>1, ConcatProperties
  <2> QED
    BY <1>1, <2>1, <2>2 DEF Asking
<1>5. /\ Later(Raws(Asking), Raws(Asking'), 1) /\ Shifted(Raws(Asking), Raws(Asking'), 1)
      /\ Raws(Asking)[1] = IF q.kind = "raw" THEN n ELSE 0
  BY <1>4, RawsOf
<1>b. BnlsServes /\ (q.kind = "raw" => seeded = session)
        => IF q.kind = "raw"
             THEN bnlsWire' = bnlsWire \o Bytes(Packet(BNLS, "answer", session, n))
             ELSE bnlsWire' = bnlsWire
  BY <1>2, <1>3 DEF BnlsServes
<1> HIDE DEF q, n
<1>6. \/ bnlsWire' = bnlsWire
      \/ \E kind \in {"answer", "errorcode", "malformed"} :
           /\ q.kind = "raw"
           /\ bnlsWire' = bnlsWire \o Bytes(Packet(BNLS, kind, session, n))
  BY <1>2, <1>3 DEF BnlsServes, BnlsErrs, q, n
<1>7. Fewer(Raws(Asking), Raws(Asking'))
  BY <1>5 DEF Fewer
<1>8. ASSUME bnlsWire' = bnlsWire PROVE AnswersInv'
  <2>1. Bnls' = Bnls
    BY <1>1, <1>8 DEF Bnls
  <2> QED
    BY <1>1, <1>7, <1>a, <2>1, AnswersKept DEF Fewer
<1>9. ASSUME NEW kind \in {"answer", "errorcode", "malformed"}, q.kind = "raw",
             bnlsWire' = bnlsWire \o Bytes(Packet(BNLS, kind, session, n))
      PROVE  AnswersInv' /\ (kind = "answer" => Retains(Pipe, Pipe'))
  <2> DEFINE p == Packet(BNLS, kind, session, n)
             u == Bnls
             v == Bnls \o Bytes(p)
             i0 == Len(u) + 1
  <2>1. p \in Sent(BNLS) /\ p.kind = kind /\ p.n = n /\ p.session = session
    BY <1>2, <1>3, <1>9, PacketSent DEF Kinds
  <2>2. bnlsWire' = bnlsWire \o Bytes(p)
    BY <1>9
  <2> HIDE DEF p
  <2>3. BNLS \in {BNET, BNLS} /\ Framed(BNLS, u) /\ p \in Sent(BNLS) /\ i0 \in Nat
    BY <1>1, <2>1, LenProperties DEF Buffers, Bnls, Framed
  <2>4. Bnls' = v
    <3>1. UNCHANGED <<client, bnlsBuf, bnlsOut, responses, session>>
      BY <1>1 DEF BnlsServes, BnlsErrs, bot
    <3> QED
      BY <1>1, <2>1, <2>2, <3>1, ServerBnls
  <2>5. IF p.kind = "answer" THEN Longer(Carried(u, "answer"), Carried(v, "answer"), i0, p.n)
                             ELSE Carried(v, "answer") = Carried(u, "answer")
    <3>1. /\ IF p.kind = "answer"
                THEN Longer(Carried(u, "answer"), Carried(v, "answer"), i0, p.n)
                ELSE Carried(v, "answer") = Carried(u, "answer")
          /\ \A i \in Nat : LogonOf(v, i) <=> LogonOf(u, i) \/ (i = i0 /\ IsLogon(p))
          /\ \A s : OfSession(u, s) /\ p.session = s => OfSession(v, s)
      BY ONLY <2>3, CarriedMore
    <3> QED
      BY <3>1
  <2>6. CASE kind # "answer"
    <3>1. Carried(Bnls', "answer") = Carried(Bnls, "answer")
      BY <2>1, <2>4, <2>5, <2>6
    <3> QED
      BY <1>1, <1>7, <1>a, <2>6, <3>1, AnswersKept DEF Fewer
  <2>7. CASE kind = "answer"
    <3>0. n # 0
      BY <1>3, <1>9
    <3> HIDE DEF u, v, i0
    <3>5. PICK c \in 1..5 : c = 3
      OBVIOUS
    <3>6. Longer(Pipe[c], Pipe'[c], i0, n)
      <4>1. Longer(Carried(Bnls, "answer"), Carried(Bnls', "answer"), i0, n)
        BY <2>1, <2>4, <2>5, <2>7 DEF u
      <4> QED
        BY <1>1, <1>a, <3>5, <4>1, PipePlaces, PipePlacesNext
    <3>7. /\ Later(Pipe[c + 1], Pipe'[c + 1], 1) /\ Shifted(Pipe[c + 1], Pipe'[c + 1], 1)
          /\ Pipe[c + 1][1] = n
      <4>1. c + 1 = 4
        BY <3>5
      <4> QED
        BY <1>1, <1>5, <1>9, <1>a, <4>1, PipePlaces, PipePlacesNext
    <3>8. \A k \in Places : k # c /\ k # c + 1 => Pipe'[k] = Pipe[k]
      <4>1. \A k \in Places : k # c /\ k # c + 1 => k = 1 \/ k = 2 \/ k = 5 \/ k = 6
        BY <3>5 DEF Places
      <4>2. Pipe'[1] = Pipe[1] /\ Pipe'[2] = Pipe[2] /\ Pipe'[5] = Pipe[5] /\ Pipe'[6] = Pipe[6]
        BY <1>1, <1>a, PipePlaces, PipePlacesNext
      <4> QED
        BY <4>1, <4>2
    <3>9. 1 \in Nat /\ 1 <= 1 /\ UNCHANGED <<session, answered, asked>>
      BY <1>1
    <3> QED
      BY <1>3, <1>a, <2>3, <3>0, <3>6, <3>7, <3>8, <3>9, AnswersMoved
  <2> QED
    BY <2>6, <2>7
<1>10. ASSUME q.kind # "raw", bnlsWire' = bnlsWire PROVE Retains(Pipe, Pipe')
  <2>1. Bnls' = Bnls
    BY <1>1, <1>10 DEF Bnls
  <2>2. Keeps(Raws(Asking), Raws(Asking'))
    BY <1>5, <1>10 DEF Keeps
  <2> QED
    BY <1>1, <1>a, <2>1, <2>2, PipeRetains DEF Keeps
<1>11. AnswersInv'
  BY <1>6, <1>8, <1>9
<1>12. ASSUME BnlsServes, q.kind = "raw" => seeded = session PROVE Retains(Pipe, Pipe')
  <2>1. CASE q.kind = "raw"
    BY <1>9, <1>12, <1>b, <2>1
  <2>2. CASE q.kind # "raw"
    BY <1>10, <1>12, <1>b, <2>2
  <2> QED
    BY <2>1, <2>2
<1> QED
  BY <1>11, <1>12 DEF q

\* Empty places.
LEMMA NothingIn ==
  /\ Nothing(Numbers(<<>>)) /\ Nothing(Raws(<<>>))
  /\ \A kind : Nothing(Carried(<<>> \o <<>>, kind))
  /\ \A x \in Requests : x.kind # "raw" => Nothing(Raws(<<>> \o <<x>>))
<1>1. Len(<<>>) = 0 /\ <<>> \o <<>> = <<>>
  BY EmptySeq
<1>2. Nothing(Numbers(<<>>)) /\ Nothing(Raws(<<>>))
  BY <1>1 DEF Nothing, Numbers, Raws
<1>3. ASSUME NEW kind PROVE Nothing(Carried(<<>> \o <<>>, kind))
  BY <1>1 DEF Nothing, Carried
<1>4. ASSUME NEW x \in Requests, x.kind # "raw" PROVE Nothing(Raws(<<>> \o <<x>>))
  <2> DEFINE e == <<x>>
  <2>1. Len(e) = 1 /\ e[1] = x /\ e \in Seq(Requests)
    OBVIOUS
  <2> HIDE DEF e
  <2>2. <<>> \o e = e
    BY <2>1, ConcatEmptySeq
  <2>3. \A i \in 1..Len(e) : e[i].kind # "raw"
    BY <1>4, <2>1
  <2>4. Nothing(Raws(e))
    BY <2>3 DEF Nothing, Raws
  <2> QED
    BY <2>2, <2>4 DEF e
<1> QED
  BY <1>2, <1>3, <1>4

\* Session ends or begins: the client goes, or a new one comes with its seed.
LEMMA ClientGoes ==
  ASSUME BnetInv, ClientInv, AnswersInv, BnetInv', ClientInv',
         NoClientBut(<<>>)
           \/ \E x \in Requests : x.kind # "raw" /\ NoClientBut(<<x>>),
         UNCHANGED <<session, answered, asked, outPackets>>,
         Fewer(Wardens(packets, session), Wardens(packets', session')),
         Fewer(Carried(Bnet, "warden"), Carried(Bnet', "warden"))
  PROVE  AnswersInv'
<1>1. Nothing(Numbers(responses'))
  BY NothingIn DEF NoClientBut
<1>2. Nothing(Carried(Bnls', "answer"))
  BY NothingIn DEF NoClientBut, Bnls
<1>3. Nothing(Raws(Asking'))
  <2>1. CASE NoClientBut(<<>>)
    <3>1. Asking' = <<>>
      BY <2>1, EmptySeq DEF NoClientBut, Asking
    <3> QED
      BY <3>1, NothingIn
  <2>2. ASSUME NEW x \in Requests, x.kind # "raw", NoClientBut(<<x>>)
        PROVE  Nothing(Raws(Asking'))
    <3>1. Asking' = <<>> \o <<x>>
      BY <2>2 DEF NoClientBut, Asking
    <3> QED
      BY <2>2, <3>1, NothingIn
  <2> QED
    BY <2>1, <2>2
<1>4. outPackets' \in Seq(Challenges) /\ From(outPackets', session)
  BY DEF AnswersInv
<1> QED
  BY <1>1, <1>2, <1>3, <1>4, AnswersKept DEF Fewer

\* What is sent is the first of all, so the rest is later than it.
LEMMA TurnAnswered ==
  ASSUME NEW lo \in Nat, NEW hi \in Nat, NEW n \in Nat, NEW T, AllNat(T),
         NEW V, AllNat(V), InTurn(T, lo, hi), \A k \in Places : T[k][0] = 0,
         T[1][1] = n, n # 0, Later(T[1], V[1], 1), \A k \in Places : k # 1 => V[k] = T[k]
  PROVE  InTurn(V, n, hi) /\ lo < n /\ n <= hi
<1>1. 1 \in Places /\ 1 \in Nat /\ 0 \in Nat /\ \A k \in Places : k \in Nat /\ (k # 1 => 1 < k)
  BY ONLY DEF Places
<1>2. lo < n /\ n <= hi
  BY <1>1 DEF InTurn
<1>3. ASSUME NEW k \in Places PROVE \E d \in Nat : Later(T[k], V[k], d)
  <2>1. CASE k = 1
    BY <2>1, <1>1
  <2>2. CASE k # 1
    <3>1. Fewer(T[k], V[k]) /\ T[k][0] = 0
      BY <2>2 DEF Fewer
    <3> QED
      BY <3>1, FewerIsLater
  <2> QED
    BY <2>1, <2>2
<1>4. InTurn(V, lo, hi)
  BY <1>3, TurnKept
<1>5. ASSUME NEW k \in Places, NEW i \in Nat, V[k][i] # 0 PROVE n < V[k][i]
  <2>1. CASE k = 1
    <3>1. i >= 1 /\ V[k][i] = T[1][i + 1]
      BY <1>5, <2>1 DEF Later
    <3>2. i + 1 \in Nat /\ Sooner(1, 1, 1, i + 1)
      BY <3>1 DEF Sooner
    <3> QED
      BY <1>1, <1>5, <3>1, <3>2 DEF InTurn
  <2>2. CASE k # 1
    <3>1. V[k][i] = T[k][i] /\ Sooner(1, 1, k, i)
      BY <1>1, <2>2 DEF Sooner
    <3> QED
      BY <1>1, <1>5, <3>1 DEF InTurn
  <2> QED
    BY <2>1, <2>2
<1> QED
  BY <1>2, <1>4, <1>5 DEF InTurn

\* From m_OutPackets to battle.net.
LEMMA SendAnswers ==
  ASSUME BnetInv, ClientInv, AnswersInv, BnetInv', ClientInv', Send
  PROVE  /\ AnswersInv'
         /\ conn = "up" => /\ answered.n <= answered'.n
                           /\ \A n \in Nat \ {0} :
                                Held(Pipe, n) => n <= answered'.n \/ Held(Pipe', n)
<1>1. /\ UNCHANGED <<session, asked, responses, Bnls, Asking, packets, Bnet>>
      /\ outPackets \in Seq(Challenges) /\ From(outPackets, session)
      /\ outPackets # <<>> /\ outPackets' = Tail(outPackets)
      /\ answered' = IF conn = "up" THEN Head(outPackets) ELSE answered
      /\ asked \in Nat
  BY DEF Send, Bnls, Asking, Bnet, AnswersInv
<1>a. outPackets' \in Seq(Challenges) /\ From(outPackets', session)
  <2>1. outPackets' \in Seq(Challenges)
    BY <1>1, HeadTailProperties
  <2>2. From(outPackets', session)
    BY <1>1, FromOf
  <2> QED
    BY <2>1, <2>2
<1> DEFINE x == Head(outPackets)
           n == x.n
<1>2. /\ Later(Numbers(outPackets), Numbers(outPackets'), 1)
      /\ Shifted(Numbers(outPackets), Numbers(outPackets'), 1)
      /\ Numbers(outPackets)[1] = n /\ x \in Challenges
  BY <1>1, NumbersOf
<1>3. x.session = session
  BY <1>1, FromOf
<1> HIDE DEF x
<1>4. n \in Nat /\ n # 0 /\ x \in [session : Nat, n : Nat]
  BY <1>2 DEF Challenges
<1>5. CASE conn # "up"
  <2>1. answered' = answered
    BY <1>1, <1>5
  <2> QED
    BY <1>1, <1>2, <1>5, <1>a, <2>1, AnswersKept DEF Fewer
<1>6. CASE conn = "up"
  <2> DEFINE T == Pipe
             V == Pipe'
             lo == answered.n
             hi == asked
  <2>1. /\ answered \in [session : Nat, n : Nat] /\ InTurn(T, lo, hi) /\ hi \in Nat
    BY DEF AnswersInv
  <2>2. lo \in Nat
    BY <2>1
  <2>3. /\ AllNat(T) /\ AllNat(V) /\ \A k \in Places : T[k][0] = 0
    BY <1>1, <1>a, PipePlaces, PipePlacesNext
  <2>4. T[1][1] = n /\ Later(T[1], V[1], 1) /\ Shifted(T[1], V[1], 1)
    BY <1>1, <1>2, <1>a, PipePlaces, PipePlacesNext
  <2>5. \A k \in Places : k # 1 => V[k] = T[k]
    <3>1. \A k \in Places : k # 1 => k = 2 \/ k = 3 \/ k = 4 \/ k = 5 \/ k = 6
      BY DEF Places
    <3>2. V[2] = T[2] /\ V[3] = T[3] /\ V[4] = T[4] /\ V[5] = T[5] /\ V[6] = T[6]
      BY <1>1, <1>a, PipePlaces, PipePlacesNext
    <3> QED
      BY <3>1, <3>2
  <2> HIDE DEF T, V, lo, hi, n
  <2>6. InTurn(V, n, hi) /\ lo < n /\ n <= hi
    BY ONLY <1>4, <2>1, <2>2, <2>3, <2>4, <2>5, TurnAnswered, SMTT(30)
  <2>7. answered' = x
    BY <1>1, <1>6 DEF x
  <2>8. InTurn(Pipe', answered'.n, asked') /\ answered'.n <= asked'
    BY <1>1, <2>6, <2>7 DEF V, hi, n
  <2>9. /\ answered' \in [session : Nat, n : Nat] /\ asked' \in Nat
        /\ answered'.session \in {0, session'}
    BY <1>1, <1>3, <1>4, <2>7
  <2>10. ASSUME NEW m \in Nat \ {0}, Held(T, m) PROVE m <= n \/ Held(V, m)
    <3>1. PICK k \in Places, i \in Nat : T[k][i] = m
      BY <2>10 DEF Held
    <3>2. CASE k # 1
      BY <2>5, <3>1, <3>2 DEF Held
    <3>3. CASE k = 1 /\ i = 1
      BY <1>4, <2>4, <3>1, <3>3
    <3>4. CASE k = 1 /\ i # 1
      <4>1. i - 1 \in Nat /\ V[k][i - 1] = m
        BY <2>4, <3>1, <3>4 DEF Shifted
      <4> QED
        BY <4>1 DEF Held
    <3> QED
      BY <3>2, <3>3, <3>4
  <2>11. answered'.n = n
    BY <2>7 DEF n
  <2>12. \A m \in Nat \ {0} : Held(Pipe, m) => m <= answered'.n \/ Held(Pipe', m)
    BY <2>10, <2>11 DEF T, V
  <2>13. answered.n <= answered'.n
    BY <1>4, <2>2, <2>6, <2>11 DEF lo
  <2> QED
    BY <1>1, <1>a, <2>8, <2>9, <2>12, <2>13 DEF AnswersInv
<1> QED
  BY <1>5, <1>6

\* Nothing of the last session counts in a new one.
LEMMA ConnectAnswers ==
  ASSUME BnetInv, ClientInv, AnswersInv, BnetInv', ClientInv', Connect
  PROVE  AnswersInv'
<1>1. /\ ~client /\ buf = <<>> /\ outPackets' = <<>> /\ wire' = <<>> /\ asked' = 0
      /\ answered' = [session |-> 0, n |-> 0] /\ session' = session + 1
      /\ UNCHANGED <<client, buf, packets, bnlsBuf, bnlsOut, responses, toBnls, bnlsWire>>
      /\ session \in Nat /\ packets \in Seq(Sent(BNET))
  BY DEF Connect, BnetInv, None
<1>2. NoClientBut(<<>>) /\ buf' = <<>>
  BY <1>1 DEF ClientInv, NoClientBut
<1>3. /\ Nothing(Numbers(outPackets')) /\ Nothing(Numbers(responses'))
      /\ Nothing(Carried(Bnls', "answer")) /\ Nothing(Carried(Bnet', "warden"))
  BY <1>1, <1>2, NothingIn DEF NoClientBut, Bnls, Bnet
<1>4. Nothing(Raws(Asking'))
  <2>1. Asking' = <<>>
    BY <1>2, EmptySeq DEF NoClientBut, Asking
  <2> QED
    BY <2>1, NothingIn
<1>5. Nothing(Wardens(packets', session'))
  <2>1. ASSUME NEW i \in 1..Len(packets) PROVE packets[i].session # session'
    <3>1. packets[i].session \in Nat /\ packets[i].session <= session
      <4>1. packets[i] \in Sent(BNET)
        BY <1>1, ElementOfSeq
      <4> QED
        BY <4>1 DEF Sent, BnetInv, Leftovers
    <3> QED
      BY <1>1, <3>1
  <2> QED
    BY <1>1, <2>1 DEF Nothing, Wardens
<1>6. outPackets' \in Seq(Challenges) /\ From(outPackets', session')
  BY <1>1, FromOf
<1>7. \A k \in Places, i \in Nat : Pipe'[k][i] = 0
  <2>1. \A k \in Places : k = 1 \/ k = 2 \/ k = 3 \/ k = 4 \/ k = 5 \/ k = 6
    BY DEF Places
  <2>2. Nothing(Pipe'[1]) /\ Nothing(Pipe'[2]) /\ Nothing(Pipe'[3])
        /\ Nothing(Pipe'[4]) /\ Nothing(Pipe'[5]) /\ Nothing(Pipe'[6])
    BY <1>3, <1>4, <1>5, <1>6, PipePlacesNext
  <2> QED
    BY <2>1, <2>2 DEF Nothing
<1>8. InTurn(Pipe', answered'.n, asked')
  BY <1>7 DEF InTurn
<1>9. /\ answered' \in [session : Nat, n : Nat] /\ asked' \in Nat
      /\ answered'.session \in {0, session'} /\ answered'.n <= asked'
  BY <1>1
<1> QED
  BY <1>6, <1>8, <1>9 DEF AnswersInv

\* Battle.net sends something else, or asks again.
LEMMA ServerAnswers ==
  ASSUME BnetInv, ClientInv, AnswersInv, BnetInv', ClientInv',
         Greet \/ AskWarden \/ Refuse \/ Misbehave
  PROVE  AnswersInv' /\ Retains(Pipe, Pipe') /\ (asked' = asked \/ Held(Pipe', asked'))
<1>1. /\ UNCHANGED <<session, answered, outPackets, responses, Bnls, Asking, packets, buf>>
      /\ outPackets \in Seq(Challenges) /\ From(outPackets, session) /\ asked \in Nat
      /\ session \in Nat /\ Buffers(BNET, buf, wire)
  BY DEF Greet, AskWarden, Refuse, Misbehave, bot, Bnls, Asking, AnswersInv, BnetInv
<1>a. outPackets' \in Seq(Challenges) /\ From(outPackets', session')
  BY <1>1
<1> DEFINE u == Bnet
           i0 == Len(u) + 1
<1>2. BNET \in {BNET, BNLS} /\ Framed(BNET, u) /\ i0 \in Nat
  BY <1>1, LenProperties DEF Buffers, Bnet, Framed
<1>3. ASSUME NEW p \in Sent(BNET), wire' = wire \o Bytes(p)
      PROVE  IF p.kind = "warden"
               THEN Longer(Carried(Bnet, "warden"), Carried(Bnet', "warden"), i0, p.n)
               ELSE Carried(Bnet', "warden") = Carried(Bnet, "warden")
  <2> DEFINE v == u \o Bytes(p)
  <2>0. p \in Sent(BNET)
    OBVIOUS
  <2>1. Bnet' = v
    <3>1. /\ Buffers(BNET, buf, wire \o Bytes(p))
          /\ buf \o (wire \o Bytes(p)) = (buf \o wire) \o Bytes(p)
      BY ONLY <1>1, <1>2, <2>0, SendingPacket, SMTT(30)
    <3> QED
      BY <1>1, <1>3, <3>1 DEF Bnet
  <2>2. /\ IF p.kind = "warden" THEN Longer(Carried(u, "warden"), Carried(v, "warden"), i0, p.n)
                                ELSE Carried(v, "warden") = Carried(u, "warden")
        /\ \A i \in Nat : LogonOf(v, i) <=> LogonOf(u, i) \/ (i = i0 /\ IsLogon(p))
        /\ \A s : OfSession(u, s) /\ p.session = s => OfSession(v, s)
    BY ONLY <1>2, <2>0, CarriedMore, SMTT(30)
  <2> HIDE DEF v
  <2> QED
    BY <2>1, <2>2
<1> HIDE DEF i0
<1>4. ASSUME NEW kind \in {"info", "refused", "malformed"},
             wire' = wire \o Bytes(Packet(BNET, kind, session, 0)), asked' = asked
      PROVE  AnswersInv' /\ Retains(Pipe, Pipe')
  <2> DEFINE p == Packet(BNET, kind, session, 0)
  <2>1. p \in Sent(BNET) /\ p.kind # "warden"
    BY <1>1, <1>2, PacketSent DEF Kinds
  <2>2. wire' = wire \o Bytes(p)
    BY <1>4
  <2> HIDE DEF p
  <2>3. Carried(Bnet', "warden") = Carried(Bnet, "warden")
    BY <1>3, <2>1, <2>2
  <2> QED
    BY <1>1, <1>4, <2>3, AnswersSame
<1>5. CASE AskWarden
  <2> DEFINE p == Packet(BNET, "warden", session, asked + 1)
             T == Pipe
             V == Pipe'
             lo == answered.n
             hi == asked
  <2>1. wire' = wire \o Bytes(p) /\ asked' = asked + 1
    BY <1>5 DEF AskWarden
  <2>2. p \in Sent(BNET) /\ p.kind = "warden" /\ p.n = asked + 1
    <3>1. asked + 1 \in Nat /\ asked + 1 # 0
      BY <1>1
    <3> QED
      BY <1>1, <1>2, <3>1, PacketSent DEF Kinds
  <2> HIDE DEF p
  <2>3. Longer(Carried(Bnet, "warden"), Carried(Bnet', "warden"), i0, hi + 1)
    BY <1>3, <2>1, <2>2
  <2>4. /\ answered \in [session : Nat, n : Nat] /\ InTurn(T, lo, hi) /\ hi \in Nat
        /\ lo <= hi /\ answered.session \in {0, session}
    BY DEF AnswersInv
  <2>5. lo \in Nat
    BY <2>4
  <2>6. AllNat(T) /\ AllNat(V) /\ Longer(T[6], V[6], i0, hi + 1)
    BY <1>1, <1>a, <2>3, PipePlaces, PipePlacesNext
  <2>7. \A k \in Places : k # 6 => V[k] = T[k]
    <3>1. \A k \in Places : k # 6 => k = 1 \/ k = 2 \/ k = 3 \/ k = 4 \/ k = 5
      BY DEF Places
    <3>2. V[1] = T[1] /\ V[2] = T[2] /\ V[3] = T[3] /\ V[4] = T[4] /\ V[5] = T[5]
      BY <1>1, <1>a, PipePlaces, PipePlacesNext
    <3> QED
      BY <3>1, <3>2
  <2> HIDE DEF T, V, lo, hi
  <2>8. InTurn(V, lo, hi + 1)
    BY ONLY <1>2, <2>4, <2>5, <2>6, <2>7, TurnAsked
  <2>9. InTurn(Pipe', answered'.n, asked')
    BY <1>1, <2>1, <2>8 DEF V, lo, hi
  <2>10. answered' \in [session : Nat, n : Nat] /\ answered'.session \in {0, session'}
    BY <1>1, <2>4
  <2>11. asked' \in Nat /\ answered'.n <= asked'
    BY <1>1, <2>1, <2>4, <2>5 DEF lo, hi
  <2>12. Retains(T, V)
    <3>1. ASSUME NEW n \in Nat \ {0}, NEW k \in Places, NEW i \in Nat, T[k][i] = n
          PROVE  V[k][i] = n
      <4>1. CASE k # 6
        BY <2>7, <3>1, <4>1
      <4>2. CASE k = 6
        BY <2>6, <3>1, <4>2 DEF Longer
      <4> QED
        BY <4>1, <4>2
    <3> QED
      BY <3>1 DEF Retains, Held
  <2>13. Held(V, hi + 1)
    <3>1. V[6][i0] = hi + 1 /\ 6 \in Places /\ i0 \in Nat
      BY <1>2, <2>6 DEF Longer, Places
    <3> QED
      BY <3>1 DEF Held
  <2>14. AnswersInv'
    BY <1>a, <2>9, <2>10, <2>11 DEF AnswersInv
  <2>15. Retains(Pipe, Pipe') /\ Held(Pipe', asked')
    BY <2>1, <2>12, <2>13 DEF T, V, hi
  <2> QED
    BY <2>14, <2>15
<1> QED
  BY <1>4, <1>5 DEF Greet, Refuse, Misbehave

\* The client's queue goes into its socket, or is lost.
LEMMA FlushAnswers ==
  ASSUME BnetInv, ClientInv, AnswersInv, BnetInv', ClientInv', Flush
  PROVE  AnswersInv' /\ (sock = "up" => Retains(Pipe, Pipe'))
<1>1. /\ UNCHANGED <<session, answered, asked, outPackets, responses, Bnls, packets, Bnet>>
      /\ toBnls' = IF sock = "up" THEN toBnls \o bnlsOut ELSE toBnls
      /\ bnlsOut' = <<>> /\ toBnls \in Seq(Requests) /\ bnlsOut \in Seq(Requests)
  BY DEF Flush, Bnls, Bnet, ClientInv
<1>2. Asking \in Seq(Requests)
  BY <1>1, ConcatProperties DEF Asking
<1>3. outPackets' \in Seq(Challenges) /\ From(outPackets', session)
  BY <1>1 DEF AnswersInv
<1>4. CASE sock = "up"
  <2>1. Asking' = Asking
    BY <1>1, <1>2, <1>4, ConcatEmptySeq DEF Asking
  <2> QED
    BY <1>1, <2>1, AnswersSame
<1>5. CASE sock # "up"
  <2>1. Asking' = toBnls
    BY <1>1, <1>5, ConcatEmptySeq DEF Asking
  <2>2. Later(Raws(Asking), Raws(toBnls), 0)
    <3> DEFINE e == toBnls \o bnlsOut
    <3>0. toBnls \in Seq(Requests) /\ bnlsOut \in Seq(Requests)
      BY <1>1
    <3>1. /\ Len(e) = Len(toBnls) + Len(bnlsOut)
          /\ \A i \in 1..Len(toBnls) + Len(bnlsOut) :
               e[i] = IF i <= Len(toBnls) THEN toBnls[i] ELSE bnlsOut[i - Len(toBnls)]
      BY ONLY <3>0, ConcatProperties
    <3>2. Len(toBnls) \in Nat /\ Len(bnlsOut) \in Nat
      BY <3>0, LenProperties
    <3> HIDE DEF e
    <3>3. \A i \in 1..Len(toBnls) : e[i] = toBnls[i] /\ i \in 1..Len(e)
      BY <3>1, <3>2
    <3>4. ASSUME NEW i \in Nat, Raws(toBnls)[i] # 0
          PROVE  i >= 1 /\ Raws(toBnls)[i] = Raws(e)[i]
      <4>1. i \in 1..Len(toBnls)
        BY <3>4 DEF Raws
      <4> QED
        BY <3>3, <4>1 DEF Raws
    <3>5. \A i \in Nat : i + 0 = i
      OBVIOUS
    <3> QED
      BY <3>4, <3>5 DEF Later, Asking, e
  <2>3. Fewer(Raws(Asking), Raws(Asking'))
    <3>1. 0 \in Nat
      OBVIOUS
    <3> QED
      BY <2>1, <2>2, <3>1 DEF Fewer
  <2> QED
    BY <1>1, <1>3, <1>5, <2>3, AnswersKept DEF Fewer
<1> QED
  BY <1>4, <1>5

\* Steps that read, or do something else.
Quiet == \/ UNCHANGED vars \/ \E k \in 0..Len(wire) : Receive(k)
         \/ \E k \in 0..Len(bnlsWire) : ClientReceive(k)
         \/ ReceiveFails \/ AllProcessed \/ SkipClient \/ ClientConnects \/ ClientReceiveFails
         \/ ClientExtracted \/ SendNothing

\* They leave the streams, the queues and the client as they are,
LEMMA QuietLeaves ==
  ASSUME BnetInv, ClientInv, Quiet
  PROVE  /\ UNCHANGED <<session, answered, asked, outPackets, responses, Bnls, Asking, packets>>
         /\ UNCHANGED <<Bnet, seeded, greeted, client, failed>>
<1>1. CASE UNCHANGED vars
  BY <1>1 DEF vars, bot, world, Bnls, Asking, Bnet
<1>2. ASSUME NEW k \in 0..Len(wire), Receive(k)
      PROVE  /\ UNCHANGED <<session, answered, asked, outPackets, responses, Bnls, Asking, packets>>
             /\ UNCHANGED <<Bnet, seeded, greeted, client, failed>>
  <2>1. /\ ReadBy(buf, wire, k, buf', wire')
        /\ UNCHANGED <<session, answered, asked, outPackets, responses, Bnls, Asking, packets>>
        /\ UNCHANGED <<seeded, greeted, client, failed>>
    BY <1>2 DEF Receive, ReadBy, Bnls, Asking
  <2>2. Buffers(BNET, buf, wire)
    BY DEF BnetInv
  <2>3. Buffers(BNET, buf', wire') /\ buf' \o wire' = buf \o wire
    BY ONLY <2>1, <2>2, Reading
  <2>4. Bnet' = Bnet
    BY <2>3 DEF Bnet
  <2> QED
    BY <2>1, <2>4
<1>3. ASSUME NEW k \in 0..Len(bnlsWire), ClientReceive(k)
      PROVE  /\ UNCHANGED <<session, answered, asked, outPackets, responses, Bnls, Asking, packets>>
             /\ UNCHANGED <<Bnet, seeded, greeted, client, failed>>
  <2>1. /\ ReadBy(bnlsBuf, bnlsWire, k, bnlsBuf', bnlsWire')
        /\ UNCHANGED <<session, answered, asked, outPackets, responses, Asking, packets>>
        /\ UNCHANGED <<Bnet, seeded, greeted, client, failed>>
    BY <1>3 DEF ClientReceive, ReadBy, Bnet, Asking
  <2>2. Buffers(BNLS, bnlsBuf, bnlsWire)
    BY DEF ClientInv
  <2>3. Buffers(BNLS, bnlsBuf', bnlsWire') /\ bnlsBuf' \o bnlsWire' = bnlsBuf \o bnlsWire
    BY ONLY <2>1, <2>2, Reading
  <2>4. Bnls' = Bnls
    BY <2>3 DEF Bnls
  <2> QED
    BY <2>1, <2>4
<1>4. CASE ReceiveFails \/ AllProcessed \/ SkipClient \/ ClientConnects
  BY <1>4 DEF ReceiveFails, AllProcessed, SkipClient, ClientConnects, world, Bnls, Asking, Bnet
<1>5. CASE ClientReceiveFails \/ ClientExtracted \/ SendNothing
  BY <1>5 DEF ClientReceiveFails, ClientExtracted, SendNothing, world, Bnls, Asking, Bnet
<1> QED
  BY <1>1, <1>2, <1>3, <1>4, <1>5 DEF Quiet

\* and so the challenges.
LEMMA QuietAnswers ==
  ASSUME BnetInv, ClientInv, AnswersInv, BnetInv', ClientInv', Quiet
  PROVE  AnswersInv' /\ Retains(Pipe, Pipe')
BY QuietLeaves, AnswersSame

\* Every step keeps AnswersInv.
LEMMA AnswersStep ==
  ASSUME BnetInv, ClientInv, AnswersInv, BnetInv', ClientInv', [Next]_vars
  PROVE  AnswersInv'
<1>p. packets # <<>> /\ packets' = Tail(packets) /\ session' = session
        => Fewer(Wardens(packets, session), Wardens(packets', session'))
  <2> SUFFICES ASSUME packets # <<>>, packets' = Tail(packets), session' = session
               PROVE  Fewer(Wardens(packets, session), Wardens(packets', session'))
    OBVIOUS
  <2>1. packets \in Seq(Sent(BNET))
    BY DEF BnetInv
  <2>2. Later(Wardens(packets, session), Wardens(Tail(packets), session), 1) /\ 1 \in Nat
    BY <2>1, WardensOf
  <2> QED
    BY <2>2 DEF Fewer
<1>1. CASE Quiet
  BY <1>1, QuietAnswers
<1>2. CASE GiveUp
  <2>1. /\ NoClientBut(<<>>) /\ UNCHANGED <<session, answered, asked, outPackets, packets>>
        /\ buf' = <<>> /\ wire' = <<>>
    BY <1>2 DEF GiveUp, NoClient, NoClientBut
  <2>2. Fewer(Carried(Bnet, "warden"), Carried(Bnet', "warden"))
    BY <2>1, NothingIn DEF Fewer, Bnet
  <2> QED
    BY <2>1, <2>2, ClientGoes DEF Fewer
<1>3. CASE DeleteClient
  <2>1. /\ NoClientBut(<<>>)
        /\ UNCHANGED <<session, answered, asked, outPackets, packets, Bnet>>
    BY <1>3 DEF DeleteClient, NoClient, NoClientBut, Bnet
  <2> QED
    BY <2>1, ClientGoes DEF Fewer
<1>4. CASE ProcessInfo
  <2> DEFINE x == [kind |-> "seed", session |-> Head(packets).session, n |-> 0]
  <2>1. /\ packets # <<>> /\ packets' = Tail(packets) /\ NoClientBut(<<x>>)
        /\ UNCHANGED <<session, answered, asked, outPackets, Bnet>>
    BY <1>4 DEF ProcessInfo, BeginWarden, NoClientBut, Bnet
  <2>2. x \in Requests /\ x.kind # "raw"
    <3>1. packets \in Seq(Sent(BNET))
      BY DEF BnetInv
    <3>2. Head(packets) \in Sent(BNET)
      BY <2>1, <3>1, HeadTailProperties
    <3> QED
      BY <3>2 DEF Sent, Requests
  <2> HIDE DEF x
  <2> QED
    BY <1>p, <2>1, <2>2, ClientGoes DEF Fewer
<1>5. CASE Connect
  BY <1>5, ConnectAnswers
<1>6. CASE Extract
  BY <1>6, ExtractAnswers
<1>7. CASE ProcessWarden
  BY <1>7, ProcessWardenAnswers
<1>8. CASE Disconnect
  <2>1. /\ packets # <<>> /\ packets' = Tail(packets)
        /\ UNCHANGED <<session, answered, asked, outPackets, responses, Bnls, Asking, Bnet>>
    BY <1>8 DEF Disconnect, Bnls, Asking, Bnet
  <2>2. outPackets' \in Seq(Challenges) /\ From(outPackets', session)
    BY <2>1 DEF AnswersInv
  <2> QED
    BY <1>p, <2>1, <2>2, AnswersKept DEF Fewer
<1>9. CASE ClientExtract
  BY <1>9, ClientExtractAnswers
<1>10. CASE Flush
  BY <1>10, FlushAnswers
<1>11. CASE Relay
  BY <1>11, RelayAnswers
<1>12. CASE Send
  BY <1>12, SendAnswers
<1>13. CASE Greet \/ AskWarden \/ Refuse \/ Misbehave
  BY <1>13, ServerAnswers
<1>14. CASE BnlsServes \/ BnlsErrs
  BY <1>14, BnlsAnswers
<1> QED
  BY <1>1, <1>2, <1>3, <1>4, <1>5, <1>6, <1>7, <1>8, <1>9, <1>10, <1>11, <1>12, <1>13, <1>14
     DEF Next, Update, Quiet

-----------------------------------------------------------------------------
(* No challenge is lost while both connections work.                       *)

\* What is ahead of the challenges of a session is the answer to SID_AUTH_INFO, which makes
\* the client.
LogonAhead(ps, f, u, g) ==
  \/ \E i \in Nat : LogonIn(ps, i) /\ \A j \in Nat : j < i => f[j] = 0
  \/ Nothing(f) /\ \E i \in Nat : LogonOf(u, i) /\ \A j \in Nat : j < i => g[j] = 0

\* A socket is the client's, and only one that was connected is read from or written to.
SockInv == /\ ~client => sock = "new"
           /\ pc \in {"bnlsextract", "flush"} => sock \in {"up", "closed", "error"}

\* There is one such answer in a session, so nothing deletes a client that works.
InfoInv == /\ ~greeted => asked = 0
           /\ client => /\ greeted
                        /\ \A i \in 1..Len(Bnet) : Bnet[i].of.kind # "info"
                        /\ \A i \in 1..Len(packets) : packets[i].kind # "info"

\* So the client will be there before the first challenge is.
AheadInv == Working /\ ~client /\ greeted =>
  LogonAhead(packets, Wardens(packets, session), Bnet, Carried(Bnet, "warden"))

\* BNLS is told the seed before it is asked.
SeedInv == Working /\ client =>
  seeded = session \/ (Asking # <<>> /\ Head(Asking).kind = "seed")

\* Each challenge is answered or is in one of the six places.
HeldInv == Working => \A n \in 1..asked : n <= answered.n \/ Held(Pipe, n)

\* What the relay keeps, besides WardenInv, while both connections work.
KeptInv == SockInv /\ InfoInv /\ AheadInv /\ SeedInv /\ HeldInv

\* Every step keeps SockInv.
LEMMA SockStep == ASSUME SockInv, [Next]_vars PROVE SockInv'
<1> USE DEF SockInv
<1>1. CASE UNCHANGED vars
  BY <1>1 DEF vars, bot
<1>2. CASE \/ GiveUp \/ Connect \/ (\E k \in 0..Len(wire) : Receive(k)) \/ ReceiveFails \/ Extract
  BY <1>2 DEF GiveUp, NoClient, Connect, Receive, ReceiveFails, Extract
<1>3. CASE ProcessInfo \/ ProcessWarden \/ Disconnect \/ AllProcessed \/ SkipClient
  BY <1>3 DEF ProcessInfo, BeginWarden, ProcessWarden, Disconnect, AllProcessed, SkipClient
<1>4. CASE DeleteClient \/ ClientConnects \/ (\E k \in 0..Len(bnlsWire) : ClientReceive(k))
  BY <1>4 DEF DeleteClient, NoClient, ClientConnects, ClientReceive
<1>5. CASE ClientReceiveFails \/ ClientExtract \/ ClientExtracted
  BY <1>5 DEF ClientReceiveFails, ClientExtract, ClientExtracted
<1>6. CASE Flush \/ Relay \/ Send \/ SendNothing
  BY <1>6 DEF Flush, Relay, Send, SendNothing
<1>7. CASE Greet \/ AskWarden \/ Refuse \/ Misbehave \/ BnlsServes \/ BnlsErrs
  BY <1>7 DEF Greet, AskWarden, Refuse, Misbehave, BnlsServes, BnlsErrs, bot
<1> QED
  BY <1>1, <1>2, <1>3, <1>4, <1>5, <1>6, <1>7 DEF Next, Update

\* A client is made once in a session.
LEMMA InfoOnce ==
  ASSUME BnetInv, InfoInv, ProcessInfo
  PROVE  /\ ~client /\ greeted
         /\ \A i \in Nat : LogonIn(packets, i) => i = 1
         /\ \A i \in Nat : ~LogonOf(Bnet, i)
<1>1. /\ packets # <<>> /\ Head(packets).kind = "info" /\ packets \in Seq(Sent(BNET))
      /\ OneLogon
  BY DEF ProcessInfo, BnetInv
<1>2. Len(packets) # 0 /\ Len(packets) \in Nat /\ Head(packets) = packets[1]
  BY <1>1, EmptySeq, LenProperties
<1>3. 1 \in 1..Len(packets) /\ packets[1].kind = "info"
  BY <1>1, <1>2
<1>4. LogonIn(packets, 1)
  BY <1>3 DEF LogonIn, IsLogon
<1> QED
  BY <1>1, <1>3, <1>4 DEF OneLogon, InfoInv

\* A packet is taken from the stream, or none.
LEMMA ExtractTakes ==
  ASSUME BnetInv, Extract
  PROVE  \/ UNCHANGED <<Bnet, packets>>
         \/ \E p \in Sent(BNET) :
              /\ 1 \in 1..Len(Bnet) /\ p = Bnet[1].of /\ Bnet[1].at = 1
              /\ Framed(BNET, Bnet) /\ Bnet' \in Seq(ByteSet(BNET))
              /\ CutBy(Bnet, Bnet', p.size) /\ p.size \in Nat
              /\ packets' = Append(packets, p) /\ p.session = session
<1>1. Buffers(BNET, buf, wire) /\ OfSession(Bnet, session) /\ wire' = wire
      /\ BNET \in {BNET, BNLS}
  BY DEF BnetInv, Extract, world
<1>2. CASE UNCHANGED <<buf, packets>>
  BY <1>1, <1>2 DEF Bnet
<1>3. CASE /\ HasHeader(BNET, buf) /\ ~Malformed(BNET, buf) /\ HasPacket(BNET, buf)
           /\ packets' = Append(packets, buf[1].of) /\ buf' = Left(BNET, buf)
  <2> DEFINE p == buf[1].of
  <2>1. /\ Buffers(BNET, buf', wire') /\ 1 \in 1..Len(Bnet) /\ p = Bnet[1].of
        /\ p \in Sent(BNET) /\ Bnet[1].at = 1 /\ CutBy(Bnet, Bnet', p.size)
    BY <1>1, <1>3, TakingPacket DEF Bnet
  <2>2. packets' = Append(packets, p)
    BY <1>3
  <2> HIDE DEF p
  <2>3. Framed(BNET, Bnet) /\ Bnet' \in Seq(ByteSet(BNET))
    BY <1>1, <2>1 DEF Buffers, Bnet, Framed
  <2>4. p.size \in Nat /\ p.session = session
    BY <1>1, <2>1 DEF Sent, OfSession
  <2> QED
    BY <2>1, <2>2, <2>3, <2>4
<1> QED
  BY <1>2, <1>3 DEF Extract

\* A packet is sent.
LEMMA ServerSends ==
  ASSUME BnetInv, AnswersInv, Greet \/ AskWarden \/ Refuse \/ Misbehave
  PROVE  /\ UNCHANGED <<packets, client, session, seeded, Asking>> /\ Framed(BNET, Bnet)
         /\ \E p \in Sent(BNET) :
              /\ Bnet' = Bnet \o Bytes(p)
              /\ \/ Greet /\ p.kind = "info"
                 \/ /\ UNCHANGED greeted /\ (greeted \/ requested)
                    /\ p.kind \in {"warden", "refused", "malformed"}
<1>1. /\ UNCHANGED <<packets, client, session, seeded, Asking, buf>> /\ Buffers(BNET, buf, wire)
      /\ session \in Nat /\ asked \in Nat /\ BNET \in {BNET, BNLS}
  BY DEF Greet, AskWarden, Refuse, Misbehave, bot, Asking, BnetInv, AnswersInv
<1>2. ASSUME NEW p \in Sent(BNET), wire' = wire \o Bytes(p) PROVE Bnet' = Bnet \o Bytes(p)
  <2>0. p \in Sent(BNET)
    OBVIOUS
  <2>1. buf \o (wire \o Bytes(p)) = (buf \o wire) \o Bytes(p)
    BY ONLY <1>1, <2>0, SendingPacket, SMTT(30)
  <2> QED
    BY <1>1, <1>2, <2>1 DEF Bnet
<1>3. Framed(BNET, Bnet)
  BY <1>1 DEF Buffers, Bnet
<1>4. ASSUME NEW kind \in {"info", "warden", "refused", "malformed"}, NEW n \in Nat,
             kind = "warden" => n # 0, wire' = wire \o Bytes(Packet(BNET, kind, session, n))
      PROVE  \E p \in Sent(BNET) : Bnet' = Bnet \o Bytes(p) /\ p.kind = kind
  <2> DEFINE p == Packet(BNET, kind, session, n)
  <2>1. p \in Sent(BNET) /\ p.kind = kind
    BY <1>1, <1>4, PacketSent DEF Kinds
  <2>2. wire' = wire \o Bytes(p)
    BY <1>4
  <2> HIDE DEF p
  <2> QED
    BY <1>2, <2>1, <2>2
<1>5. CASE Greet
  <2>1. wire' = wire \o Bytes(Packet(BNET, "info", session, 0))
    BY <1>5 DEF Greet
  <2>2. \E p \in Sent(BNET) : Bnet' = Bnet \o Bytes(p) /\ p.kind = "info"
    BY <1>4, <2>1
  <2> QED
    BY <1>1, <1>3, <1>5, <2>2
<1>6. CASE AskWarden
  <2>1. wire' = wire \o Bytes(Packet(BNET, "warden", session, asked + 1))
        /\ UNCHANGED greeted /\ greeted
    BY <1>6 DEF AskWarden
  <2>2. asked + 1 \in Nat /\ asked + 1 # 0
    BY <1>1
  <2>3. \E p \in Sent(BNET) : Bnet' = Bnet \o Bytes(p) /\ p.kind = "warden"
    BY <1>4, <2>1, <2>2
  <2> QED
    BY <1>1, <1>3, <2>1, <2>3
<1>7. CASE Refuse
  <2>1. wire' = wire \o Bytes(Packet(BNET, "refused", session, 0)) /\ UNCHANGED greeted
        /\ requested
    BY <1>7 DEF Refuse
  <2>2. \E p \in Sent(BNET) : Bnet' = Bnet \o Bytes(p) /\ p.kind = "refused"
    BY <1>4, <2>1
  <2> QED
    BY <1>1, <1>3, <2>1, <2>2
<1>8. CASE Misbehave
  <2>1. wire' = wire \o Bytes(Packet(BNET, "malformed", session, 0)) /\ UNCHANGED greeted
        /\ greeted
    BY <1>8 DEF Misbehave
  <2>2. \E p \in Sent(BNET) : Bnet' = Bnet \o Bytes(p) /\ p.kind = "malformed"
    BY <1>4, <2>1
  <2> QED
    BY <1>1, <1>3, <2>1, <2>2
<1> QED
  BY <1>5, <1>6, <1>7, <1>8

\* What is taken from the front of m_Packets, or put behind.
LEMMA QueueOf ==
  ASSUME NEW X, NEW c \in Seq(X)
  PROVE  /\ \A x \in X : \A i \in 1..Len(Append(c, x)) :
              Append(c, x)[i] = x \/ (i \in 1..Len(c) /\ Append(c, x)[i] = c[i])
         /\ c # <<>> => /\ Head(c) = c[1] /\ 1 \in 1..Len(c)
                        /\ \A i \in 1..Len(Tail(c)) :
                             i + 1 \in 1..Len(c) /\ i + 1 # 1 /\ Tail(c)[i] = c[i + 1]
<1>0. Len(c) \in Nat
  BY LenProperties
<1>1. ASSUME NEW x \in X, NEW i \in 1..Len(Append(c, x))
      PROVE  Append(c, x)[i] = x \/ (i \in 1..Len(c) /\ Append(c, x)[i] = c[i])
  <2> DEFINE e == Append(c, x)
             l == Len(c)
  <2>1. Len(e) = l + 1 /\ e[l + 1] = x /\ \A j \in 1..l : e[j] = c[j]
    BY AppendProperties
  <2>2. i \in 1..Len(e) /\ l \in Nat
    BY <1>0
  <2> HIDE DEF e, l
  <2>3. i = l + 1 \/ i \in 1..l
    BY <2>1, <2>2
  <2>4. e[i] = x \/ (i \in 1..l /\ e[i] = c[i])
    BY <2>1, <2>3
  <2> QED
    BY <2>4 DEF e, l
<1>2. ASSUME c # <<>>
      PROVE  /\ Head(c) = c[1] /\ 1 \in 1..Len(c)
             /\ \A i \in 1..Len(Tail(c)) :
                  i + 1 \in 1..Len(c) /\ i + 1 # 1 /\ Tail(c)[i] = c[i + 1]
  <2> DEFINE l == Len(c)
             m == Len(Tail(c))
  <2>1. l # 0 /\ Head(c) = c[1]
    BY <1>2, EmptySeq
  <2>2. m = l - 1 /\ \A i \in 1..m : Tail(c)[i] = c[i + 1]
    BY <1>2, HeadTailProperties
  <2>3. l \in Nat
    BY <1>0
  <2> HIDE DEF l, m
  <2>4. 1 \in 1..l /\ \A i \in 1..m : i + 1 \in 1..l /\ i + 1 # 1
    BY <2>1, <2>2, <2>3
  <2> QED
    BY <2>1, <2>2, <2>4 DEF l, m
<1> QED
  BY <1>1, <1>2

\* No packet of another kind comes with what is taken from a stream or sent.
LEMMA BytesIn ==
  ASSUME NEW u, Framed(BNET, u), NEW kind, \A i \in 1..Len(u) : u[i].of.kind # kind
  PROVE  /\ \A t \in Seq(ByteSet(BNET)), d \in Nat :
              CutBy(u, t, d) => \A i \in 1..Len(t) : t[i].of.kind # kind
         /\ \A p \in Sent(BNET) :
              p.kind # kind => \A i \in 1..Len(u \o Bytes(p)) : (u \o Bytes(p))[i].of.kind # kind
<1>0. Len(u) \in Nat /\ BNET \in {BNET, BNLS}
  BY LenProperties DEF Framed
<1>1. ASSUME NEW t \in Seq(ByteSet(BNET)), NEW d \in Nat, CutBy(u, t, d), NEW i \in 1..Len(t)
      PROVE  t[i].of.kind # kind
  <2>1. t[i] = u[i + d] /\ Len(u) = d + Len(t) /\ Len(t) \in Nat
    BY <1>1, LenProperties DEF CutBy
  <2>2. i + d \in 1..Len(u)
    BY <2>1
  <2> QED
    BY <2>1, <2>2
<1>2. ASSUME NEW p \in Sent(BNET), p.kind # kind, NEW i \in 1..Len(u \o Bytes(p))
      PROVE  (u \o Bytes(p))[i].of.kind # kind
  <2> DEFINE v == u \o Bytes(p)
             l == Len(u)
  <2>0. Then(v, u, p)
    BY <1>0, FramedAppend
  <2>1. i \in 1..Len(v) /\ l \in Nat /\ p.size \in Nat
    BY <1>0 DEF Sent
  <2> HIDE DEF v
  <2>2. /\ Len(v) = l + p.size /\ \A j \in 1..l : v[j] = u[j]
        /\ \A j \in 1..p.size : v[l + j] = Byte(p, j)
    BY <2>0 DEF Then
  <2>3. CASE i <= l
    <3>1. i \in 1..l
      BY <2>1, <2>3
    <3> QED
      BY <2>2, <3>1 DEF v, l
  <2>4. CASE ~(i <= l)
    <3>1. i - l \in 1..p.size /\ l + (i - l) = i
      BY <2>1, <2>2, <2>4
    <3>2. v[i] = Byte(p, i - l)
      BY <2>2, <3>1
    <3>3. v[i].of = p
      BY <3>2 DEF Byte
    <3> QED
      BY <1>2, <3>3 DEF v
  <2> QED
    BY <2>3, <2>4
<1> QED
  BY <1>1, <1>2

\* Every step keeps InfoInv.
LEMMA InfoStep ==
  ASSUME BnetInv, ClientInv, AnswersInv, InfoInv, [Next]_vars
  PROVE  InfoInv'
<1>0. packets \in Seq(Sent(BNET)) /\ asked \in Nat
  BY DEF BnetInv, AnswersInv
<1>1. CASE Quiet
  BY <1>1, QuietLeaves DEF InfoInv
<1>2. CASE GiveUp \/ DeleteClient
  BY <1>2 DEF InfoInv, GiveUp, DeleteClient
<1>3. CASE Connect
  BY <1>3 DEF InfoInv, Connect, BnetInv
<1>4. CASE Extract
  <2>1. UNCHANGED <<client, greeted, asked>>
    BY <1>4 DEF Extract, world
  <2>2. CASE UNCHANGED <<Bnet, packets>>
    BY <2>1, <2>2 DEF InfoInv
  <2>3. ASSUME NEW p \in Sent(BNET), 1 \in 1..Len(Bnet), p = Bnet[1].of,
               Framed(BNET, Bnet), Bnet' \in Seq(ByteSet(BNET)), p.size \in Nat,
               CutBy(Bnet, Bnet', p.size), packets' = Append(packets, p), client
        PROVE  /\ \A i \in 1..Len(Bnet') : Bnet'[i].of.kind # "info"
               /\ \A i \in 1..Len(packets') : packets'[i].kind # "info"
    <3>1. /\ \A i \in 1..Len(Bnet) : Bnet[i].of.kind # "info"
          /\ \A i \in 1..Len(packets) : packets[i].kind # "info"
      BY <2>3 DEF InfoInv
    <3>2. \A i \in 1..Len(Bnet') : Bnet'[i].of.kind # "info"
      BY <2>3, <3>1, BytesIn
    <3>3. p.kind # "info"
      BY <2>3, <3>1
    <3>4. \A i \in 1..Len(Append(packets, p)) :
            \/ Append(packets, p)[i] = p
            \/ i \in 1..Len(packets) /\ Append(packets, p)[i] = packets[i]
      BY <1>0, QueueOf
    <3>5. \A i \in 1..Len(packets') : packets'[i].kind # "info"
      BY <2>3, <3>1, <3>3, <3>4
    <3> QED
      BY <3>2, <3>5
  <2> QED
    BY <1>4, <2>1, <2>2, <2>3, ExtractTakes DEF InfoInv
<1>5. ASSUME packets # <<>>, packets' = Tail(packets)
      PROVE  \A i \in 1..Len(packets') :
               i + 1 \in 1..Len(packets) /\ i + 1 # 1 /\ packets'[i] = packets[i + 1]
  BY <1>0, <1>5, QueueOf
<1>6. CASE ProcessInfo
  <2>1. /\ packets # <<>> /\ packets' = Tail(packets)
        /\ UNCHANGED <<greeted, asked, Bnet>>
    BY <1>6 DEF ProcessInfo, Bnet
  <2>2. /\ greeted /\ \A i \in Nat : LogonIn(packets, i) => i = 1
        /\ \A i \in Nat : ~LogonOf(Bnet, i)
    BY <1>6, InfoOnce
  <2>3. ASSUME NEW i \in 1..Len(packets') PROVE packets'[i].kind # "info"
    <3>1. i + 1 \in 1..Len(packets) /\ i + 1 # 1 /\ packets'[i] = packets[i + 1]
      BY <1>5, <2>1
    <3>2. ~LogonIn(packets, i + 1)
      BY <2>2, <3>1
    <3> QED
      BY <3>1, <3>2 DEF LogonIn, IsLogon
  <2>4. ASSUME NEW i \in 1..Len(Bnet) PROVE Bnet[i].of.kind # "info"
    <3>1. InPacket(Bnet, i) /\ Framed(BNET, Bnet)
      BY DEF BnetInv, Buffers, Framed, Bnet
    <3>2. PICK k \in Nat : Whole(Bnet, Bnet[i].of, k)
      BY <3>1 DEF InPacket
    <3> DEFINE p == Bnet[i].of
    <3>3. p.size \in Nat /\ p.size >= 1
      <4>1. Bnet[i] \in ByteSet(BNET)
        BY <3>1, ElementOfSeq DEF Framed
      <4>2. p \in Sent(BNET)
        BY <4>1 DEF ByteSet
      <4>3. BNET.header \in Nat /\ BNET.header >= 3
        BY Protocols
      <4> QED
        BY <4>2, <4>3 DEF Sent
    <3>4. Len(Bnet) \in Nat
      BY <3>1, LenProperties DEF Framed
    <3> HIDE DEF p
    <3>5. k + p.size <= Len(Bnet) /\ \A j \in 1..p.size : Bnet[k + j] = Byte(p, j)
      BY <3>2 DEF Whole, p
    <3>6. k + 1 \in 1..Len(Bnet) /\ 1 \in 1..p.size
      BY <3>3, <3>4, <3>5
    <3>7. Bnet[k + 1] = Byte(p, 1)
      BY <3>5, <3>6
    <3>8. Bnet[k + 1].at = 1 /\ Bnet[k + 1].of = p
      BY <3>7 DEF Byte
    <3>9. ~LogonOf(Bnet, k + 1)
      BY <2>2
    <3> QED
      BY <3>6, <3>8, <3>9 DEF LogonOf, IsLogon, p
  <2> QED
    BY <2>1, <2>2, <2>3, <2>4 DEF InfoInv
<1>7. CASE ProcessWarden \/ Disconnect
  <2>1. packets # <<>> /\ packets' = Tail(packets) /\ UNCHANGED <<greeted, asked, client, Bnet>>
    BY <1>7 DEF ProcessWarden, Disconnect, world, Bnet
  <2> QED
    BY <1>5, <2>1 DEF InfoInv
<1>8. CASE Greet \/ AskWarden \/ Refuse \/ Misbehave
  <2>1. UNCHANGED <<packets, client>> /\ Framed(BNET, Bnet)
    BY <1>8, ServerSends
  <2>2. ~greeted' => asked' = 0
    BY <1>8 DEF InfoInv, Greet, AskWarden, Refuse, Misbehave
  <2>3. ASSUME client
        PROVE  greeted' /\ \A i \in 1..Len(Bnet') : Bnet'[i].of.kind # "info"
    <3>1. greeted /\ \A i \in 1..Len(Bnet) : Bnet[i].of.kind # "info"
      BY <2>3 DEF InfoInv
    <3>2. ~Greet
      BY <3>1 DEF Greet
    <3>3. PICK p \in Sent(BNET) : Bnet' = Bnet \o Bytes(p) /\ p.kind # "info" /\ UNCHANGED greeted
      BY <1>8, <3>2, ServerSends
    <3>4. \A i \in 1..Len(Bnet \o Bytes(p)) : (Bnet \o Bytes(p))[i].of.kind # "info"
      BY <2>1, <3>1, <3>3, BytesIn
    <3> QED
      BY <3>1, <3>3, <3>4
  <2> QED
    BY <2>1, <2>2, <2>3 DEF InfoInv
<1>9. CASE ClientExtract \/ Flush \/ Relay \/ Send \/ BnlsServes \/ BnlsErrs
  <2>1. UNCHANGED <<packets, client, greeted, asked, Bnet>>
    BY <1>9 DEF ClientExtract, Flush, Relay, Send, BnlsServes, BnlsErrs, world, bot, Bnet
  <2> QED
    BY <2>1 DEF InfoInv
<1> QED
  BY <1>1, <1>2, <1>3, <1>4, <1>6, <1>7, <1>8, <1>9 DEF Next, Update, Quiet

\* Connections that work have worked before, or are new.
LEMMA WorkingStep ==
  ASSUME BnetInv, SockInv, InfoInv, [Next]_vars, Working'
  PROVE  Connect \/ (Working /\ ~GiveUp /\ ~DeleteClient /\ ~Disconnect /\ ~BnlsErrs)
<1>1. ~GiveUp /\ ~DeleteClient /\ ~Disconnect /\ ~BnlsErrs
  BY DEF Working, GiveUp, DeleteClient, Disconnect, BnlsErrs
<1>2. ASSUME ~Connect PROVE Working
  <2>1. CASE UNCHANGED vars
    BY <2>1 DEF vars, bot, world, Working
  <2>2. CASE (\E k \in 0..Len(wire) : Receive(k)) \/ ReceiveFails \/ Extract
    BY <2>2 DEF Receive, ReceiveFails, Extract, world, Working
  <2>3. CASE ProcessInfo
    <3>1. ~client
      BY <2>3, InfoOnce
    <3>2. sock = "new" /\ UNCHANGED <<conn, failed>>
      BY <2>3, <3>1 DEF SockInv, ProcessInfo
    <3> QED
      BY <3>2 DEF Working
  <2>4. CASE ProcessWarden \/ AllProcessed \/ SkipClient \/ ClientConnects
    BY <2>4 DEF ProcessWarden, AllProcessed, SkipClient, ClientConnects, world, Working
  <2>5. CASE \/ (\E k \in 0..Len(bnlsWire) : ClientReceive(k)) \/ ClientReceiveFails
             \/ ClientExtract \/ ClientExtracted
    BY <2>5 DEF ClientReceive, ClientReceiveFails, ClientExtract, ClientExtracted, world, Working
  <2>6. CASE Flush \/ Relay \/ Send \/ SendNothing
    BY <2>6 DEF Flush, Relay, Send, SendNothing, world, Working
  <2>7. CASE Greet \/ AskWarden \/ Refuse \/ Misbehave \/ BnlsServes
    BY <2>7 DEF Greet, AskWarden, Refuse, Misbehave, BnlsServes, bot, Working
  <2> QED
    BY <1>1, <1>2, <2>1, <2>2, <2>3, <2>4, <2>5, <2>6, <2>7 DEF Next, Update
<1> QED
  BY <1>1, <1>2

\* Before the first challenge, no place has one.
LEMMA NoneAsked ==
  ASSUME BnetInv, ClientInv, AnswersInv, asked = 0
  PROVE  Nothing(Wardens(packets, session)) /\ Nothing(Carried(Bnet, "warden"))
<1>1. /\ answered \in [session : Nat, n : Nat] /\ outPackets \in Seq(Challenges)
      /\ InTurn(Pipe, answered.n, 0)
  BY DEF AnswersInv
<1>2. answered.n \in Nat
  BY <1>1
<1>3. AllNat(Pipe) /\ Pipe[5] = Wardens(packets, session) /\ Pipe[6] = Carried(Bnet, "warden")
  BY <1>1, PipePlaces
<1>4. \A k \in Places, i \in Nat : Pipe[k][i] = 0
  BY <1>1, <1>2, <1>3 DEF InTurn, AllNat
<1>5. 5 \in Places /\ 6 \in Places
  BY DEF Places
<1> QED
  BY <1>3, <1>4, <1>5 DEF Nothing

\* Every step keeps AheadInv: a packet is taken from battle.net,
LEMMA ExtractAhead ==
  ASSUME BnetInv, Extract, session' = session,
         LogonAhead(packets, Wardens(packets, session), Bnet, Carried(Bnet, "warden"))
  PROVE  LogonAhead(packets', Wardens(packets', session), Bnet', Carried(Bnet', "warden"))
<1> DEFINE f == Wardens(packets, session)
           g == Carried(Bnet, "warden")
           f1 == Wardens(packets', session)
           g1 == Carried(Bnet', "warden")
           l == Len(packets)
<1>1. CASE UNCHANGED <<Bnet, packets>>
  BY <1>1
<1>2. ASSUME NEW p \in Sent(BNET), 1 \in 1..Len(Bnet), p = Bnet[1].of, Bnet[1].at = 1,
             Framed(BNET, Bnet), Bnet' \in Seq(ByteSet(BNET)), p.size \in Nat,
             CutBy(Bnet, Bnet', p.size), packets' = Append(packets, p), p.session = session
      PROVE  LogonAhead(packets', f1, Bnet', g1)
  <2> DEFINE d == p.size
  <2>1. packets \in Seq(Sent(BNET)) /\ l \in Nat
    BY LenProperties DEF BnetInv
  <2>2. IF p.kind = "warden" THEN Longer(f, f1, l + 1, p.n) ELSE f1 = f
    BY <1>2, <2>1, WardensOf
  <2>3. \A i \in Nat : LogonIn(packets', i) <=> LogonIn(packets, i) \/ (i = l + 1 /\ IsLogon(p))
    BY <1>2, <2>1, LogonsIn
  <2>4. BNET \in {BNET, BNLS} /\ d = Bnet[1].of.size
    BY <1>2
  <2> HIDE DEF d
  <2>5. /\ Later(g, g1, d) /\ d \in Nat /\ g[1] = IF p.kind = "warden" THEN p.n ELSE 0
        /\ \A i \in Nat : LogonOf(Bnet, i) => i = 1 \/ (i - d \in Nat /\ LogonOf(Bnet', i - d))
    <3>1. CutBy(Bnet, Bnet', d)
      BY <1>2 DEF d
    <3>2. /\ Later(Carried(Bnet, "warden"), Carried(Bnet', "warden"), d) /\ d \in Nat
          /\ Carried(Bnet, "warden")[1] = IF Bnet[1].of.kind = "warden" THEN Bnet[1].of.n ELSE 0
          /\ \A i \in Nat : LogonOf(Bnet, i) => i = 1 \/ (i - d \in Nat /\ LogonOf(Bnet', i - d))
      BY <1>2, <2>4, <3>1, CarriedLess
    <3> QED
      BY <1>2, <3>2
  <2> HIDE DEF f, g, f1, g1, l
  <2>6. CASE \E i \in Nat : LogonIn(packets, i) /\ \A j \in Nat : j < i => f[j] = 0
    <3>1. PICK i \in Nat : LogonIn(packets, i) /\ \A j \in Nat : j < i => f[j] = 0
      BY <2>6
    <3>2. i <= l
      BY <3>1 DEF LogonIn, l
    <3>3. \A j \in Nat : j < i => f1[j] = 0
      BY <2>1, <2>2, <3>1, <3>2 DEF Longer
    <3> QED
      BY <2>3, <3>1, <3>3 DEF LogonAhead
  <2>7. ASSUME Nothing(f), NEW i \in Nat, LogonOf(Bnet, i), \A j \in Nat : j < i => g[j] = 0
        PROVE  LogonAhead(packets', f1, Bnet', g1)
    <3>1. p.kind # "warden"
      <4>1. CASE i = 1
        BY <1>2, <2>7, <4>1 DEF LogonOf, IsLogon
      <4>2. CASE i # 1
        <5>1. 1 < i
          BY <2>7, <4>2 DEF LogonOf
        <5>2. g[1] = 0
          BY <2>7, <5>1
        <5> QED
          BY <2>5, <5>2 DEF Sent
      <4> QED
        BY <4>1, <4>2
    <3>2. Nothing(f1)
      BY <2>2, <2>7, <3>1
    <3>3. CASE i = 1
      <4>1. IsLogon(p)
        BY <1>2, <2>7, <3>3 DEF LogonOf
      <4>2. LogonIn(packets', l + 1) /\ l + 1 \in Nat
        BY <2>1, <2>3, <4>1
      <4> QED
        BY <3>2, <4>2 DEF LogonAhead, Nothing
    <3>4. CASE i # 1
      <4>1. i - d \in Nat /\ LogonOf(Bnet', i - d)
        BY <2>5, <2>7, <3>4
      <4>2. ASSUME NEW j \in Nat, j < i - d PROVE g1[j] = 0
        <5>1. j + d \in Nat /\ j + d < i
          BY <2>5, <4>1, <4>2
        <5>2. g[j + d] = 0
          BY <2>7, <5>1
        <5> QED
          BY <2>5, <5>2 DEF Later
      <4> QED
        BY <3>2, <4>1, <4>2 DEF LogonAhead
    <3> QED
      BY <3>3, <3>4
  <2>8. LogonAhead(packets, f, Bnet, g)
    BY DEF f, g
  <2> QED
    BY <2>6, <2>7, <2>8 DEF LogonAhead
<1> QED
  BY <1>1, <1>2, ExtractTakes

\* another is sent,
LEMMA SentAhead ==
  ASSUME BnetInv, ClientInv, AnswersInv, InfoInv, Greet \/ AskWarden \/ Refuse \/ Misbehave,
         ~greeted \/ LogonAhead(packets, Wardens(packets, session), Bnet, Carried(Bnet, "warden")),
         greeted'
  PROVE  LogonAhead(packets', Wardens(packets', session'), Bnet', Carried(Bnet', "warden"))
<1> DEFINE f == Wardens(packets, session)
           g == Carried(Bnet, "warden")
           g1 == Carried(Bnet', "warden")
           l == Len(Bnet)
<1>1. UNCHANGED <<packets, session>> /\ Framed(BNET, Bnet) /\ BNET \in {BNET, BNLS}
  BY ServerSends
<1>2. PICK p \in Sent(BNET) :
        /\ Bnet' = Bnet \o Bytes(p)
        /\ \/ Greet /\ p.kind = "info"
           \/ UNCHANGED greeted /\ p.kind \in {"warden", "refused", "malformed"}
  BY ServerSends
<1>3. /\ IF p.kind = "warden" THEN Longer(g, g1, l + 1, p.n) ELSE g1 = g
      /\ \A i \in Nat : LogonOf(Bnet', i) <=> LogonOf(Bnet, i) \/ (i = l + 1 /\ IsLogon(p))
  <2> DEFINE u == Bnet
             v == u \o Bytes(p)
  <2>1. Framed(BNET, u) /\ BNET \in {BNET, BNLS} /\ p \in Sent(BNET)
    BY <1>1
  <2>2. /\ IF p.kind = "warden"
             THEN Longer(Carried(u, "warden"), Carried(v, "warden"), Len(u) + 1, p.n)
             ELSE Carried(v, "warden") = Carried(u, "warden")
        /\ \A i \in Nat : LogonOf(v, i) <=> LogonOf(u, i) \/ (i = Len(u) + 1 /\ IsLogon(p))
    BY ONLY <2>1, CarriedMore
  <2> HIDE DEF v
  <2>3. Bnet' = v
    BY <1>2 DEF v
  <2> QED
    BY <2>2, <2>3
<1>4. l \in Nat
  BY <1>1, LenProperties DEF Framed
<1>5. CASE Greet /\ p.kind = "info"
  <2>1. asked = 0
    BY <1>5 DEF Greet, InfoInv
  <2>2. Nothing(f) /\ Nothing(g)
    BY <2>1, NoneAsked
  <2> HIDE DEF f, g, g1, l
  <2>3. Nothing(g1) /\ LogonOf(Bnet', l + 1) /\ l + 1 \in Nat
    BY <1>3, <1>4, <1>5, <2>2 DEF IsLogon
  <2>4. LogonAhead(packets, f, Bnet', g1)
    BY <2>2, <2>3 DEF LogonAhead, Nothing
  <2> QED
    BY <1>1, <2>4 DEF f, g1
<1>6. CASE UNCHANGED greeted /\ p.kind \in {"warden", "refused", "malformed"}
  <2>1. LogonAhead(packets, f, Bnet, g)
    BY <1>6
  <2> HIDE DEF f, g, g1
  <2>2. ASSUME NEW i \in Nat, LogonOf(Bnet, i), \A j \in Nat : j < i => g[j] = 0
        PROVE  LogonOf(Bnet', i) /\ \A j \in Nat : j < i => g1[j] = 0
    <3>1. LogonOf(Bnet', i) /\ i <= l
      BY <1>3, <2>2 DEF LogonOf
    <3> HIDE DEF l
    <3> QED
      BY <1>3, <1>4, <2>2, <3>1 DEF Longer
  <2>3. LogonAhead(packets, f, Bnet', g1)
    BY <2>1, <2>2 DEF LogonAhead
  <2> QED
    BY <1>1, <2>3 DEF f, g1
<1> QED
  BY <1>2, <1>5, <1>6

\* or a challenge that an earlier session left is lost.
LEMMA WardenAhead ==
  ASSUME BnetInv, ProcessWarden,
         LogonAhead(packets, Wardens(packets, session), Bnet, Carried(Bnet, "warden"))
  PROVE  /\ Wardens(packets, session)[1] = 0
         /\ LogonAhead(packets', Wardens(packets', session'), Bnet', Carried(Bnet', "warden"))
<1> DEFINE f == Wardens(packets, session)
           f1 == Wardens(packets', session)
           g == Carried(Bnet, "warden")
<1>1. /\ packets # <<>> /\ Head(packets).kind = "warden" /\ packets' = Tail(packets)
      /\ UNCHANGED <<session, Bnet>> /\ packets \in Seq(Sent(BNET))
  BY DEF ProcessWarden, world, Bnet, BnetInv
<1>2. Later(f, f1, 1)
  BY <1>1, WardensOf
<1>3. \A i \in Nat : LogonIn(packets, i) => i = 1 \/ (i - 1 \in Nat /\ LogonIn(packets', i - 1))
  BY <1>1, LogonsIn
<1>4. ~LogonIn(packets, 1)
  <2>1. Head(packets) = packets[1]
    BY <1>1, QueueOf
  <2> QED
    BY <1>1, <2>1 DEF LogonIn, IsLogon
<1>5. LogonAhead(packets, f, Bnet, g)
  OBVIOUS
<1> HIDE DEF f, f1, g
<1>6. ASSUME NEW i \in Nat, LogonIn(packets, i), \A j \in Nat : j < i => f[j] = 0
      PROVE  f[1] = 0 /\ LogonAhead(packets', f1, Bnet, g)
  <2>1. i # 1 /\ i - 1 \in Nat /\ LogonIn(packets', i - 1)
    BY <1>3, <1>4, <1>6
  <2>2. i >= 1
    BY <1>6 DEF LogonIn
  <2>3. f[1] = 0
    BY <1>6, <2>1, <2>2
  <2>4. ASSUME NEW j \in Nat, j < i - 1 PROVE f1[j] = 0
    <3>1. j + 1 \in Nat /\ j + 1 < i
      BY <2>4
    <3>2. f[j + 1] = 0
      BY <1>6, <3>1
    <3> QED
      BY <1>2, <3>2 DEF Later
  <2> QED
    BY <2>1, <2>3, <2>4 DEF LogonAhead
<1>7. ASSUME Nothing(f), \E i \in Nat : LogonOf(Bnet, i) /\ \A j \in Nat : j < i => g[j] = 0
      PROVE  f[1] = 0 /\ LogonAhead(packets', f1, Bnet, g)
  <2>1. Nothing(f1)
    BY <1>2, <1>7 DEF Later, Nothing
  <2> QED
    BY <1>7, <2>1 DEF LogonAhead, Nothing
<1>8. f[1] = 0 /\ LogonAhead(packets', f1, Bnet, g)
  BY <1>5, <1>6, <1>7 DEF LogonAhead
<1> QED
  BY <1>1, <1>8 DEF f, f1, g

\* The other steps leave it ahead, and so every step keeps AheadInv.
LEMMA AheadStep ==
  ASSUME BnetInv, ClientInv, AnswersInv, SockInv, InfoInv, AheadInv, [Next]_vars
  PROVE  AheadInv'
<1> SUFFICES ASSUME Working', ~client', greeted'
             PROVE  LogonAhead(packets', Wardens(packets', session'), Bnet',
                               Carried(Bnet', "warden"))
  BY DEF AheadInv
<1>1. ~Connect
  BY DEF Connect
<1>2. Working /\ ~GiveUp /\ ~DeleteClient /\ ~Disconnect /\ ~BnlsErrs
  BY <1>1, WorkingStep
<1>3. \/ client \/ ~greeted
      \/ LogonAhead(packets, Wardens(packets, session), Bnet, Carried(Bnet, "warden"))
  BY <1>2 DEF AheadInv
<1>4. ~ProcessInfo
  BY DEF ProcessInfo, BeginWarden
<1>5. CASE Quiet
  BY <1>3, <1>5, QuietLeaves
<1>6. CASE Extract
  <2>1. UNCHANGED <<client, greeted, session>>
    BY <1>6 DEF Extract, world
  <2> QED
    BY <1>3, <1>6, <2>1, ExtractAhead
<1>7. CASE ProcessWarden
  <2>1. UNCHANGED <<client, greeted>>
    BY <1>7 DEF ProcessWarden, world
  <2> QED
    BY <1>3, <1>7, <2>1, WardenAhead
<1>8. CASE Greet \/ AskWarden \/ Refuse \/ Misbehave
  <2>1. UNCHANGED client
    BY <1>8 DEF Greet, AskWarden, Refuse, Misbehave, bot
  <2> QED
    BY <1>3, <1>8, <2>1, SentAhead
<1>9. CASE ClientExtract \/ Flush \/ Relay \/ Send \/ BnlsServes
  <2>1. UNCHANGED <<packets, client, greeted, session, Bnet>>
    BY <1>9 DEF ClientExtract, Flush, Relay, Send, BnlsServes, world, bot, Bnet
  <2> QED
    BY <1>3, <2>1
<1> QED
  BY <1>1, <1>2, <1>4, <1>5, <1>6, <1>7, <1>8, <1>9 DEF Next, Update, Quiet

\* Every step keeps SeedInv.
LEMMA SeedStep ==
  ASSUME BnetInv, ClientInv, SockInv, InfoInv, SeedInv, [Next]_vars
  PROVE  SeedInv'
<1> SUFFICES ASSUME Working', client'
             PROVE  seeded' = session' \/ (Asking' # <<>> /\ Head(Asking').kind = "seed")
  BY DEF SeedInv
<1>0. ~Connect
  BY DEF Connect, BnetInv
<1>1. Working /\ ~GiveUp /\ ~DeleteClient /\ ~Disconnect /\ ~BnlsErrs
  BY <1>0, WorkingStep
<1>2. client => seeded = session \/ (Asking # <<>> /\ Head(Asking).kind = "seed")
  BY <1>1 DEF SeedInv
<1>3. /\ toBnls \in Seq(Requests) /\ bnlsOut \in Seq(Requests) /\ From(toBnls, session)
      /\ Asking \in Seq(Requests)
  BY ConcatProperties DEF ClientInv, Asking
<1>4. CASE Quiet
  BY <1>2, <1>4, QuietLeaves
<1>5. CASE ProcessInfo
  <2> DEFINE x == [kind |-> "seed", session |-> Head(packets).session, n |-> 0]
  <2>1. toBnls' = <<>> /\ bnlsOut' = <<x>>
    BY <1>5 DEF ProcessInfo, BeginWarden
  <2>2. x.kind = "seed"
    OBVIOUS
  <2> HIDE DEF x
  <2>3. <<x>> \in Seq({x}) /\ <<x>> # <<>> /\ Head(<<x>>) = x
    OBVIOUS
  <2>4. Asking' = <<x>>
    BY <2>1, <2>3, ConcatEmptySeq DEF Asking
  <2> QED
    BY <2>2, <2>3, <2>4
<1>6. CASE ProcessWarden
  <2>1. /\ UNCHANGED <<client, toBnls, seeded, session>>
        /\ packets # <<>> /\ packets \in Seq(Sent(BNET)) /\ Head(packets).kind = "warden"
    BY <1>6 DEF ProcessWarden, world, BnetInv
  <2> DEFINE x == [kind |-> "raw", session |-> Head(packets).session, n |-> Head(packets).n]
  <2>2. x \in Requests
    <3>1. Head(packets) \in Sent(BNET)
      BY <2>1, HeadTailProperties
    <3> QED
      BY <2>1, <3>1 DEF Sent, Requests
  <2>3. bnlsOut' = Append(bnlsOut, x)
    BY <1>6, <2>1 DEF ProcessWarden
  <2> HIDE DEF x
  <2>4. Asking' = Append(Asking, x)
    BY <1>3, <2>1, <2>2, <2>3, AppendConcat DEF Asking
  <2>5. Asking # <<>> => Append(Asking, x) # <<>> /\ Head(Append(Asking, x)) = Head(Asking)
    <3> DEFINE e == Append(Asking, x)
               l == Len(Asking)
    <3>1. /\ Len(e) = l + 1 /\ l \in Nat /\ e \in Seq(Requests) /\ \A i \in 1..l : e[i] = Asking[i]
      BY <1>3, <2>2, AppendProperties, LenProperties
    <3>2. Asking # <<>> => l # 0 /\ Head(Asking) = Asking[1]
      BY <1>3, EmptySeq
    <3> HIDE DEF e, l
    <3>3. e # <<>> /\ Head(e) = e[1]
      BY <3>1, EmptySeq
    <3> QED
      BY <3>1, <3>2, <3>3 DEF e
  <2> QED
    BY <1>2, <2>1, <2>4, <2>5
<1>7. CASE Flush
  <2>1. sock = "up" /\ UNCHANGED <<client, seeded, session>>
    BY <1>1, <1>7 DEF SockInv, Working, Flush
  <2>2. toBnls' = toBnls \o bnlsOut /\ bnlsOut' = <<>>
    BY <1>7, <2>1 DEF Flush
  <2>3. Asking' = Asking
    BY <1>3, <2>2, ConcatEmptySeq DEF Asking
  <2> QED
    BY <1>2, <2>1, <2>3
<1>8. CASE BnlsServes
  <2> DEFINE r == Head(toBnls)
  <2>1. /\ UNCHANGED <<client, bnlsOut, session>> /\ toBnls # <<>>
        /\ IF r.kind = "seed" THEN seeded' = r.session ELSE seeded' = seeded
    BY <1>8 DEF BnlsServes, bot
  <2>2. r.session = session /\ Head(Asking) = r
    BY <1>3, <2>1, FromOf, TailConcat DEF Asking
  <2> QED
    BY <1>2, <2>1, <2>2
<1>9. CASE Extract \/ Greet \/ AskWarden \/ Refuse \/ Misbehave
  <2>1. UNCHANGED <<client, seeded, session, Asking>>
    BY <1>9 DEF Extract, Greet, AskWarden, Refuse, Misbehave, world, bot, Asking
  <2> QED
    BY <1>2, <2>1
<1>10. CASE ClientExtract \/ Relay \/ Send
  <2>1. UNCHANGED <<client, seeded, session, Asking>>
    BY <1>10 DEF ClientExtract, Relay, Send, world, Asking
  <2> QED
    BY <1>2, <2>1
<1> QED
  BY <1>0, <1>1, <1>4, <1>5, <1>6, <1>7, <1>8, <1>9, <1>10 DEF Next, Update, Quiet

\* The new client takes the place of none.
LEMMA InfoRetains ==
  ASSUME BnetInv, ClientInv, AnswersInv, InfoInv, BnetInv', ClientInv', ProcessInfo
  PROVE  Retains(Pipe, Pipe')
<1>1. /\ packets # <<>> /\ Head(packets).kind = "info" /\ packets' = Tail(packets)
      /\ UNCHANGED <<session, outPackets, Bnet>> /\ packets \in Seq(Sent(BNET))
      /\ outPackets \in Seq(Challenges)
  BY DEF ProcessInfo, Bnet, BnetInv, AnswersInv
<1>2. ~client
  BY InfoOnce
<1>3. /\ responses = <<>> /\ bnlsBuf = <<>> /\ bnlsWire = <<>> /\ toBnls = <<>> /\ bnlsOut = <<>>
  BY <1>2 DEF ClientInv
<1>4. Nothing(Numbers(responses)) /\ Nothing(Carried(Bnls, "answer"))
  BY <1>3, NothingIn DEF Bnls
<1>5. Nothing(Raws(Asking))
  <2>1. Asking = <<>>
    BY <1>3, EmptySeq DEF Asking
  <2> QED
    BY <2>1, NothingIn
<1>6. Keeps(Wardens(packets, session), Wardens(packets', session'))
  <2>1. /\ Shifted(Wardens(packets, session), Wardens(Tail(packets), session), 1)
        /\ Wardens(packets, session)[1] = 0 /\ 1 \in Nat
    BY <1>1, WardensOf
  <2> QED
    BY <1>1, <2>1 DEF Keeps
<1> QED
  BY <1>1, <1>4, <1>5, <1>6, PipeRetains DEF Keeps

\* Every step keeps HeldInv.
LEMMA HeldStep ==
  ASSUME BnetInv, ClientInv, AnswersInv, BnetInv', ClientInv', AnswersInv',
         SockInv, InfoInv, AheadInv, SeedInv, HeldInv, [Next]_vars
  PROVE  HeldInv'
<1> SUFFICES ASSUME Working' PROVE \A n \in 1..asked' : n <= answered'.n \/ Held(Pipe', n)
  BY DEF HeldInv
<1>1. CASE Connect
  <2>1. 1..asked' = {}
    BY <1>1 DEF Connect
  <2> QED
    BY <2>1
<1>2. CASE ~Connect
  <2>1. Working /\ ~GiveUp /\ ~DeleteClient /\ ~Disconnect /\ ~BnlsErrs
    BY <1>2, WorkingStep
  <2>2. /\ \A n \in 1..asked : n <= answered.n \/ Held(Pipe, n)
        /\ asked \in Nat /\ asked' \in Nat /\ answered.n \in Nat /\ answered'.n \in Nat
    BY <2>1 DEF HeldInv, AnswersInv
  <2>3. ASSUME Retains(Pipe, Pipe'), answered' = answered, asked' = asked \/ Held(Pipe', asked'),
               asked' \in {asked, asked + 1}, NEW n \in 1..asked'
        PROVE  n <= answered'.n \/ Held(Pipe', n)
    <3>1. n \in Nat \ {0} /\ (n \in 1..asked \/ n = asked')
      BY <2>2, <2>3
    <3>2. CASE n \in 1..asked
      BY <2>2, <2>3, <3>1, <3>2 DEF Retains
    <3>3. CASE n \notin 1..asked
      <4>1. n = asked' /\ asked' # asked
        BY <2>2, <2>3, <3>1, <3>3
      <4> QED
        BY <2>3, <4>1
    <3> QED
      BY <3>2, <3>3
  <2>4. ASSUME Retains(Pipe, Pipe'), UNCHANGED <<answered, asked>>
        PROVE  \A n \in 1..asked' : n <= answered'.n \/ Held(Pipe', n)
    BY <2>3, <2>4
  <2>5. CASE Quiet
    BY <2>4, <2>5, QuietLeaves, QuietAnswers
  <2>6. CASE Extract \/ ClientExtract \/ Relay
    <3>1. Retains(Pipe, Pipe')
      BY <2>6, ExtractAnswers, ClientExtractAnswers, RelayAnswers
    <3>2. UNCHANGED <<answered, asked>>
      BY <2>6 DEF Extract, ClientExtract, Relay, world
    <3> QED
      BY <2>4, <3>1, <3>2
  <2>7. CASE ProcessInfo
    <3>1. UNCHANGED <<answered, asked>>
      BY <2>7 DEF ProcessInfo
    <3> QED
      BY <2>4, <2>7, <3>1, InfoRetains
  <2>8. CASE ProcessWarden
    <3>1. UNCHANGED <<answered, asked>>
      BY <2>8 DEF ProcessWarden, world
    <3>2. client \/ Wardens(packets, session)[1] = 0
      <4>1. CASE ~greeted
        <5>1. Nothing(Wardens(packets, session))
          BY <4>1, NoneAsked DEF InfoInv
        <5> QED
          BY <5>1 DEF Nothing
      <4>2. CASE greeted /\ ~client
        BY <2>1, <2>8, <4>2, WardenAhead DEF AheadInv
      <4> QED
        BY <4>1, <4>2
    <3>3. Retains(Pipe, Pipe')
      BY <2>8, <3>2, ProcessWardenAnswers
    <3> QED
      BY <2>4, <3>1, <3>3
  <2>9. CASE Flush
    <3>1. sock = "up" /\ UNCHANGED <<answered, asked>>
      BY <2>1, <2>9 DEF SockInv, Working, Flush
    <3>2. Retains(Pipe, Pipe')
      BY <2>9, <3>1, FlushAnswers
    <3> QED
      BY <2>4, <3>1, <3>2
  <2>10. CASE BnlsServes
    <3>1. toBnls # <<>> /\ UNCHANGED <<answered, asked>>
      BY <2>10 DEF BnlsServes
    <3>2. client
      BY <3>1 DEF ClientInv
    <3>3. Asking # <<>> /\ Head(Asking) = Head(toBnls)
      BY <3>1, TailConcat DEF ClientInv, Asking
    <3>4. Head(toBnls).kind = "raw" => seeded = session
      BY <2>1, <3>2, <3>3 DEF SeedInv
    <3>5. Retains(Pipe, Pipe')
      BY <2>10, <3>4, BnlsAnswers
    <3> QED
      BY <2>4, <3>1, <3>5
  <2>11. CASE Greet \/ AskWarden \/ Refuse \/ Misbehave
    <3>1. answered' = answered /\ asked' \in {asked, asked + 1}
      BY <2>11 DEF Greet, AskWarden, Refuse, Misbehave
    <3>2. Retains(Pipe, Pipe') /\ (asked' = asked \/ Held(Pipe', asked'))
      BY <2>11, ServerAnswers
    <3> QED
      BY <2>3, <3>1, <3>2
  <2>12. CASE Send
    <3>1. conn = "up" /\ asked' = asked
      BY <2>1, <2>12 DEF Working, Send
    <3>2. /\ answered.n <= answered'.n
          /\ \A n \in Nat \ {0} : Held(Pipe, n) => n <= answered'.n \/ Held(Pipe', n)
      BY <2>12, <3>1, SendAnswers
    <3>3. ASSUME NEW n \in 1..asked' PROVE n <= answered'.n \/ Held(Pipe', n)
      <4>1. n \in 1..asked /\ n \in Nat \ {0}
        BY <3>1
      <4>2. n <= answered.n => n <= answered'.n
        BY <2>2, <3>2, <4>1
      <4> QED
        BY <2>2, <3>2, <4>1, <4>2
    <3> QED
      BY <3>3
  <2> QED
    BY <1>2, <2>1, <2>5, <2>6, <2>7, <2>8, <2>9, <2>10, <2>11, <2>12 DEF Next, Update, Quiet
<1> QED
  BY <1>1, <1>2

-----------------------------------------------------------------------------
(* The theorems.                                                           *)

\* It holds at the start.
LEMMA WardenBegins == ASSUME Init PROVE WardenInv
<1>1. /\ buf = <<>> /\ wire = <<>> /\ packets = <<>> /\ outPackets = <<>> /\ client = FALSE
      /\ conn = "down" /\ pc = "idle" /\ session = 0 /\ greeted = FALSE /\ requested = FALSE
      /\ bnlsBuf = <<>> /\ bnlsWire = <<>> /\ toBnls = <<>> /\ bnlsOut = <<>>
      /\ responses = <<>> /\ asked = 0 /\ answered = [session |-> 0, n |-> 0]
  BY DEF Init, None
<1>2. Len(packets) = 0 /\ \A X : packets \in Seq(X)
  BY <1>1, EmptySeq
<1>3. BnetInv
  <2>1. Buffers(BNET, buf, wire) /\ Len(Bnet) = 0 /\ \A i \in Nat : ~LogonOf(Bnet, i)
    BY <1>1, EmptyStream DEF Bnet
  <2>2. \A i \in Nat : ~LogonIn(packets, i)
    BY <1>2 DEF LogonIn
  <2>3. Leftovers
    BY <1>2 DEF Leftovers
  <2>4. OneLogon
    BY <1>1, <2>1, <2>2 DEF OneLogon
  <2>5. OfSession(Bnet, session)
    BY <2>1 DEF OfSession
  <2> QED
    BY <1>1, <1>2, <2>1, <2>3, <2>4, <2>5 DEF BnetInv
<1>4. ClientInv
  <2>1. Buffers(BNLS, bnlsBuf, bnlsWire) /\ Len(Bnls) = 0
    BY <1>1, EmptyStream DEF Bnls
  <2>2. <<>> \in Seq(Requests) /\ <<>> \in Seq(Challenges) /\ From(<<>>, session)
    BY FromOf
  <2>3. OfSession(Bnls, session)
    BY <2>1 DEF OfSession
  <2> QED
    BY <1>1, <2>1, <2>2, <2>3 DEF ClientInv
<1>5. AnswersInv
  <2>1. outPackets \in Seq(Challenges) /\ From(outPackets, session)
    BY <1>1, FromOf
  <2>2. \A k \in Places, i \in Nat : Pipe[k][i] = 0
    <3>1. \A k \in Places : k = 1 \/ k = 2 \/ k = 3 \/ k = 4 \/ k = 5 \/ k = 6
      BY DEF Places
    <3>2. Nothing(Numbers(outPackets)) /\ Nothing(Numbers(responses))
          /\ Nothing(Carried(Bnls, "answer")) /\ Nothing(Carried(Bnet, "warden"))
      BY <1>1, NothingIn DEF Bnls, Bnet
    <3>3. Nothing(Raws(Asking))
      <4>1. Asking = <<>>
        BY <1>1, EmptySeq DEF Asking
      <4> QED
        BY <4>1, NothingIn
    <3>4. Nothing(Wardens(packets, session))
      BY <1>2 DEF Nothing, Wardens
    <3> QED
      BY <1>3, <1>4, <2>1, <3>1, <3>2, <3>3, <3>4, PipePlaces DEF Nothing
  <2>3. InTurn(Pipe, answered.n, asked)
    BY <2>2 DEF InTurn
  <2> QED
    BY <1>1, <2>1, <2>3 DEF AnswersInv
<1> QED
  BY <1>3, <1>4, <1>5 DEF WardenInv

\* The two streams are whole packets, of this session; m_Packets may hold packets of an
\* earlier one, but none that would make a client; what the client has is of this session;
\* and its challenges are everywhere in the order they were asked in, none twice.
THEOREM WardenIsSafe == Spec => []WardenInv
<1>1. WardenInv /\ [Next]_vars => WardenInv'
  <2> SUFFICES ASSUME BnetInv, ClientInv, AnswersInv, [Next]_vars PROVE WardenInv'
    BY DEF WardenInv
  <2>1. asked \in Nat
    BY DEF AnswersInv
  <2>2. BnetInv'
    BY <2>1, BnetStep
  <2>3. ClientInv'
    BY ClientStep
  <2>4. AnswersInv'
    BY <2>2, <2>3, AnswersStep
  <2> QED
    BY <2>2, <2>3, <2>4 DEF WardenInv
<1> QED
  BY <1>1, WardenBegins, PTL DEF Spec

\* Neither program loses its place in a stream, however it is cut.
THEOREM BothKeepTheirPlace == Spec => []FramesIntact
<1>1. WardenInv => FramesIntact
  <2> SUFFICES ASSUME WardenInv PROVE Intact(BNET, buf) /\ Intact(BNLS, bnlsBuf)
    BY DEF FramesIntact
  <2>1. Buffers(BNET, buf, wire) /\ Buffers(BNLS, bnlsBuf, bnlsWire)
    BY DEF WardenInv, BnetInv, ClientInv
  <2> QED
    BY <2>1, FramesGood DEF Buffers
<1> QED
  BY <1>1, WardenIsSafe, PTL

\* Battle.net gets what WardenService promises.
THEOREM WardenServes == Spec => ImplementsService
<1>1. Init => S!Init
  BY DEF Init, S!Init, LastAnswer, None
<1>2. WardenInv /\ WardenInv' /\ [Next]_vars => [S!Next]_S!vars
  <2> SUFFICES ASSUME WardenInv, WardenInv', [Next]_vars PROVE [S!Next]_S!vars
    OBVIOUS
  <2>1. /\ LastAnswer = answered.n /\ LastAnswer' = answered'.n
        /\ answered.n \in Nat /\ answered'.n \in Nat /\ answered'.n <= asked' /\ asked' \in Nat
        /\ InTurn(Pipe, answered.n, asked) /\ outPackets \in Seq(Challenges)
        /\ From(outPackets, session)
    BY DEF WardenInv, AnswersInv, LastAnswer
  <2>2. CASE Connect
    <3>1. session' = session + 1 /\ asked' = 0 /\ answered'.n = 0
      BY <2>2 DEF Connect, None
    <3> QED
      BY <2>1, <3>1 DEF S!Next, S!Begin
  <2>3. CASE AskWarden
    <3>1. session' = session /\ asked' = asked + 1 /\ answered' = answered
      BY <2>3 DEF AskWarden
    <3> QED
      BY <2>1, <3>1 DEF S!Next, S!Ask
  <2>4. CASE Send /\ conn = "up"
    <3> DEFINE n == Head(outPackets).n
    <3>1. /\ session' = session /\ asked' = asked /\ answered' = Head(outPackets)
          /\ outPackets # <<>>
      BY <2>4 DEF Send
    <3>2. Head(outPackets) \in Challenges /\ Pipe[1][1] = n
      <4>1. Pipe[1] = Numbers(outPackets)
        BY <2>1, PipePlaces DEF WardenInv
      <4> QED
        BY <2>1, <3>1, <4>1, NumbersOf
    <3>3. n \in Nat /\ n # 0
      BY <3>2 DEF Challenges
    <3>4. answered.n < n
      BY <2>1, <3>2, <3>3 DEF InTurn, Places
    <3>5. n \in (answered.n + 1)..asked'
      BY <2>1, <3>1, <3>3, <3>4
    <3> QED
      BY <2>1, <3>1, <3>5 DEF S!Next, S!Answer
  <2>5. CASE UNCHANGED <<session, asked, answered>>
    <3>1. LastAnswer' = LastAnswer
      BY <2>1, <2>5
    <3> QED
      BY <2>5, <3>1 DEF S!vars
  <2>6. CASE Next /\ ~Connect /\ ~AskWarden /\ ~(Send /\ conn = "up")
    <3>1. UNCHANGED <<session, asked, answered>>
      <4>1. CASE \/ GiveUp \/ (\E k \in 0..Len(wire) : Receive(k)) \/ ReceiveFails \/ Extract
                 \/ ProcessInfo \/ ProcessWarden \/ Disconnect \/ AllProcessed
        BY <4>1 DEF GiveUp, Receive, ReceiveFails, Extract, ProcessInfo, ProcessWarden,
           Disconnect, AllProcessed, world
      <4>2. CASE \/ SkipClient \/ DeleteClient \/ ClientConnects
                 \/ (\E k \in 0..Len(bnlsWire) : ClientReceive(k))
                 \/ ClientReceiveFails \/ ClientExtract \/ ClientExtracted \/ Flush \/ Relay
        BY <4>2 DEF SkipClient, DeleteClient, ClientConnects, ClientReceive, ClientReceiveFails,
           ClientExtract, ClientExtracted, Flush, Relay, world
      <4>3. CASE SendNothing \/ Greet \/ Refuse \/ Misbehave \/ BnlsServes \/ BnlsErrs
        BY <4>3 DEF SendNothing, Greet, Refuse, Misbehave, BnlsServes, BnlsErrs, world
      <4>4. CASE Send /\ conn # "up"
        BY <4>4 DEF Send, world
      <4> QED
        BY <2>6, <4>1, <4>2, <4>3, <4>4 DEF Next, Update
    <3> QED
      BY <2>5, <3>1
  <2>7. CASE UNCHANGED vars
    BY <2>5, <2>7 DEF vars, world
  <2> QED
    BY <2>2, <2>3, <2>4, <2>6, <2>7
<1>3. Spec => []WardenInv
  BY WardenIsSafe
<1> QED
  BY <1>1, <1>2, <1>3, PTL DEF Spec, ImplementsService, S!Spec

\* While both connections work, no step of the main loop, of the client or of the servers, and
\* no order of them, loses a challenge that is not yet answered.
THEOREM NoChallengeIsLost == Spec => []ChallengesKept
<1>1. Init => KeptInv
  BY EmptySeq DEF Init, KeptInv, SockInv, InfoInv, AheadInv, SeedInv, HeldInv, Working
<1>2. WardenInv /\ WardenInv' /\ KeptInv /\ [Next]_vars => KeptInv'
  <2> SUFFICES ASSUME WardenInv, WardenInv', KeptInv, [Next]_vars PROVE KeptInv'
    OBVIOUS
  <2>1. /\ BnetInv /\ ClientInv /\ AnswersInv /\ BnetInv' /\ ClientInv' /\ AnswersInv'
        /\ SockInv /\ InfoInv /\ AheadInv /\ SeedInv /\ HeldInv
    BY DEF WardenInv, KeptInv
  <2>2. SockInv'
    BY <2>1, SockStep
  <2>3. InfoInv'
    BY <2>1, InfoStep
  <2>4. AheadInv'
    BY <2>1, AheadStep
  <2>5. SeedInv'
    BY <2>1, SeedStep
  <2>6. HeldInv'
    BY <2>1, HeldStep
  <2> QED
    BY <2>2, <2>3, <2>4, <2>5, <2>6 DEF KeptInv
<1>3. WardenInv /\ KeptInv => ChallengesKept
  <2> SUFFICES ASSUME WardenInv, HeldInv, Working, NEW n \in 1..asked
               PROVE  n <= answered.n \/ OnItsWay(n)
    BY DEF KeptInv, ChallengesKept
  <2>1. /\ outPackets \in Seq(Challenges) /\ From(outPackets, session) /\ asked \in Nat
        /\ From(responses, session) /\ From(toBnls, session) /\ From(bnlsOut, session)
        /\ OfSession(Bnet, session) /\ OfSession(Bnls, session)
        /\ toBnls \in Seq(Requests) /\ bnlsOut \in Seq(Requests)
    BY DEF WardenInv, BnetInv, ClientInv, AnswersInv
  <2>2. n \in Nat \ {0}
    BY <2>1
  <2>3. /\ Pipe[1] = Numbers(outPackets) /\ Pipe[2] = Numbers(responses)
        /\ Pipe[3] = Carried(Bnls, "answer") /\ Pipe[4] = Raws(Asking)
        /\ Pipe[5] = Wardens(packets, session) /\ Pipe[6] = Carried(Bnet, "warden")
    BY <2>1, PipePlaces DEF WardenInv
  <2>4. ASSUME NEW k \in Places, NEW i \in Nat, Pipe[k][i] = n PROVE OnItsWay(n)
    <3>1. CASE k = 1
      BY <2>1, <2>2, <2>3, <2>4, <3>1 DEF Numbers, From, Holds, Challenge, OnItsWay
    <3>2. CASE k = 2
      BY <2>1, <2>2, <2>3, <2>4, <3>2 DEF Numbers, From, Holds, Challenge, OnItsWay
    <3>3. CASE k = 3
      BY <2>1, <2>2, <2>3, <2>4, <3>3
         DEF Carried, OfSession, Carries, Challenge, OnItsWay, Bnls
    <3>4. CASE k = 4
      <4>1. i \in 1..Len(Asking) /\ Asking[i].n = n
        BY <2>2, <2>3, <2>4, <3>4 DEF Raws
      <4>2. From(Asking, session)
        BY <2>1, FromOf DEF Asking
      <4>3. Holds(Asking, n)
        BY <4>1, <4>2 DEF From, Holds, Challenge
      <4> QED
        BY <4>3 DEF OnItsWay, Asking
    <3>5. CASE k = 5
      BY <2>2, <2>3, <2>4, <3>5 DEF Wardens, Holds, Challenge, OnItsWay
    <3>6. CASE k = 6
      BY <2>1, <2>2, <2>3, <2>4, <3>6
         DEF Carried, OfSession, Carries, Challenge, OnItsWay, Bnet
    <3> QED
      BY <3>1, <3>2, <3>3, <3>4, <3>5, <3>6 DEF Places
  <2> QED
    BY <2>4 DEF HeldInv, Held
<1> QED
  BY <1>1, <1>2, <1>3, WardenIsSafe, PTL DEF Spec
=============================================================================
