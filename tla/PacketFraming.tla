---------------------------- MODULE PacketFraming ----------------------------
(***************************************************************************)
(* How ExtractPackets cuts packets out of a receive buffer: the same loop  *)
(* twice, in CBNET for battle.net and in CBNLSClient for BNLS, which only  *)
(* differ in where the header holds the length.  A byte is known by the    *)
(* packet it was sent in and its place there, so that it can be told what  *)
(* a program reads which has lost its place in the stream.                 *)
(***************************************************************************)
EXTENDS Naturals, Sequences

\* A protocol: the size of its header, where the two bytes of the length are in it, and
\* whether the first byte is always the same.
BNLS == [header |-> 3, lengthAt |-> 1, marked |-> FALSE]
BNET == [header |-> 4, lengthAt |-> 3, marked |-> TRUE]

Byte(p, i) == [of |-> p, at |-> i]

\* A packet as it is sent.
Bytes(p) == [i \in 1..p.size |-> Byte(p, i)]

\* The length found in a buffer; of bytes that are not a length, 0 stands for any
\* that is refused.  A malformed packet declares such a length.
Length(proto, buf) ==
  LET low == buf[proto.lengthAt]
      high == buf[proto.lengthAt + 1]
  IN  IF low = Byte(low.of, proto.lengthAt) /\ high = Byte(low.of, proto.lengthAt + 1)
        THEN IF low.of.wellFormed THEN low.of.size ELSE 0
        ELSE 0

HasHeader(proto, buf) == Len(buf) >= proto.header

Malformed(proto, buf) == \/ proto.marked /\ buf[1].at # 1
                         \/ Length(proto, buf) < proto.header

HasPacket(proto, buf) == Len(buf) >= Length(proto, buf)

\* Mutant: nothing is left for the next call.
LeftNothing(proto, buf) == <<>>

\* The buffer without its first packet.
Left(proto, buf) == SubSeq(buf, Length(proto, buf) + 1, Len(buf))

\* The packet that stands at the front of a buffer.
Taken(proto, buf) == SubSeq(buf, 1, Length(proto, buf))

\* A buffer starts where a packet does and goes on with what was sent next: a whole
\* packet at its front is taken whole, and only a malformed one is refused.
Intact(proto, buf) ==
  HasHeader(proto, buf) =>
    /\ Malformed(proto, buf) <=> ~buf[1].of.wellFormed
    /\ ~Malformed(proto, buf) /\ HasPacket(proto, buf)
         => Taken(proto, buf) = Bytes(buf[1].of)
=============================================================================
