----------------------------- MODULE WardenRelay -----------------------------
(***************************************************************************)
(* Battle.net challenges a client every few minutes (SID_WARDEN) and cuts  *)
(* it off if no answer comes.  The bot cannot compute the answers: a BNLS  *)
(* server does, over a connection of its own (CBNLSClient), which is made  *)
(* when a session begins, is told the seed of that session, passes on the  *)
(* challenges, and is deleted when it fails or the session ends.           *)
(*                                                                         *)
(* pc goes through CBNET::Update: receive, extract, process, the update of *)
(* the BNLS client, its answer, send.  Both servers are modelled from what *)
(* the code expects of them.  Only what Warden needs is left of a session: *)
(* Connection has the rest.                                                *)
(***************************************************************************)
EXTENDS PacketFraming

CONSTANTS
  MaxSessions,    \* bound on the sessions
  MaxChallenges,  \* bound on the challenges of one session
  MaxFaults       \* bound on refusals, lost connections and malformed packets

ASSUME WardenAssumption ==
  MaxSessions \in Nat /\ MaxChallenges \in Nat /\ MaxFaults \in Nat

VARIABLES
  conn,       \* m_Socket: "down", "up", or "lost" until Update notices
  buf,        \* its receive buffer
  packets,    \* m_Packets
  outPackets, \* the answers in m_OutPackets
  client,     \* m_BNLSClient is there
  sock,       \* its socket: "new", "connecting", "up", "closed" or "error"
  bnlsBuf,    \* the receive buffer of that
  bnlsOut,    \* m_OutPackets of the client
  responses,  \* m_WardenResponses
  pc,         \* where Update is
  wire,       \* bytes from battle.net to the bot
  toBnls,     \* packets from the client to BNLS
  seeded,     \* the session whose seed BNLS was told over this connection, or 0
  bnlsWire,   \* bytes from BNLS to the client
  session,    \* how many sessions there have been
  greeted,    \* the server has answered SID_AUTH_INFO
  requested,  \* the bot has a request to log on that the server has not refused
  asked,      \* challenges of this session
  answered,   \* the last answer battle.net got in this session
  failed,     \* something of this session failed that an answer needs
  faults      \* faults so far

bot == <<conn, buf, packets, outPackets, client, sock, bnlsBuf, bnlsOut, responses, pc>>
world == <<wire, toBnls, seeded, bnlsWire, session, greeted, requested, asked, answered,
           failed, faults>>
vars == <<bot, world>>

\* A packet, of a session and, if it is about one, of a challenge.  Only Warden's have
\* a body, of one byte.
Packet(proto, kind, s, n) ==
  [kind |-> kind, session |-> s, n |-> n, wellFormed |-> kind # "malformed",
   size |-> proto.header + IF kind \in {"warden", "answer"} THEN 1 ELSE 0]

None == [session |-> 0, n |-> 0]
Challenge(p) == [session |-> p.session, n |-> p.n]

Init == /\ conn = "down" /\ buf = <<>> /\ packets = <<>> /\ outPackets = <<>>
        /\ client = FALSE /\ sock = "new"
        /\ bnlsBuf = <<>> /\ bnlsOut = <<>> /\ responses = <<>>
        /\ pc = "idle"
        /\ wire = <<>> /\ toBnls = <<>> /\ seeded = 0 /\ bnlsWire = <<>>
        /\ session = 0 /\ greeted = FALSE /\ requested = FALSE /\ asked = 0 /\ answered = None
        /\ failed = FALSE /\ faults = 0

Fault == faults < MaxFaults /\ faults' = faults + 1

-----------------------------------------------------------------------------
(* The session.                                                            *)

\* Deleting a client closes its connection and loses what it holds.
NoClient == /\ sock' = "new" /\ bnlsBuf' = <<>> /\ bnlsOut' = <<>> /\ responses' = <<>>
            /\ toBnls' = <<>> /\ seeded' = 0 /\ bnlsWire' = <<>>

\* A connection to battle.net: packets of the last one that are still in m_OutPackets
\* are forgotten.
Connect ==
  /\ pc = "idle" /\ conn = "down" /\ session < MaxSessions
  /\ conn' = "up" /\ outPackets' = <<>>
  /\ session' = session + 1
  /\ wire' = <<>> /\ greeted' = FALSE /\ requested' = FALSE /\ asked' = 0
  /\ answered' = None /\ failed' = FALSE
  /\ UNCHANGED <<buf, packets, client, sock, bnlsBuf, bnlsOut, responses, pc, toBnls, seeded,
                 bnlsWire, faults>>

\* Mutant: the client is kept for the next session.
GiveUpKeepsClient ==
  /\ pc = "idle" /\ conn = "lost"
  /\ conn' = "down" /\ buf' = <<>> /\ wire' = <<>>
  /\ UNCHANGED <<packets, outPackets, client, sock, bnlsBuf, bnlsOut, responses, pc, toBnls,
                 seeded, bnlsWire, session, greeted, requested, asked, answered, failed,
                 faults>>

\* Update finds the connection lost, and deletes the client.  m_Packets stays.
GiveUp ==
  /\ pc = "idle" /\ conn = "lost"
  /\ conn' = "down" /\ buf' = <<>> /\ wire' = <<>>
  /\ client' = FALSE /\ NoClient
  /\ UNCHANGED <<packets, outPackets, pc, session, greeted, requested, asked, answered, failed,
                 faults>>

-----------------------------------------------------------------------------
(* Update: receive, extract, process.                                      *)

\* DoRecv takes any part of what has arrived, or finds the connection lost.
Receive(k) ==
  /\ pc = "idle" /\ conn = "up"
  /\ buf' = buf \o SubSeq(wire, 1, k)
  /\ wire' = SubSeq(wire, k + 1, Len(wire))
  /\ pc' = "extract"
  /\ UNCHANGED <<conn, packets, outPackets, client, sock, bnlsBuf, bnlsOut, responses, toBnls,
                 seeded, bnlsWire, session, greeted, requested, asked, answered, failed,
                 faults>>

ReceiveFails ==
  /\ pc = "idle" /\ conn = "up"
  /\ Fault
  /\ conn' = "lost"
  /\ pc' = "extract"
  /\ UNCHANGED <<buf, packets, outPackets, client, sock, bnlsBuf, bnlsOut, responses, wire,
                 toBnls, seeded, bnlsWire, session, greeted, requested, asked, answered,
                 failed>>

\* One turn of the loop in CBNET::ExtractPackets.
Extract ==
  /\ pc = "extract"
  /\ IF ~HasHeader(BNET, buf) THEN pc' = "process" /\ UNCHANGED <<conn, buf, packets>>
     ELSE IF Malformed(BNET, buf)
       THEN conn' = "lost" /\ pc' = "process" /\ UNCHANGED <<buf, packets>>
     ELSE IF HasPacket(BNET, buf)
       THEN /\ packets' = Append(packets, buf[1].of)
            /\ buf' = Left(BNET, buf)
            /\ UNCHANGED <<conn, pc>>
     ELSE pc' = "process" /\ UNCHANGED <<conn, buf, packets>>
  /\ UNCHANGED <<outPackets, client, sock, bnlsBuf, bnlsOut, responses, world>>

\* Mutant: the seed is sent after the first challenge.
BeginWardenLater ==
  /\ client' = TRUE /\ sock' = "new" /\ bnlsBuf' = <<>> /\ bnlsOut' = <<>>
  /\ responses' = <<>> /\ toBnls' = <<>> /\ seeded' = 0 /\ bnlsWire' = <<>>

\* A new client, with the seed of this session to be sent first.
BeginWarden ==
  /\ client' = TRUE /\ sock' = "new" /\ bnlsBuf' = <<>>
  /\ bnlsOut' = <<[kind |-> "seed", session |-> Head(packets).session, n |-> 0]>>
  /\ responses' = <<>> /\ toBnls' = <<>> /\ seeded' = 0 /\ bnlsWire' = <<>>

\* SID_AUTH_INFO: the request to log on goes out.
ProcessInfo ==
  /\ pc = "process" /\ packets # <<>> /\ Head(packets).kind = "info"
  /\ BeginWarden
  /\ requested' = TRUE
  /\ packets' = Tail(packets)
  /\ UNCHANGED <<conn, buf, outPackets, pc, wire, session, greeted, asked, answered, failed,
                 faults>>

\* SID_WARDEN: without a client the challenge is lost.
ProcessWarden ==
  /\ pc = "process" /\ packets # <<>> /\ Head(packets).kind = "warden"
  /\ bnlsOut' = IF client
                  THEN Append(bnlsOut, [kind |-> "raw", session |-> Head(packets).session,
                                        n |-> Head(packets).n])
                  ELSE bnlsOut
  /\ packets' = Tail(packets)
  /\ UNCHANGED <<conn, buf, outPackets, client, sock, bnlsBuf, responses, pc, world>>

\* A logon that is refused, or whose hashes cannot be computed: Disconnect, and return,
\* with the packets behind left where they are.
Disconnect ==
  /\ pc = "process" /\ packets # <<>>
  /\ \/ Head(packets).kind = "refused" /\ UNCHANGED faults
     \/ Head(packets).kind = "info" /\ Fault
  /\ conn' = "lost"
  /\ packets' = Tail(packets)
  /\ pc' = "bnls"
  /\ UNCHANGED <<buf, outPackets, client, sock, bnlsBuf, bnlsOut, responses, wire, toBnls,
                 seeded, bnlsWire, session, greeted, requested, asked, answered, failed>>

AllProcessed ==
  /\ pc = "process" /\ packets = <<>>
  /\ pc' = "bnls"
  /\ UNCHANGED <<conn, buf, packets, outPackets, client, sock, bnlsBuf, bnlsOut, responses,
                 world>>

-----------------------------------------------------------------------------
(* Update: the BNLS client (CBNLSClient::Update), its answer, and sending. *)

\* Without a client; or with one whose socket has failed, which is deleted with the
\* answers it still holds.  There is no other before the next session.
SkipClient ==
  /\ pc = "bnls" /\ ~client
  /\ pc' = "send"
  /\ UNCHANGED <<conn, buf, packets, outPackets, client, sock, bnlsBuf, bnlsOut, responses,
                 world>>

DeleteClient ==
  /\ pc = "bnls" /\ client /\ sock \in {"closed", "error"}
  /\ client' = FALSE /\ NoClient
  /\ failed' = TRUE
  /\ pc' = "send"
  /\ UNCHANGED <<conn, buf, packets, outPackets, wire, session, greeted, requested, asked,
                 answered, faults>>

\* The host may not be found, connecting take several calls.
ClientConnects ==
  /\ pc = "bnls" /\ client
  /\ \/ sock = "new" /\ sock' = "connecting" /\ UNCHANGED faults
     \/ sock = "new" /\ sock' = "error" /\ Fault
     \/ sock = "connecting" /\ sock' \in {"connecting", "up"} /\ UNCHANGED faults
  /\ pc' = "relay"
  /\ UNCHANGED <<conn, buf, packets, outPackets, client, bnlsBuf, bnlsOut, responses, wire,
                 toBnls, seeded, bnlsWire, session, greeted, requested, asked, answered,
                 failed>>

ClientReceive(k) ==
  /\ pc = "bnls" /\ client /\ sock = "up"
  /\ bnlsBuf' = bnlsBuf \o SubSeq(bnlsWire, 1, k)
  /\ bnlsWire' = SubSeq(bnlsWire, k + 1, Len(bnlsWire))
  /\ pc' = "bnlsextract"
  /\ UNCHANGED <<conn, buf, packets, outPackets, client, sock, bnlsOut, responses, wire,
                 toBnls, seeded, session, greeted, requested, asked, answered, failed, faults>>

ClientReceiveFails ==
  /\ pc = "bnls" /\ client /\ sock = "up"
  /\ Fault
  /\ sock' \in {"closed", "error"}
  /\ pc' = "bnlsextract"
  /\ UNCHANGED <<conn, buf, packets, outPackets, client, bnlsBuf, bnlsOut, responses, wire,
                 toBnls, seeded, bnlsWire, session, greeted, requested, asked, answered,
                 failed>>

\* ExtractPackets and ProcessPackets of the client, one packet: an answer is kept, an
\* error code is not.
ClientExtract ==
  /\ pc = "bnlsextract"
  /\ HasHeader(BNLS, bnlsBuf) /\ ~Malformed(BNLS, bnlsBuf) /\ HasPacket(BNLS, bnlsBuf)
  /\ LET p == bnlsBuf[1].of
     IN  responses' = IF p.kind = "answer" THEN Append(responses, Challenge(p)) ELSE responses
  /\ bnlsBuf' = Left(BNLS, bnlsBuf)
  /\ UNCHANGED <<conn, buf, packets, outPackets, client, sock, bnlsOut, pc, world>>

ClientExtracted ==
  /\ pc = "bnlsextract"
  /\ \/ ~HasHeader(BNLS, bnlsBuf) /\ UNCHANGED sock
     \/ HasHeader(BNLS, bnlsBuf) /\ Malformed(BNLS, bnlsBuf) /\ sock' = "closed"
     \/ /\ HasHeader(BNLS, bnlsBuf) /\ ~Malformed(BNLS, bnlsBuf) /\ ~HasPacket(BNLS, bnlsBuf)
        /\ UNCHANGED sock
  /\ pc' = "flush"
  /\ UNCHANGED <<conn, buf, packets, outPackets, client, bnlsBuf, bnlsOut, responses, world>>

\* All of the client's m_OutPackets are put into its socket.
Flush ==
  /\ pc = "flush"
  /\ toBnls' = IF sock = "up" THEN toBnls \o bnlsOut ELSE toBnls
  /\ bnlsOut' = <<>>
  /\ pc' = "relay"
  /\ UNCHANGED <<conn, buf, packets, outPackets, client, sock, bnlsBuf, responses, wire,
                 seeded, bnlsWire, session, greeted, requested, asked, answered, failed,
                 faults>>

\* Mutant: the other answers are dropped.
RelayDropsRest ==
  /\ pc = "relay"
  /\ outPackets' = IF responses = <<>> THEN outPackets ELSE Append(outPackets, Head(responses))
  /\ responses' = <<>>
  /\ pc' = "send"
  /\ UNCHANGED <<conn, buf, packets, client, sock, bnlsBuf, bnlsOut, world>>

\* GetWardenResponse, once in a call of Update.
Relay ==
  /\ pc = "relay"
  /\ IF responses = <<>> THEN UNCHANGED <<outPackets, responses>>
     ELSE /\ outPackets' = Append(outPackets, Head(responses))
          /\ responses' = Tail(responses)
  /\ pc' = "send"
  /\ UNCHANGED <<conn, buf, packets, client, sock, bnlsBuf, bnlsOut, world>>

\* One packet of m_OutPackets, when the delay has passed.
Send ==
  /\ pc = "send" /\ outPackets # <<>>
  /\ answered' = IF conn = "up" THEN Head(outPackets) ELSE answered
  /\ outPackets' = Tail(outPackets)
  /\ pc' = "idle"
  /\ UNCHANGED <<conn, buf, packets, client, sock, bnlsBuf, bnlsOut, responses, wire,
                 toBnls, seeded, bnlsWire, session, greeted, requested, asked, failed, faults>>

SendNothing ==
  /\ pc = "send"
  /\ pc' = "idle"
  /\ UNCHANGED <<conn, buf, packets, outPackets, client, sock, bnlsBuf, bnlsOut, responses,
                 world>>

-----------------------------------------------------------------------------
(* The two servers.                                                        *)

\* Battle.net answers SID_AUTH_INFO first, then it challenges.
Greet ==
  /\ conn = "up" /\ ~greeted
  /\ greeted' = TRUE
  /\ wire' = wire \o Bytes(Packet(BNET, "info", session, 0))
  /\ UNCHANGED <<bot, toBnls, seeded, bnlsWire, session, requested, asked, answered, failed,
                 faults>>

AskWarden ==
  /\ conn = "up" /\ greeted /\ asked < MaxChallenges
  /\ asked' = asked + 1
  /\ wire' = wire \o Bytes(Packet(BNET, "warden", session, asked + 1))
  /\ UNCHANGED <<bot, toBnls, seeded, bnlsWire, session, greeted, requested, answered, failed,
                 faults>>

\* It refuses the logon, once, when it was asked for; or sends what no protocol allows.
Refuse ==
  /\ conn = "up" /\ requested
  /\ Fault
  /\ requested' = FALSE
  /\ wire' = wire \o Bytes(Packet(BNET, "refused", session, 0))
  /\ UNCHANGED <<bot, toBnls, seeded, bnlsWire, session, greeted, asked, answered, failed>>

Misbehave ==
  /\ conn = "up" /\ greeted
  /\ Fault
  /\ wire' = wire \o Bytes(Packet(BNET, "malformed", session, 0))
  /\ UNCHANGED <<bot, toBnls, seeded, bnlsWire, session, greeted, requested, asked, answered,
                 failed>>

\* BNLS is told a seed, or computes an answer if it was told one; it may fail to.
BnlsServes ==
  /\ sock = "up" /\ toBnls # <<>>
  /\ LET r == Head(toBnls)
         kind == IF seeded = r.session THEN "answer" ELSE "errorcode"
     IN  IF r.kind = "seed" THEN seeded' = r.session /\ UNCHANGED bnlsWire
         ELSE /\ bnlsWire' = bnlsWire \o Bytes(Packet(BNLS, kind, r.session, r.n))
              /\ UNCHANGED seeded
  /\ toBnls' = Tail(toBnls)
  /\ UNCHANGED <<bot, wire, session, greeted, requested, asked, answered, failed, faults>>

BnlsErrs ==
  /\ sock = "up" /\ toBnls # <<>> /\ Head(toBnls).kind = "raw"
  /\ Fault
  /\ failed' = TRUE
  /\ \E kind \in {"errorcode", "malformed"} :
       bnlsWire' = bnlsWire \o Bytes(Packet(BNLS, kind, session, Head(toBnls).n))
  /\ toBnls' = Tail(toBnls)
  /\ UNCHANGED <<bot, wire, seeded, session, greeted, requested, asked, answered>>

-----------------------------------------------------------------------------
Update == \/ GiveUp \/ \E k \in 0..Len(wire) : Receive(k)
          \/ ReceiveFails \/ Extract \/ ProcessInfo \/ ProcessWarden \/ Disconnect
          \/ AllProcessed \/ SkipClient \/ DeleteClient \/ ClientConnects
          \/ \E k \in 0..Len(bnlsWire) : ClientReceive(k)
          \/ ClientReceiveFails \/ ClientExtract \/ ClientExtracted \/ Flush \/ Relay
          \/ Send \/ SendNothing

Next == \/ Update \/ Connect
        \/ Greet \/ AskWarden \/ Refuse \/ Misbehave \/ BnlsServes \/ BnlsErrs

Spec == Init /\ [][Next]_vars

\* The main loop calls Update again and again; what has arrived is received, what waits
\* is sent when its delay has passed, a connection is made, and BNLS answers.
Fairness == /\ WF_vars(Update)
            /\ SF_vars(Receive(Len(wire)) /\ wire # <<>>)
            /\ SF_vars(ClientReceive(Len(bnlsWire)) /\ bnlsWire # <<>>)
            /\ SF_vars(ClientConnects /\ sock' = "up") /\ SF_vars(Send)
            /\ WF_vars(BnlsServes)

FairSpec == Spec /\ Fairness

-----------------------------------------------------------------------------
(* Properties.                                                             *)

\* However the two streams are cut (a read may end within a packet, within a header,
\* within the length), both programs keep their place in them: a packet at the front of
\* a buffer is taken whole, and a connection is closed for a malformed packet only.
FramesIntact == Intact(BNET, buf) /\ Intact(BNLS, bnlsBuf)

\* Battle.net gets the answers of this session's challenges, in turn, none twice: the
\* steps of WardenService, in spite of the packets an earlier session left in m_Packets,
\* and of clients deleted with answers under way.
LastAnswer == IF answered.session \in {0, session} THEN answered.n ELSE asked + 1
S == INSTANCE WardenService WITH last <- LastAnswer
ImplementsService == S!Spec

\* A challenge is answered, unless the session ends or BNLS fails in it: no answer stays
\* behind in the client, in m_OutPackets or in half a packet.
Answered ==
  \A s \in 1..MaxSessions, n \in 1..MaxChallenges :
    session = s /\ asked >= n
      ~> session # s \/ answered.n >= n \/ conn # "up" \/ failed

\* While both connections work, a challenge that has no answer yet is on its way in one of
\* the places ProcessPackets, CBNLSClient and Update pass it through: the bytes to the bot,
\* m_Packets, the bytes to BNLS and from it, m_WardenResponses, m_OutPackets.
Working == conn = "up" /\ ~failed /\ sock \notin {"closed", "error"}
Holds(q, n) == \E i \in 1..Len(q) : Challenge(q[i]) = [session |-> session, n |-> n]
Carries(u, kind, n) == \E i \in 1..Len(u) :
  u[i].of.kind = kind /\ Challenge(u[i].of) = [session |-> session, n |-> n]
OnItsWay(n) ==
  \/ Carries(buf \o wire, "warden", n) \/ Holds(packets, n) \/ Holds(toBnls \o bnlsOut, n)
  \/ Carries(bnlsBuf \o bnlsWire, "answer", n) \/ Holds(responses, n) \/ Holds(outPackets, n)
ChallengesKept == Working => \A n \in 1..asked : n <= answered.n \/ OnItsWay(n)
=============================================================================
