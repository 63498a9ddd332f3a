----------------------------- MODULE Connection -----------------------------
(***************************************************************************)
(* One CBNET and its connection to a battle.net server: connecting, being  *)
(* let in, losing the connection in the ways a connection is lost, and     *)
(* trying again ninety seconds later.  Every call of CBNET::Update takes   *)
(* one branch; the branch of a connected socket receives, processes the    *)
(* packets received, and sends, which are steps of their own here (pc).    *)
(*                                                                         *)
(* The server and the network are modelled from what the code expects of   *)
(* them: the server answers each packet of the logon in turn, and pings    *)
(* whenever it likes.                                                      *)
(***************************************************************************)
EXTENDS Naturals, Sequences

CONSTANTS
  MaxInFlight,  \* bound on packets under way when the server sends a ping
  MaxFaults     \* bound on faults: lost connections, refusals, failing calls

ASSUME ConnectionAssumption == MaxInFlight \in Nat /\ MaxFaults \in Nat

VARIABLES
  hasError, connecting, connected,  \* flags of m_Socket
  out,        \* its send buffer
  waiting,    \* m_WaitingToConnect
  timer,      \* now and m_NextConnectTime: "before", "due" or, 15 s later, "late"
  loggedIn,   \* m_LoggedIn
  inChat,     \* m_InChat
  packets,    \* m_Packets
  pc,         \* where Update is: "idle", "process" or "send"
  link,       \* the connection: "none", "opening", "up", "closed" by the server,
              \* "dead" (nobody is there any more) or "broken" (the system knows)
  server,     \* what the server has let the bot do
  toBot,      \* packets on their way
  toServer,
  faults      \* faults so far

bot == <<hasError, connecting, connected, out, waiting, timer, loggedIn, inChat,
         packets, pc>>
world == <<link, server, toBot, toServer>>
vars == <<bot, world, faults>>

Answers == {"info", "check", "logon", "proof", "enterchat"}
Requests == {"auth_info", "auth_check", "accountlogon", "logonproof", "enter", "pong",
             "null"}
Incoming == Answers \cup {"refused", "ping"}
Links == {"none", "opening", "up", "closed", "dead", "broken"}
Stages == {"new", "info", "check", "logon", "in", "chat", "refusing", "confused"}

TypeOK == /\ {hasError, connecting, connected, waiting, loggedIn, inChat} \subseteq BOOLEAN
          /\ out \in Seq(Requests)
          /\ timer \in {"before", "due", "late"}
          /\ packets \in Seq(Incoming)
          /\ pc \in {"idle", "process", "send"}
          /\ link \in Links
          /\ server \in Stages
          /\ toBot \in Seq(Incoming)
          /\ toServer \in Seq(Requests)
          /\ faults \in 0..MaxFaults

Init == /\ hasError = FALSE /\ connecting = FALSE /\ connected = FALSE
        /\ out = <<>>
        /\ waiting = TRUE
        /\ timer = "due"
        /\ loggedIn = FALSE /\ inChat = FALSE
        /\ packets = <<>>
        /\ pc = "idle"
        /\ link = "none" /\ server = "new" /\ toBot = <<>> /\ toServer = <<>>
        /\ faults = 0

Fault == faults < MaxFaults /\ faults' = faults + 1
NoFault == UNCHANGED faults

\* CTCPClient::Reset; allocating the new socket may fail.
Reset == /\ connecting' = FALSE
         /\ connected' = FALSE
         /\ out' = <<>>
         /\ \/ hasError' = FALSE /\ NoFault
            \/ hasError' = TRUE /\ Fault
         /\ link' = "none" /\ toBot' = <<>> /\ toServer' = <<>>
         /\ UNCHANGED server

-----------------------------------------------------------------------------
(* CBNET::Update without a connection.                                     *)

\* Mutant: what was still to be sent is sent over the next connection.
GiveUpKeepsBuffer ==
  /\ pc = "idle"
  /\ hasError \/ (~connecting /\ ~connected /\ ~waiting)
  /\ connecting' = FALSE /\ connected' = FALSE /\ hasError' = FALSE
  /\ link' = "none" /\ toBot' = <<>> /\ toServer' = <<>>
  /\ loggedIn' = FALSE /\ inChat' = FALSE /\ waiting' = TRUE
  /\ timer' = "before"
  /\ UNCHANGED <<out, packets, pc, server, faults>>

\* Mutant: the bot takes itself for logged in over the next connection.
GiveUpStaysIn ==
  /\ pc = "idle"
  /\ hasError \/ (~connecting /\ ~connected /\ ~waiting)
  /\ Reset
  /\ inChat' = FALSE /\ waiting' = TRUE
  /\ timer' = "before"
  /\ UNCHANGED <<loggedIn, packets, pc>>

\* The socket has an error, or is no longer connected: forget the session, try
\* again in ninety seconds.  m_Packets keeps what it holds.
GiveUp ==
  /\ pc = "idle"
  /\ hasError \/ (~connecting /\ ~connected /\ ~waiting)
  /\ Reset
  /\ loggedIn' = FALSE /\ inChat' = FALSE /\ waiting' = TRUE
  /\ timer' = "before"
  /\ UNCHANGED <<packets, pc>>

\* gethostbyname, bind or connect may fail at once.
StartConnecting ==
  /\ pc = "idle"
  /\ ~hasError /\ ~connecting /\ ~connected /\ waiting
  /\ timer # "before"
  /\ waiting' = FALSE
  /\ \/ connecting' = TRUE /\ link' = "opening" /\ NoFault /\ UNCHANGED hasError
     \/ hasError' = TRUE /\ Fault /\ UNCHANGED <<connecting, link>>
  /\ UNCHANGED <<connected, out, timer, loggedIn, inChat, packets, pc, server, toBot,
                 toServer>>

\* CheckConnect: the socket is writable, which one that was refused is too.
Connected ==
  /\ pc = "idle"
  /\ ~hasError /\ connecting
  /\ link \in {"up", "closed", "dead", "broken"}
  /\ connecting' = FALSE /\ connected' = TRUE
  /\ out' = Append(out, "auth_info")
  /\ pc' = "send"
  /\ UNCHANGED <<hasError, waiting, timer, loggedIn, inChat, packets, world, faults>>

\* Fifteen seconds after m_NextConnectTime.
ConnectTimesOut ==
  /\ pc = "idle"
  /\ ~hasError /\ connecting
  /\ link = "opening" /\ timer = "late"
  /\ Reset
  /\ waiting' = TRUE
  /\ timer' = "before"
  /\ UNCHANGED <<loggedIn, inChat, packets, pc>>

-----------------------------------------------------------------------------
(* CBNET::Update with a connection.                                        *)

\* DoRecv and ExtractPackets: nothing, or the first k packets of what has arrived,
\* or the end of the stream, or an error.
Receive(k) ==
  /\ pc = "idle"
  /\ ~hasError /\ connected
  /\ k \in 0..Len(toBot)
  /\ pc' = "process"
  /\ packets' = packets \o SubSeq(toBot, 1, k)
  /\ toBot' = SubSeq(toBot, k + 1, Len(toBot))
  /\ UNCHANGED <<hasError, connecting, connected, out, waiting, timer, loggedIn, inChat,
                 link, server, toServer, faults>>

ReceiveEnd ==
  /\ pc = "idle"
  /\ ~hasError /\ connected
  /\ \/ link = "closed" /\ toBot = <<>> /\ connected' = FALSE /\ UNCHANGED hasError
     \/ link = "broken" /\ hasError' = TRUE /\ UNCHANGED connected
  /\ pc' = "process"
  /\ UNCHANGED <<connecting, out, waiting, timer, loggedIn, inChat, packets, world, faults>>

\* What the bot puts into its send buffer for a packet.
Reply(p) == CASE p = "info"  -> <<"auth_check">>
              [] p = "check" -> <<"accountlogon">>
              [] p = "logon" -> <<"logonproof">>
              [] p = "proof" -> <<"enter">>
              [] p = "ping"  -> <<"pong">>
              [] OTHER       -> <<>>

\* Mutant: in chat as soon as logged in.
ProcessPacketEarly ==
  /\ pc = "process"
  /\ packets # <<>> /\ Head(packets) # "refused"
  /\ packets' = Tail(packets)
  /\ out' = out \o Reply(Head(packets))
  /\ loggedIn' = (loggedIn \/ Head(packets) = "proof")
  /\ inChat' = (inChat \/ Head(packets) = "proof")
  /\ UNCHANGED <<hasError, connecting, connected, waiting, timer, pc, world, faults>>

\* ProcessPackets, one packet.
ProcessPacket ==
  /\ pc = "process"
  /\ packets # <<>> /\ Head(packets) # "refused"
  /\ packets' = Tail(packets)
  /\ out' = out \o Reply(Head(packets))
  /\ loggedIn' = (loggedIn \/ Head(packets) = "proof")
  /\ inChat' = (inChat \/ Head(packets) = "enterchat")
  /\ UNCHANGED <<hasError, connecting, connected, waiting, timer, pc, world, faults>>

\* Refused, or failing to compute the hashes the server asks for, ProcessPackets
\* calls CTCPClient::Disconnect and returns: the packets behind stay.
Disconnect ==
  /\ pc = "process"
  /\ packets # <<>>
  /\ \/ Head(packets) = "refused" /\ NoFault
     \/ Head(packets) = "info" /\ Fault
  /\ packets' = Tail(packets)
  /\ connected' = FALSE
  /\ pc' = "send"
  /\ UNCHANGED <<hasError, connecting, out, waiting, timer, loggedIn, inChat, world>>

AllProcessed ==
  /\ pc = "process"
  /\ packets = <<>>
  /\ pc' = "send"
  /\ UNCHANGED <<hasError, connecting, connected, out, waiting, timer, loggedIn, inChat,
                 packets, world, faults>>

\* Nothing is sent: no connection, nothing to send, or the socket is not ready.
SendNothing ==
  /\ pc = "send"
  /\ pc' = "idle"
  /\ UNCHANGED <<hasError, connecting, connected, out, waiting, timer, loggedIn, inChat,
                 packets, world, faults>>

\* Mutant: no null packets.
SendQuietly(null) ==
  /\ pc = "send"
  /\ ~hasError /\ connected
  /\ out # <<>>
  /\ pc' = "idle"
  /\ toServer' = toServer \o out
  /\ out' = <<>>
  /\ UNCHANGED <<hasError, connecting, connected, waiting, timer, loggedIn, inChat, packets,
                 link, server, toBot, faults>>

\* DoSend.  When nothing else was sent for a minute, a null packet; here no second one
\* before the first arrives.  What goes over a dead connection is accepted at first.
Send(null) ==
  /\ pc = "send"
  /\ ~hasError /\ connected
  /\ IF null THEN out = <<>> /\ toServer = <<>> ELSE out # <<>>
  /\ pc' = "idle"
  /\ toServer' = IF null THEN <<"null">> ELSE toServer \o out
  /\ out' = <<>>
  /\ UNCHANGED <<hasError, connecting, connected, waiting, timer, loggedIn, inChat, packets,
                 link, server, toBot, faults>>

SendFails ==
  /\ pc = "send"
  /\ ~hasError /\ connected /\ out # <<>>
  /\ link \in {"closed", "broken"}
  /\ pc' = "idle"
  /\ hasError' = TRUE
  /\ UNCHANGED <<connecting, connected, out, waiting, timer, loggedIn, inChat, packets,
                 world, faults>>

-----------------------------------------------------------------------------
(* The clock, the network and the server.                                  *)

\* Ninety seconds pass; or fifteen more, which takes a slow network or a blocked bot.
TimePasses ==
  /\ \/ timer = "before" /\ timer' = "due" /\ NoFault
     \/ timer = "due" /\ timer' = "late" /\ (waiting \/ connecting) /\ Fault
  /\ UNCHANGED <<hasError, connecting, connected, out, waiting, loggedIn, inChat, packets,
                 pc, world>>

Accept ==
  /\ link = "opening"
  /\ link' = "up" /\ server' = "new"
  /\ UNCHANGED <<bot, toBot, toServer, faults>>

\* A connection is refused, ends, dies or breaks.
LoseLink ==
  /\ Fault
  /\ \/ link = "opening" /\ link' = "broken" /\ UNCHANGED toBot
     \/ link = "up" /\ link' = "closed" /\ UNCHANGED toBot
     \/ link = "up" /\ link' \in {"dead", "broken"} /\ toBot' = <<>>
  /\ UNCHANGED <<bot, server, toServer>>

\* The system gives up resending what nobody acknowledges.
GiveUpResending ==
  /\ link = "dead" /\ toServer # <<>>
  /\ link' = "broken"
  /\ UNCHANGED <<bot, server, toBot, toServer, faults>>

\* What the server sends in each stage of the logon, and for which packet.
Expected == [new |-> "auth_info", info |-> "auth_check", check |-> "accountlogon",
             logon |-> "logonproof", in |-> "enter"]
Answer == [new |-> "info", info |-> "check", check |-> "logon", logon |-> "proof",
           in |-> "enterchat"]
NextStage == [new |-> "info", info |-> "check", check |-> "logon", logon |-> "in",
              in |-> "chat"]

Asked == toServer # <<>> /\ Head(toServer) \notin {"pong", "null"}
Understood == server \in DOMAIN Expected /\ Head(toServer) = Expected[server]

Serve ==
  /\ link = "up" /\ toServer # <<>>
  /\ toServer' = Tail(toServer)
  /\ \/ ~Asked /\ UNCHANGED <<server, toBot>>
     \/ Asked /\ Understood /\ server' = NextStage[server]
        /\ toBot' = Append(toBot, Answer[server])
     \/ Asked /\ ~Understood /\ server' = "confused" /\ UNCHANGED toBot
  /\ UNCHANGED <<bot, link, faults>>

\* It refuses the key, the user or the password.
Refuse ==
  /\ link = "up" /\ Asked /\ Understood /\ server \in {"info", "check", "logon"}
  /\ Fault
  /\ toServer' = Tail(toServer)
  /\ server' = "refusing" /\ toBot' = Append(toBot, "refused")
  /\ UNCHANGED <<bot, link>>

Ping ==
  /\ link = "up" /\ Len(toBot) + Len(packets) + Len(out) + Len(toServer) < MaxInFlight
  /\ toBot' = Append(toBot, "ping")
  /\ UNCHANGED <<bot, link, server, toServer, faults>>

-----------------------------------------------------------------------------
Update == \/ GiveUp \/ StartConnecting \/ Connected \/ ConnectTimesOut
          \/ \E k \in 0..Len(toBot) : Receive(k)
          \/ ReceiveEnd \/ ProcessPacket \/ Disconnect \/ AllProcessed
          \/ SendNothing \/ SendFails \/ \E null \in BOOLEAN : Send(null)

Next == \/ Update
        \/ TimePasses \/ Accept \/ LoseLink \/ GiveUpResending
        \/ Serve \/ Refuse \/ Ping

Spec == Init /\ [][Next]_vars

\* The main loop calls Update again and again; a socket that can be read or written
\* is, if not at every call; a minute without a packet passes if nothing is sent; the
\* clock goes on, the server answers, and the system gives up on a dead connection.
Fairness == /\ WF_vars(Update)
            /\ SF_vars(Receive(Len(toBot)) /\ toBot # <<>>) /\ SF_vars(ReceiveEnd)
            /\ \A null \in BOOLEAN : SF_vars(Send(null))
            /\ WF_vars(TimePasses) /\ WF_vars(Accept) /\ WF_vars(Serve)
            /\ WF_vars(GiveUpResending)

FairSpec == Spec /\ Fairness

-----------------------------------------------------------------------------
(* Properties.                                                             *)

\* The flags of the socket and of CBNET never contradict one another, so that Update
\* always finds the branch for the state it is in: a bot that waits has no session, and
\* one that is still connecting is not taken for logged in or in chat by the refreshes,
\* the queue or a plugin.
FlagsAgree == /\ waiting => ~connecting /\ ~connected /\ ~loggedIn /\ ~inChat /\ out = <<>>
              /\ connecting => ~connected /\ ~loggedIn /\ out = <<>>
              /\ inChat => loggedIn

\* Nothing of an earlier connection, neither a packet left in m_Packets nor bytes left
\* in a buffer, makes the bot take part out of turn in a logon: while the connection
\* lasts, the server understands every packet, and m_LoggedIn and m_InChat are true only
\* if this server on this connection has said so.
LoggedInIsReal == connected /\ link = "up" => /\ server # "confused"
                                              /\ loggedIn => server \in {"in", "chat"}
                                              /\ inChat => server = "chat"

Phase == IF waiting THEN "down"
         ELSE IF inChat THEN "chat"
         ELSE IF loggedIn THEN "in" ELSE "trying"

\* What plugins and commands see of a session are the steps of Session: it never comes
\* back from the dead, nor skips the logon, whatever is lost or refused in between.
S == INSTANCE Session WITH phase <- Phase
ImplementsSession == S!Spec

\* When connections stop failing, the bot comes to be in chat and stays there; a
\* connection that died without a word is noticed (the null packets, bnet.cpp:594-598).
ReturnsToChat == <>[](inChat /\ link = "up")
=============================================================================
