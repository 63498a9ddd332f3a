---------------------------- MODULE ChannelBans ----------------------------
(***************************************************************************)
(* Bans as the channel sees them: what the bot knows of its channel, from  *)
(* chat events that lag behind it, and what it does about banned users     *)
(* there, by commands that wait in the output queue.  The channel keeps    *)
(* bans of its own.  The bot's list of bans follows the database commands, *)
(* as BanSync has it; of a query only its end matters here.                *)
(***************************************************************************)
EXTENDS Naturals, Sequences

CONSTANTS
  Names,       \* users, by lowercased name
  QueueLimit,  \* queued packets above which chat commands are discarded: 10
  MaxEvents,   \* bound on chat events under way
  MaxChanges   \* bound on changes of the operator flag and of the channel

ASSUME ChannelAssumption == /\ QueueLimit \in Nat
                            /\ MaxEvents \in Nat /\ MaxChanges \in Nat

VARIABLES
  present,   \* who is in the channel
  chanBans,  \* whom the channel refuses
  isOp,      \* the bot is an operator of the channel
  events,    \* chat events on their way to the bot
  known,     \* m_Channel
  operator,  \* m_IsOperator
  bans,      \* names in m_Bans
  jobs,      \* ban and unban queries that have not been applied
  out,       \* chat commands in m_OutPackets
  changes,   \* changes of the operator flag and of the channel so far
  unbanned,  \* history: whose last command was an unban the bot could carry out
  excused    \* history: who is here because a /ban was discarded or refused

channel == <<present, chanBans, isOp, events>>
bot == <<known, operator, bans, jobs, out>>
channelVars == <<channel, bot, changes, unbanned, excused>>

Queries == {"ban", "unban"} \X Names

\* The bot has entered the channel, and seen who is there.
ChannelInit ==
  /\ present = {} /\ chanBans = {} /\ isOp = FALSE /\ events = <<>>
  /\ known = {} /\ operator = FALSE
  /\ bans \in SUBSET Names
  /\ jobs = {} /\ out = <<>>
  /\ changes = 0
  /\ unbanned = {}
  /\ excused = {}

-----------------------------------------------------------------------------
(* The channel.                                                            *)

Join(n) == /\ n \notin present /\ n \notin chanBans
           /\ Len(events) < MaxEvents
           /\ present' = present \cup {n}
           /\ events' = Append(events, <<"join", n>>)
           /\ UNCHANGED <<chanBans, isOp, bot, changes, unbanned, excused>>

Leave(n) == /\ n \in present
            /\ Len(events) < MaxEvents
            /\ present' = present \ {n}
            /\ events' = Append(events, <<"leave", n>>)
            /\ excused' = excused \ {n}
            /\ UNCHANGED <<chanBans, isOp, bot, changes, unbanned>>

ChangeFlags == /\ changes < MaxChanges
               /\ changes' = changes + 1
               /\ Len(events) < MaxEvents
               /\ isOp' = ~isOp
               /\ events' = Append(events, <<"flags", ~isOp>>)
               /\ unbanned' = {}
               /\ UNCHANGED <<present, chanBans, bot, excused>>

\* The bot's /join was sent, or it was put out of its channel; or its connection was lost,
\* with all that was under way, and it has logged on again, before which the queue was
\* emptied.  Who is in the new channel comes as EID_SHOWUSER, as if he joined.
ChangeChannel(lost) ==
  /\ changes < MaxChanges
  /\ changes' = changes + 1
  /\ lost \/ Len(events) < MaxEvents
  /\ present' = {} /\ isOp' = FALSE
  /\ chanBans' \in SUBSET Names
  /\ events' = Append(IF lost THEN <<>> ELSE events, <<"channel">>)
  /\ out' = IF lost THEN <<>> ELSE out
  /\ unbanned' = {}
  /\ excused' = {}
  /\ UNCHANGED <<known, operator, bans, jobs>>

\* Nobody obeyed, or queued, a /ban: its victim is here still.
Futile(op, n) == excused' = IF op = "ban" THEN excused \cup {n} ELSE excused

\* The queue's head is sent and the channel obeys if the bot is an operator.
Obey == LET op == Head(out)[1]
            n == Head(out)[2]
        IN  /\ out # <<>>
            /\ out' = Tail(out)
            /\ CASE ~isOp ->
                      /\ Futile(op, n)
                      /\ UNCHANGED channel
                 [] isOp /\ op = "unban" ->
                      /\ chanBans' = chanBans \ {n}
                      /\ UNCHANGED <<present, isOp, events, excused>>
                 [] isOp /\ op \in {"ban", "kick"} ->
                      /\ Len(events) < MaxEvents
                      /\ chanBans' = IF op = "ban" THEN chanBans \cup {n} ELSE chanBans
                      /\ present' = present \ {n}
                      /\ events' = IF n \in present THEN Append(events, <<"leave", n>>)
                                                    ELSE events
                      /\ excused' = excused \ {n}
                      /\ UNCHANGED isOp
            /\ UNCHANGED <<known, operator, bans, jobs, changes, unbanned>>

-----------------------------------------------------------------------------
(* The bot.                                                                *)

\* QueueChatCommand.
Queue(op, n) == IF Len(out) > QueueLimit
                THEN Futile(op, n) /\ UNCHANGED out
                ELSE out' = Append(out, <<op, n>>) /\ UNCHANGED excused

Idle == UNCHANGED <<out, excused>>

\* Mutant: refused, but not banned.
SeeJoinRefuses(n) == IF n \in bans
                     THEN Idle /\ UNCHANGED known
                     ELSE known' = known \cup {n} /\ Idle

\* EID_JOIN and EID_SHOWUSER, with bot_banlistchannel set.
SeeJoin(n) == IF n \in bans /\ operator
              THEN Queue("ban", n) /\ UNCHANGED known
              ELSE known' = known \cup {n} /\ Idle

ProcessChatEvent ==
  /\ events # <<>>
  /\ events' = Tail(events)
  /\ CASE Head(events)[1] = "join"  -> SeeJoin(Head(events)[2]) /\ UNCHANGED operator
       [] Head(events)[1] = "leave" -> known' = known \ {Head(events)[2]} /\ Idle
                                       /\ UNCHANGED operator
       [] Head(events)[1] = "flags" -> operator' = Head(events)[2] /\ Idle
                                       /\ UNCHANGED known
       [] Head(events)[1] = "channel" -> known' = {} /\ operator' = FALSE /\ Idle
  /\ UNCHANGED <<present, chanBans, isOp, bans, jobs, changes, unbanned>>

\* ChannelNameMatch: the user of that name, or the only one whose name contains it.
Matches(n) == IF n \in known THEN {n} ELSE known

\* The database bans the name as it was given, the channel the user it matches.
AddBan(n) ==
  /\ \/ /\ ~operator
        /\ \E m \in Matches(n) : Queue("ban", m) /\ unbanned' = unbanned \ {n, m}
     \/ /\ operator \/ n \notin known
        /\ Idle
        /\ unbanned' = unbanned \ {n}
  /\ jobs' = IF n \in bans THEN jobs ELSE jobs \cup {<<"ban", n>>}
  /\ UNCHANGED <<channel, known, operator, bans, changes>>

DelBan(n) ==
  /\ IF operator THEN Queue("unban", n) ELSE Idle
  /\ jobs' = jobs \cup {<<"unban", n>>}
  /\ unbanned' = IF isOp /\ operator /\ Len(out) <= QueueLimit THEN unbanned \cup {n}
                 ELSE unbanned \ {n}
  /\ UNCHANGED <<channel, known, operator, bans, changes>>

Kick(n) ==
  /\ operator
  /\ \E m \in Matches(n) : Queue("kick", m)
  /\ UNCHANGED <<channel, known, operator, bans, jobs, changes, unbanned>>

\* A query has ended, or failed.
Apply(j) ==
  /\ j \in jobs
  /\ jobs' = jobs \ {j}
  /\ bans' \in {bans, IF j[1] = "ban" THEN bans \cup {j[2]} ELSE bans \ {j[2]}}
  /\ UNCHANGED <<channel, known, operator, out, changes, unbanned, excused>>

-----------------------------------------------------------------------------
ChannelNext ==
  \/ \E n \in Names : Join(n) \/ Leave(n) \/ AddBan(n) \/ DelBan(n) \/ Kick(n)
  \/ ChangeFlags \/ (\E lost \in BOOLEAN : ChangeChannel(lost)) \/ Obey \/ ProcessChatEvent
  \/ \E j \in Queries : Apply(j)

ChannelSpec == ChannelInit /\ [][ChannelNext]_channelVars

-----------------------------------------------------------------------------
(* Properties.                                                             *)

Queued(op, n) == \E i \in 1..Len(out) : out[i] = <<op, n>>
Quiet(n) == /\ events = <<>>
            /\ \A op \in {"ban", "unban"} : ~Queued(op, n) /\ <<op, n>> \notin jobs

\* With all events seen, the bot takes nobody for present who is not, and whoever is in
\* the channel without being in m_Channel, out of reach of kick and of the plugins, is
\* about to be banned, unless the queue was full or the channel did not obey
\* (bnet.cpp:1117-1153).
NobodyOverlooked ==
  events = <<>> => /\ known \subseteq present
                   /\ \A n \in present \ known : Queued("ban", n) \/ n \in excused

\* README:189, "delban [name] - unbans user [name] from the channel and the database".
UnbanSettles == \A n \in Names \ bans : Quiet(n) /\ n \in unbanned => n \notin chanBans
=============================================================================
