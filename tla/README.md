# pychop in TLA+

Verification project for pychop (`chop/` in C++, `plugins/pychop/` in Python), a battle.net chat bot. One
`CBNET` object per server keeps a TCP session, a cache of users and bans backed by MySQL, and an output queue
that must not flood the server; commands and plugins act on them.

## 1. The system and its parts

Everything in the process runs in one main loop (`CChOP::Update`): it delivers orphaned database callables,
selects on the sockets, calls `CBNET::Update` for every server and the plugins' `Update` handlers, and hands
over a console line. The exceptions are one thread per database query (a *callable*: created by the main
thread, run in its own thread, polled with `GetReady`, recovered and deleted by the main thread) and the
thread that reads the console.

| component | state | operations | what is hard |
|---|---|---|---|
| User cache (`bnet.cpp`) | `m_Users`, `m_Channel`: two maps that share `CUser` pointers | chat events, `AddUser`, `RemoveUser`, the 60 s list refresh | who frees an object both maps may hold; access that outlives its row |
| Access and bans against the database (`command.cpp`, `bnet.cpp`, `dbmysql.cpp`) | queues of callables, `m_Bans`, tables `users` and `bans` | `add`, `del`, `ban`, `unban`, list refreshes | commands are judged when given and applied later; threads commit in any order; a snapshot older than what it replaces; failed queries look like empty lists |
| Bans in the channel (`bnet.cpp`, `command.cpp`) | `m_Channel`, `m_IsOperator`, `m_Bans`, queued `/ban` and `/unban` | join, leave and flag events, `addban`, `delban` | what the bot knows lags behind the channel, what it does waits in a queue |
| Output queue (`bnet.cpp`) | `m_OutPackets`, `m_LastOutPacketTicks`, `m_LastOutPacketSize`, `m_FrequencyDelayTimes` | queue a chat command, send when the delay has passed | unsigned clock arithmetic, a queue limit some senders ignore |
| Connection (`bnet.cpp`, `socket.cpp`) | socket flags, `m_LoggedIn`, `m_InChat`, `m_WaitingToConnect`, `m_NextConnectTime`, `m_Packets` | connect, time out, log on, lose the connection, retry after 90 s | packets of one session processed in the next, flags that must agree with the session |
| Framing (`bnet.cpp`, `bnlsclient.cpp`) | receive buffer | `ExtractPackets` | partial and malformed packets |
| Database pool (`dbmysql.cpp`) | idle connections, `m_NumConnections`, `m_OutstandingCallables` | `GetIdleConnection`, `CreateThread`, `RecoverCallable` | accounting when threads fail to start |
| BNLS client (`bnlsclient.cpp`) | its socket, five queues of challenges and answers | relay a Warden challenge, return the answer | answers of a session that is over, a client that is deleted |
| Plugin handlers (`chop.h`, `chop.cpp`, `pluginman.py`) | one vector of Python functions per event | register, unregister, execute | handlers that (un)register while their own vector is iterated |
| Commands (`command.cpp`) | the access table, the settings of every plugin | dispatch, access control | whom the bot answers when its queue is long |
| Core plugins (`bnet.cpp`) | `m_SpamCache`, phrases | AntiSpam, AntiYell, PhraseKick | a cache at its limit |
| Console (`chop.cpp`) | `m_InputMessage` | reader thread, `Update` | one slot between two threads, one line for several servers |
| Python plugins: `votekick` | open votes, for all servers together | vote, count after a minute | votes from several servers, a kick that may be discarded |
| `queue` | slaves' sockets and `packet_buf` | ask for delays, forward a command | slaves that are late, come and go, while the master blocks |
| `plugindb`, `trivia` and others | cached scores and row numbers, a question | points, hints, the end of a question | statements that fail, or were carried out without an answer |
| `gamequeue` | queued games, bots and when they were used | hand a game to a free bot every 3 s | a table the bots write later than they were told to host |
| Packet formats, CD-key and password hashing, config, language | none that lives across calls | build and parse packets | pure functions |

Vendored code (StormLib, bncsutil, MySQL headers, zlib, bzip2) is not part of the project's own logic.

## 2. The modules

Each module is one component; `MC...` is what TLC needs to run it. The theorems are in `..._proofs`: a module of
their own for the components named there, `OutQueue_proofs` for `FloodControl` and `ChannelBans`, `Runtime_proofs`
for `DBPool` and `PluginHandlers`, `Inputs_proofs` for the components `MCInputs` runs. Definitions
that start with a comment "Mutant:" are broken variants of the definition below them: put in its place, each
must make TLC find a property violated (`PROJECT.json`, "mutants"), which is how we know the property can fail.

### UserCache, AccessView
`m_Users` and `m_Channel` are functions from lowercased names to addresses, `heap` is the set of live `CUser`
objects, `access` their levels. The code shares one object between the two maps, so `GetUserByName`, every chat
event (`StrangerSpeaks` ... `EnterChannel`), `AddUser` (`AddKnown`, `AddNew`), `RemoveUser` and the loops of the
refresh (`RefreshUsers`; bnet.cpp:429-483) are modelled at the level of pointers, with `misused` collecting what
is freed twice or used after. `FetchList` is the thread of the list query, which allocates the new objects while
the main loop goes on; a name may come in two rows, the second of which leaks the first's object. An address is
reused after it has been freed.

`AccessView` is the promise: one level per name, a set of listed and a set of present names. `UserCache`
implements it (`ImplementsView`).

### AccessSync
The table `users`, the cache that commands are judged by (levels only; the pointers are `UserCache`'s) and the
callables between them. A command is judged when it is given (`AddCommand`, `DelCommand`), its query runs in two
statements (`Select`, `Write`) or one, may fail before either (`JobFails`) or after the last was carried out, when
the connection is lost with the answer (`AnswerLost`: the rows change, and the query counts as failed), and `Update`
applies its result (`Apply`). `SomebodyLeaves` is the seen time: it inserts a row if it saw none. `ReadList`, `ListFails`,
`StartList` and `Refresh` are the list query of every minute. `peak` and `synced` are history variables: the most
that full access has granted, and the names on which nothing has raced and no answer was lost since a list agreed.

### BanSync
The same for bans, but the table is shared by all servers and GHost++ bots (`GHostBans`), an unban deletes the
rows of every server (dbmysql.cpp:505) and takes only the first entry from one server's `m_Bans`
(bnet.cpp:1551): table and lists are counts. Its queries, too, may fail before or after they were carried out.

### ChannelBans
The battle.net channel (who is in it, whom it refuses, whether the bot is its operator), chat events that lag
behind it, and the bot: `m_Channel`, `m_IsOperator`, `m_Bans`, and the commands in `m_OutPackets`. `AddBan` and
`DelBan` and `Kick` are the commands with what they queue, for the user `ChannelNameMatch` finds, whose name may only
contain the one given; `SeeJoin` is what a join of a banned name does. `ChangeChannel` empties the channel under the
bot, with the events under way or without them, if the connection was lost; m_Channel and m_IsOperator are what
they were until its event is processed. Of the queries only the end is left (`Apply`), which may also be a failure.
`unbanned` and `excused` are history variables.

### FloodControl
`m_OutPackets` and the delay between its packets, over a clock that wraps as `uint32_t` does: `ElapsedTime` is
an unsigned difference, and `m_LastOutPacketTicks` may lie four seconds ahead. `sentAt` and `owed` are history
variables in true time. `QueueChat` obeys the limit; `QueueOther` and `QueueUnasked` (clan and friends packets;
null packets and Warden's) do not.

### Session, Connection
`Connection` is `CBNET::Update` from the first branch to the last (bnet.cpp:505-673) with the client socket
below it and the logon dialogue of `ProcessPackets`. `pc` splits the branch of a connected socket in the order
the code has: receive, process packet by packet, send; between these steps the network and the server move.
`ProcessPackets` may return in the middle (`Disconnect`), and leaves the rest in `m_Packets`, as the code does.
A connection may be refused, closed by the server, die silently or break, at any point. The server is modelled
from what the code expects of it: it answers the packets of the logon in order, refuses, or is confused by a
packet out of order.

`Session` is the promise to everybody who reads `GetLoggedIn` and `GetInChat`: down, trying, logged in, in chat,
in this order, and down again from anywhere.

### DBPool
`CChOPDBMySQL`: idle connections, the two counters, and the callables from `ThreadedXXX` over the thread's
`Init` and `Close` to `RecoverCallable`. A connection is a model value or `NULL`. `CreateThread` may fail, which
makes the callable ready without ever having had a connection. Callables are recovered in any order, also by
`CChOP::Update` after their `CBNET` is gone.

### PluginHandlers
`gHandlersFirst` and `gHandlersSecond` are sequences of plugins, one for every pair of an event and whether its
handlers are "first" ones. `frames` are the iterations of `EXECUTE_HANDLER` under way, innermost last: a handler
may call `queueChatCommand`, whose event is put to handlers within the other. The first handler of a first vector
that returns false, `None` or raises makes the macro throw, and the event is over (`Returns`). That is how
pluginman, a first handler of `ProcessCommand`, keeps `RegisterHandler` and `UnregisterHandler` from invalidating
the iterator it is called from: whatever it did, it returns false (`Manage`). What plugins register in `init`
and unregister in `deinit` are the constants `Hooks` and `Unhooks`; `DeinitRaises` are those whose `deinit` fails
afterwards. Not modelled: the further level of `QueueChatResponse`, the three events at start and end, whose
handlers run in the opposite order, and loading pluginman with itself (the one that
runs is not in `loadedPlugins`, so that it cannot unload itself).

### PacketFraming, WardenService, WardenRelay
`PacketFraming` is the loop of `ExtractPackets`, which `CBNET` and `CBNLSClient` have each: a buffer of bytes, of
which a stream adds any portion, is cut by the length in the header. A byte is the packet it was sent in and its
place there, so that a program that has lost its place reads a length from what is none. `Left` is what remains
of the buffer, `Malformed` a header that cannot be.

`WardenRelay` has the two byte streams cut anywhere. `pc` goes through `CBNET::Update`: receive, extract,
process, `CBNLSClient::Update` with its own socket, the answer taken over from it, send. The BNLS client is
created at `SID_AUTH_INFO` with the seed of the session and deleted when its socket fails or the session ends.
Further sessions may follow, and a fault may be a closed socket or a malformed packet, of either server, or a logon
that battle.net refuses. It answers and refuses only what it was asked (`requested`), which is more than a
detail: nothing empties m_Packets when a session ends, and if battle.net could send a second `SID_AUTH_INFO`
unasked, one left there by a session could make a client, with that session's seed, two sessions later.
`WardenService` is the promise to battle.net: in each session it asks and is answered in turn, an answer may be
missing, but none comes twice, out of turn or from another session. That promise would be kept by a bot that drops
every challenge; `ChallengesKept` says that it drops none while both connections work and BNLS has not failed in the
session: what was asked is answered, or on its way in one of the places the code passes it through.

### ConsoleInput, ChatInput
`ConsoleInput` has the reader thread (`ReadLine`, then `StoreLine` under the mutex) and the main loop, which takes
a line to the servers one by one and may end the program between two of them. `ChatInput` is `ProcessChatEvent`
for what users say, whisper and act, the guards in front of every command and of its reply, and the core plugins;
a command is reduced to what it puts into `m_OutPackets`, now or when its query has an answer.

### VoteKick, ChatQueue, Trivia, GameQueue
The plugins that have a protocol of their own. `VoteKick`: votes from all servers, counted after a minute.
`ChatQueue`: master and slaves of the queue plugin; a wire carries requests, and a command in two parts, header
and body; the master blocks while it asks one slave after the other, and slaves go on. Master and slaves log out
and in again: `Queue` is what bnet.cpp:1374-1389 does with a command, which a program that is not logged in or has
more than `QueueLimit` packets queued discards (`discarded`); what was queued when the connection was lost is thrown
away when the next is made (`Reconnect`). `taken` records what each program was told to say, discarded or not.
`Trivia`: the plugin with PluginDB under it; a statement is carried out zero, one or two times, and the handler gets
an exception or not; the plugin may be started again at any time, from the table. Three history variables count
without looking at the scores: `solvers`, who was credited with the last question asked; `earned`, with how many
questions each player was; and `spoilt`, how often counting his point raised an exception, which leaves the question
open though the point may be there. `GameQueue`: users queue games, bots are told by whisper to host them and list
them in a table themselves, when they get to it, which may be long after the ten seconds a bot is left alone: the
whispers wait in the output queue. `late` are the bots whose rest is over while an order is still on its way to them;
such a bot may be given a second game, as in the code, and `GamesWellPlaced` excepts it.

`MCInputs` runs these four and the two input modules, one at a time: they share nothing but the main loop, and
`active` says which of them is run.

## 3. What is checked, and the bounds

| run | result | shows |
|---|---|---|
| `user_cache` | holds, 35 000 states | no object is used or freed after its free; a name has one object; who is removed from the list has no access anywhere; leaks are confined to strangers; AccessView is implemented |
| `access_sync` | holds, 1.06 million | no escalation above what full access granted; cache and table agree unless raced on or an answer was lost; convergence |
| `ban_sync` | holds, 680 000 | no ban is forgotten, no double without a race or a lost answer; convergence |
| `channel_bans` | holds, 4.0 million | through joins, bans and changes of channel, the bot overlooks nobody in its channel but whom it is about to ban |
| `unban_settles` | violated | finding 1 |
| `flood_control` | holds, 2.1 million | true time between queued packets is at least the wait; the chat queue is bounded |
| `connection` | holds, 48 000 | flags agree, logged in is real, Session is implemented, the bot returns to chat |
| `warden_relay` | holds, 115 000 | streams are cut where packets end, WardenService is implemented, no challenge is lost while both connections work, and every one is answered if BNLS does not fail |
| `db_pool` | holds, 430 (symmetric) | one owner per connection, no leak, bounded pool, honest counters |
| `plugin_handlers` | holds, 9 500 | no iteration goes on over a changed vector; a loaded plugin is called once, one that is not loaded never |
| `inputs` | holds, 594 000 | scores survive, a question is worth one point to one player, votes are counted, a forwarded command is left to one program and once, games go to bots that are free or late, lines run in order, spam is repetition; questions close, a command is queued or discarded in the end, lines run |
| `flooding_ignored` | violated | finding 2 |

Bounds, and why they are enough to be worth something:
- `UserCache`: two names, one of them the root admin, five addresses, three levels, one doubled row. Names only
  meet in the heap, where two suffice for an address freed under one name to be reused by the other; five
  addresses let both names be in both maps while a list is in flight and an object has leaked. The theorems
  cover every size.
- `AccessSync`, `BanSync`: two callables outstanding beside the list query, so that every pair of queries races
  and every query races with the list; two commands (three bans), one failure. `AccessSync` has two names, which
  interact through the giver's level. `BanSync` has one, since nothing there relates names, and two servers,
  which the unban relates.
- `ChannelBans`: two users, a queue that takes two commands (the code's takes eleven; what matters is that it can
  be full), two events under way, three changes of the operator flag or the channel, so that the bot becomes an
  operator, loses its channel, and becomes one again.
- `FloodControl`: the clock wraps after 20 s, longer than any wait plus the 5 s of idleness that reset the
  frequency; time runs to 26 s, so it wraps. Sizes 4 and 255 are the ends of the table. The limits are scaled
  (1 chat command for 10, frequency 2 for 30); the theorems are about all values.
- `Connection`: at most three faults, so a logon can fail, fail differently when retried, and once more; pings
  are sent while fewer than three packets are under way.
- `WardenRelay`: three sessions, since what m_Packets keeps may come from the one before last; two challenges in
  each, so that answers can change their order; two faults. A packet is its header, and one byte more if it
  carries a challenge or an answer, so that what is cut may be the header, its length, or what follows.
- `DBPool`: three callables, five handles, idle connections closed above one (the code: 30), two failed threads.
- `PluginHandlers`: five plugins of this repository, which between them hook both vectors of the same event, one
  event in both vectors, an event without a veto, and the nested event; one of them fails in `deinit`. Four
  events, every other being like one of them. Nothing is bounded: the state space is finite by itself.
- `MCInputs`: for `Trivia` two players, two questions and two faults (an exception and its repetition, or one for
  each player); for `VoteKick` three voters, two victims, two servers, and a vote that succeeds with two, so that
  votes for and against cross it both ways; for `ChatQueue` two slaves, three commands, three connections, one
  fault, so that a slave may come back with what was left for it, or one logout instead (`MaxQueueFaults` bounds both
  together), and a queue that takes two commands, the third being discarded (the code: eleven); for `GameQueue` two owners, two bots and three
  games, so that a bot is used again; for `ConsoleInput` two servers with different triggers and three lines, the
  second and third of which may be overwritten; for `ChatInput` a stranger and a member, caches of one and three
  lines, between which the size may change while the cache is full.

Deadlock is checked where the system never stops (`UserCache`, `ChannelBans`, `Connection`, `DBPool`,
`PluginHandlers`). The configurations that say `CHECK_DEADLOCK FALSE` (of `AccessSync`, `BanSync`, `FloodControl`,
`WardenRelay` and `MCInputs`) bound commands, failures, sessions or time, and a run of the model ends there.

Type invariants are checked by the proofs: they are the first conjunct of every inductive invariant of section 5.
The runs check none by itself.

**Fairness.** `AccessSync` and `BanSync`: a thread that was started ends (the MySQL client library times out), and
`CChOP::Update` keeps calling `CBNET::Update`, which polls every callable and starts a list every minute (five
for the bans). No command, failure, seen time or GHost++ ban is ever owed. `Connection`: `Update` is called
again and again; a socket that is ready again and again is eventually read or written (strong fairness, since a
pass may find it not ready); the clock goes on; the server answers; TCP gives up on a peer that acknowledges
nothing. Faults are not owed and there are finitely many: "returns to chat" is said of a bot whose network has
stopped failing. `WardenRelay`: the same for both sockets, and BNLS serves what it has received; of the portions a
socket may be read in, only the whole is owed, since what arrives stays readable. `MCInputs`: the plugins' `Update`
handlers are called in every pass of the main loop, the slaves' as well as the master's; the main loop goes on; the
reader gets the mutex in the end (strong fairness), for the main loop sleeps up to 50 ms in every pass without
it. Users and the console owe nothing.

## 4. Where code and documentation disagree

1. `unban_settles` (README:189): who joins between an unban and the end of its query is banned after the
   `/unban`, and stays on the channel's list of bans.
2. `flooding_ignored` (command.cpp:106, "ignore user if user has no access and we are flooding"): the guard of
   `?trigger` is the wrong way round (bnet.cpp:1078); a user without access is answered when the queue is long, and
   only then.

Met while modelling, without a run, since each is a step or two from an initial state or outside of the models.

Access and bans:
- README:66 promises that the root admin always has access 10, which bnet.cpp:1076 sets only when he talks: he may
  be in the channel with 0, and commands on him are judged by that.
- dbmysql.cpp:476, 492, 801, 818, 885: a statement that was carried out and whose answer was lost is reported as
  failed, "error" in the answer to the command included, and neither cache nor `m_Bans` follows until the next list.
  `SyncedAgrees` excepts such a name until then.
- command.cpp:182 compares the payload of `del` as typed with a lowercased `m_RootAdmin`, so that another spelling
  passes the test that protects him. `UserCache` and `AccessSync` allow both this and the former, and except the
  root admin by name where they must.
- command.cpp:165, "only allow users with access < 10 to add other users with less access", holds of the levels at
  the time of the command; an add is written (bnet.cpp:355) over whatever level its target has been given since.
- README:190: an unban takes one entry from `m_Bans` (bnet.cpp:1551) and all rows from the table: a name with two
  entries stays banned by the bot until the next list.
- README:187: `addban` queues `/ban` only if the bot is *not* an operator (command.cpp:248; the three commands
  beside it have the test the other way round), so that no ban command bans from the channel.

Output queue and chat:
- bnet.cpp:1745, 619: moving `m_LastOutPacketTicks` four seconds ahead makes the unsigned elapsed time huge: the
  first queued packet after the logon is sent at once rather than later.
- bnet.cpp:595 adds 60 000 to that time modulo 2^32. If the minute ends within the pass in which the clock wraps,
  no null packet, which is what notices a dead connection, is sent until something else is.
- chop.cfg:61 and README:81 call the size of the spam cache `op_spam_cachesize`, chop.cpp:539 reads
  `op_spamcachesize`. README:81 has a user kicked who fills the cache alone; bnet.cpp:1276 kicks at the second line
  that repeats a first, whispers included. A size lowered below what is cached never trims it, and 0 erases from
  an empty vector.
- chop.cpp:745: a console line with the trigger of another server is said as chat on this one.

Plugins:
- inactive.py:33 calls `plugindb.deinit()`, a name it does not import, so its `deinit` raises after it has
  unregistered. pluginman has not deleted it from `loadedPlugins` yet (pluginman.py:85-86): the plugin can be
  neither loaded, unloaded nor reloaded any more. `LoadedIsAlive` excepts such plugins.
- randspeed.py:60 registers a handler for `ChatReceived`, and its `deinit` unregisters one for
  `ChatReceivedExtended` (line 69): it is called after its unload, and twice after being loaded again. The run of
  `PluginHandlers` has only plugins that unregister what they registered. Of the theorems, `IterationsAreSound` and
  `LoadedAreCalled` have no such restriction; the two it would refute assume it (`Tidy`).
- votekick: the usage it prints for a vote against, "no" after the name, raises (it reads a third word that is
  not there); a vote's kick goes to the server of the last command anybody gave (votekick.py:54), and is dropped
  if that server's queue is full.
- trivia: the command `delay` sets a local variable; the entry it makes up for an unreadable question has no
  category, so that asking it raises.
- queue.py:144 uses the name `connection` that an earlier loop left behind; an exception there loses the command. A
  slave's `packet_buf` keeps the first part of a command whose master is gone, and joins it to the next.
- lottery.py:99 iterates over the keys of a dictionary as if they were pairs, and line 172 adds a number to a
  string: once somebody has bet, a round never ends.
- rroulette.py: without players a draw from an empty range raises in every pass; players of the last game stay for
  the next; a lone player is kicked, and "the remaining players win".
- gamequeue.py:98-147: a game is taken out of the queue before a query that may fail, and is then lost. A bot is
  left alone for ten seconds after an order (line 100), which may wait in the output queue for longer (eleven packets
  at up to several seconds each): then the same bot is chosen again, and does not host the second game.
- queue.py:149: the master takes no answer to a command it has forwarded, so one that the slave discards is lost, as
  is one it discards itself.
- quote, ask8ball and slap: a list that could not be read is empty, and the remainder by zero that picks from it
  raises.

## 5. What is proved

All for every value of the constants, under the named assumptions of the modules (levels are naturals up to
`Full`, the word size is positive, and the like).

- `UserCache_proofs`: `HeapInv` is inductive: types, no dangling pointer, nothing misused, one object per name,
  and objects of different names differ, also those of the list in flight. Without the last part a refresh could
  free under one name what another holds. From it follow `TypeCorrect`, `MemorySafety`, `NothingDangles` and
  `OneObject`. With `OnlyListedHaveAccess` it makes `AccessInv`, which gives `RevocationIsComplete`; step by step
  simulation under `HeapInv` gives `Implementation`: `Spec => View!ViewSpec`. `LeakInv` adds that a list that is not
  ready holds nothing, so that a refresh overwrites no pointer; with it `LeaksAreStrangers` says that what a step
  unlinks it frees, or the other map has it, but for the `CUser` of a stranger who leaves.
- `AccessSync_proofs`: `Escalation`. The strengthening bounds by `peak` everything a level can come from: rows,
  cache, the snapshot in flight, and every outstanding job. That a command by less than full access grants less
  than its giver's cached level closes the induction. The root admin's cached level, which is `Full` when he
  talks, is excepted. `Agreement` is `SyncedAgrees`: of a name nothing has raced on at most one query is
  outstanding, and a failed one has changed no row; what it found when it looked for a row is still so; and what agrees with the table is the list while
  one has been read and not applied, the result of that query once it has written, and the cache otherwise.
- `BanSync_proofs`: `Agreement`, along the same lines for a list of entries at every server. Agreement alone is
  not enough for a ban, which adds one to both counts: when its query runs, list and rows must be equal, which
  `IsBannedName` has seen to when the command was given.
- `OutQueue_proofs`, of `FloodControl`: `WaitsAreKept`. The invariant says that if a wait is owed, the time taken
  for that of the last packet is between the true one and now, and that size and frequency still give that wait. An
  unsigned difference of times in order never exceeds the true one, so what has elapsed for the program has elapsed.
  `ChatStaysBounded` counts the chat commands by an injection from the positions after a step. Of `ChannelBans`:
  `NobodyIsOverlooked`, which is said of a channel with no event under way. The invariant (`SeenFor`) is about
  each user and all times: the last event under way that tells of him tells the truth, and if none does, the bot knows
  him as he is, has a ban of him queued, or he is excused, as he is whose ban was discarded or refused. The length
  of the queue and the number of events under way are arbitrary.
- `Connection_proofs`: `FlagsNeverClash`, `SessionIsReal`, and `Implementation`: `Spec => S!Spec`. What makes the
  flags follow is the dialogue: of the packets still to be read, those in `m_Packets` and those on the wire, at
  most one is not a ping, and it is the server's last answer (`AnswerInTurn`); likewise for what the bot has yet to
  say (`RequestInTurn`); a server that was spoken to in turn is never ahead of the bot (`NeverAhead`); and a
  connection begins with nothing but pings left of the last one (`BeginsClean`), although nothing empties
  `m_Packets` in between.
- `Runtime_proofs`, of `DBPool`: `ConnectionsHaveOneOwner`, `ConnectionsAreNotLost`, `PoolIsBounded`,
  `CountsAreHonest`. The invariant adds that a callable that is not alive holds nothing, and that the counters cover
  what exists, so that the count never wraps below zero. How far it may be too high is `Overstated`: a thread that
  could not be created leaves a callable that is ready without a connection, recovering that leaves a null among the
  idle, and taking the null counts a connection more; each failure pays for one of the three. `Callables` is
  assumed finite.
  Of `PluginHandlers`: `IterationsAreSound`. The invariant says how events nest: an event within another is a queued
  chat command, so that pluginman, which acts in `ProcessCommand`, is never in a nested one; when it returns no
  iteration is left. Nothing is assumed of what the vectors hold. `LoadedAreCalled`: registering for one plugin and
  unregistering another take no handler from a third. `PluginsCalledOnce` and `UnloadingIsComplete` assume `Tidy`,
  that plugins unregister what they registered; what makes them inductive is that a plugin is only in the vectors it
  hooks (`OnlyHooked`). Erasing a handler is `Without`, which says of each place what of the rest is there, so that
  it can be reasoned about; that it is `Remove` of the community modules TLC checks on vectors of up to four
  (`WithoutRemoves`).
- `Inputs_proofs`: theorems about each component by itself, `XInit /\ [][XNext]_xVars => []P`. `VotesCounted`: a
  user is in the voters of a vote once, for or against. `ScoresKept` and `PointsEarned`: a cached row number is that
  of the user's last row (`IdsAreLast`, which exists: `LastsExist`), the row the next start reads; the cache is at
  least the row (`CacheAhead`), and every row's value is at most what was earned or spoilt (`RowsEarned`); an open
  question has no solver (`OpenIsUnsolved`), which is what makes it worth one point. `GamesPlaced`: a bot that is
  busy and not late was used and is still resting or listed (`BusyRest`), and games are handed out in turn
  (`Turns`). `LinesOrdered`: the slot holds a line not yet begun (`SlotOK`), the lines run are those begun, at the
  servers up to the one the loop is at (`RunsOK`), in the order they were typed (`BegunInTurn`). `CommandsSaidOnce`:
  what is in a slave's buffer and behind it on the wire is headers and bodies in turn (`InTurn`), a command that was
  taken or whose body is on its way to a slave is in one place (`Once`), and it is one the master has done with
  (`DoneWith`), so that the next is nowhere yet. `NoCommandIsLost` is `CommandsKept`, the other direction, as long
  as no slave was restarted or late: the master goes through connections only (`InRange`), each is open at both ends
  and read by its slave (`AllOpen`), so that the print that may raise does not and what is sent is received; and
  every step keeps what is in the places (`Keeping`), so that what the master has done with is in one of them
  (`AllHeld`). That a program has discarded a command is one of the places: it is what bnet.cpp:1374-1389 does, and
  neither master nor slave notices. `AllSaid` is what the run checks of it: a command that is lost is neither queued
  nor discarded in the end. `SpamIsRepeated`: the cache holds the last lines that were said (`LastOf`), as many as
  it has room for, as long as its size was not lowered below what it held; so what it finds repeated is.
- `WardenRelay_proofs`: `WardenIsSafe`, the invariant, and what follows from it: `BothKeepTheirPlace` and
  `WardenServes`, `Spec => ImplementsService`. A stream is `Framed` if every byte of it is within a packet that is
  there as a whole; that packets in such a stream do not overlap (`FramedCut`) is what lets `ExtractPackets` take one
  away and find another behind it, wherever the portions were cut. Challenges are in six places on their way
  (`Pipe`): those nearer to the answer come before those farther from it, and each place is in order, all above the
  last answer and up to the last question (`InTurn`); the answer that is sent is therefore new, and of this session
  because everything the client has is (`ClientInv`). That needs `Leftovers` and `OneLogon`: what an earlier session
  left in m_Packets holds no `SID_AUTH_INFO` that could make a client, since of the logon at most one packet is on its
  way at a time, the answer to the last request, and the bot that processes it asks again or leaves.
  `NoChallengeIsLost` is `ChallengesKept`. Beside `WardenInv` it needs `KeptInv`, which says why the two steps that
  drop a challenge are not taken: `ProcessPackets` finds a client, since the answer to `SID_AUTH_INFO` that makes it
  is ahead of the session's challenges wherever they are (`AheadInv`), and nothing makes a second client in the place
  of the first (`InfoInv`); and BNLS computes an answer, since it is told the seed before it is asked (`SeedInv`).
  Then every step leaves every challenge where it is or takes it to the next place, or answers it (`HeldInv`;
  that no challenge in the six places goes missing in a step is `Retains`).

Only model-checked: liveness (`Convergence` twice, `ReturnsToChat`, `Answered`, `AllSaid`, `QuestionCloses`,
`LineRuns`), which is out of the prover's reach; of `Answered` and `AllSaid` the theorems have that nothing is lost
on the way (`NoChallengeIsLost`, `NoCommandIsLost`), and TLC that it arrives. Every invariant and action property the runs find to hold is a
theorem.

## 6. Not modelled

Left out for good:
- Packet formats (`bnetprotocol.cpp`, `bnlsprotocol.cpp`): they build and parse byte strings and decide nothing;
  the models take packets as values, and `PacketFraming` where one ends.
- Keys, passwords and hashes: calls into libraries for their result. That they fail is a step of `Connection`.
- Configuration, language, CRC and helpers: read once at the start, or formatting.
- The program's start and end: at its end the system frees what threads may still use.
- The plugins that answer one command from one variable, and matchmake, which fills a list and shuffles it.
- The bundled libraries (StormLib with zlib and bzip2, bncsutil with GMP, the MySQL headers). They are four fifths
  of the source by lines, third-party code, and reached through a handful of calls; of the program's own
  15 000 lines about half are packet and message texts, tables and plugins without state. So the share of all
  lines that these modules stand for cannot be large, and what they leave out of the program's own logic is the
  list above and the abstractions below.

Parts of modelled components that are left out are named in `PROJECT.json` with each component: `TotalDelayTime` in `FloodControl`, `mysql_init` failing in `DBPool`, the
answers of handlers in `PluginHandlers`, a restart of the queue plugin's master, its end between the two
sends of a command (queue.py:105-106, one step of `Forward`) and an answer of a slave in two parts in `ChatQueue`, the texts other score keeping plugins say in `Trivia`, a `SpamCacheSize` of 0 in `ChatInput`.

Abstractions a reader should know of: a statement whose answer was lost is carried out before its failure is applied,
not later; names are compared exactly, with the spelling kept where the code tells
spellings apart; text is never modelled; the body of a packet is its meaning; in `Connection` a null packet may be
sent at any time nothing else is, instead of after sixty seconds; the components `MCInputs` runs do not act on one
another, though in the program each of them queues chat commands for the same queue, of which each has what
matters to it: whether it takes a command or discards it.
