------------------------------ MODULE ChatInput ------------------------------
(***************************************************************************)
(* What users say and order in a channel or by whisper: ProcessChatEvent,  *)
(* the guards of ProcessCommand in front of every command, and the core    *)
(* plugins, of which AntiSpam keeps the last lines in m_SpamCache.  What   *)
(* a command does to other components is modelled there; here it is what   *)
(* it puts into m_OutPackets, now or when its query has an answer.         *)
(***************************************************************************)
EXTENDS Integers, Sequences, FiniteSets

CONSTANTS
  Speakers,
  AccessOf,       \* speaker -> access
  BannedSpeakers,
  Texts,
  YelledTexts, PhraseTexts, \* what AntiYell and PhraseKick would kick for
  CommandAccess,  \* command name -> access needed, -1 if it is not configured
  ChatSettings,   \* the settings of the configuration, as records
  CacheSizes,     \* what SpamCacheSize is set to
  MaxPackets,     \* bound on m_OutPackets
  MaxAnswers      \* bound on the queries under way

ASSUME ChatAssumption ==
  /\ AccessOf \in [Speakers -> Nat]
  /\ CacheSizes \subseteq Nat \ {0}
  /\ \E longest \in CacheSizes : \A n \in CacheSizes : n <= longest

VARIABLES
  settings,
  outPackets,    \* the size of m_OutPackets
  answers,       \* queries whose answer will be said
  spamCacheSize, \* m_SpamCacheSize, which plugins may set
  spamCache,     \* m_SpamCache
  shrunk,        \* history: it was set to less than the cache holds
  heard,         \* history: the last lines said, as many as were to be kept
  lastInput      \* history: what came last, and what AntiSpam made of it

chatVars == <<settings, outPackets, answers, spamCacheSize, spamCache, shrunk, heard, lastInput>>

LongestCache == CHOOSE n \in CacheSizes : \A m \in CacheSizes : m <= n
LastOf(s, n) == SubSeq(s, IF Len(s) > n THEN Len(s) - n + 1 ELSE 1, Len(s))
Times(line, s) == Cardinality({i \in DOMAIN s : s[i] = line})

Nothing == [kind |-> "none", access |-> 0, spam |-> FALSE, repeated |-> FALSE]
Input(kind, u) == [Nothing EXCEPT !.kind = kind, !.access = AccessOf[u]]

ChatInit == /\ settings \in ChatSettings
            /\ outPackets = 0 /\ answers = 0
            /\ spamCacheSize \in CacheSizes
            /\ spamCache = <<>> /\ shrunk = FALSE /\ heard = <<>>
            /\ lastInput = Nothing

\* QueueChatCommand discards what comes when more than ten packets wait.
QueuedTo(n) == IF n > 10 THEN n ELSE n + 1

-----------------------------------------------------------------------------
(* ProcessCorePlugins.                                                     *)

\* Mutant: a line is dropped as soon as the cache has one less than its size.
CacheShort(line) == Append(IF Len(spamCache) = spamCacheSize - 1 /\ spamCache # <<>>
                           THEN Tail(spamCache) ELSE spamCache, line)

\* A line is dropped only when the size is met exactly.
CacheWith(line) == Append(IF Len(spamCache) = spamCacheSize THEN Tail(spamCache)
                          ELSE spamCache, line)

\* Lines of any length with a name of three letters count as long, so two are spam.
KickFor(u, t) ==
  IF AccessOf[u] > 0 THEN "no"
  ELSE IF settings.antiSpam /\ Times(<<u, t>>, CacheWith(<<u, t>>)) > 1 THEN "spam"
  ELSE IF settings.antiYell /\ t \in YelledTexts THEN "yell"
  ELSE IF settings.phraseKick /\ t \in PhraseTexts THEN "phrase"
  ELSE "no"

\* A line that is no command, said, whispered or acted.
Say(u, t) ==
  /\ settings.antiSpam => Len(spamCache) < LongestCache + 1
  /\ spamCache' = IF settings.antiSpam THEN CacheWith(<<u, t>>) ELSE spamCache
  /\ heard' = IF settings.antiSpam THEN LastOf(Append(heard, <<u, t>>), LongestCache) ELSE heard
  /\ outPackets' = IF KickFor(u, t) = "no" THEN outPackets ELSE QueuedTo(outPackets)
  /\ lastInput' = [Input("line", u) EXCEPT
                     !.spam = KickFor(u, t) = "spam",
                     !.repeated = settings.antiSpam /\ AccessOf[u] = 0
                                  /\ Times(<<u, t>>, LastOf(heard', spamCacheSize)) > 1]
  /\ UNCHANGED <<settings, answers, spamCacheSize, shrunk>>

\* A plugin sets SpamCacheSize.
SetCacheSize(n) ==
  /\ n # spamCacheSize
  /\ spamCacheSize' = n
  /\ shrunk' = (shrunk \/ Len(spamCache) > n)
  /\ heard' = LastOf(heard, spamCacheSize)
  /\ lastInput' = Nothing
  /\ UNCHANGED <<settings, outPackets, answers, spamCache>>

-----------------------------------------------------------------------------
(* ProcessCommand.                                                         *)

Flooding == outPackets > 3

\* What ignores a user altogether.
Ignored(u) == \/ AccessOf[u] = 0 /\ settings.disablePublic
              \/ u \in BannedSpeakers /\ settings.disableBanned

\* Access is compared with the command's, of which more than 11 means 11.
Allowed(u, c) == CommandAccess[c] >= 0 /\ AccessOf[u] >= CommandAccess[c]

\* Why a user with access who is refused is told so: whispers are not allowed, or he
\* lacks access.
Refusal(u, c, whisper) ==
  /\ AccessOf[u] > 0
  /\ \/ whisper /\ ~settings.whisperAllowed
     \/ /\ CommandAccess[c] >= 0 /\ ~Allowed(u, c)
        /\ settings.displayNoAccess

Runs(u, c, whisper) == /\ ~Ignored(u)
                       /\ whisper => settings.whisperAllowed
                       /\ Allowed(u, c)
                       /\ ~(AccessOf[u] = 0 /\ Flooding)

\* The reply to a user without access is not queued if the queue is longer by now.
ReplyTo(u, n) == IF AccessOf[u] = 0 /\ n > 3 THEN n ELSE QueuedTo(n)

Replies == {"owner", "uptime", "version", "ping", "slap"}

\* The commands by what they put into the queue: a reply; something said; two packets for
\* the clan and a reply; a query, of which "seen" sends none when flooding; nothing, once
\* the queue is empty.
RunCommand(u, c) ==
  CASE c \in Replies -> outPackets' = ReplyTo(u, outPackets) /\ UNCHANGED answers
    [] c = "say"    -> outPackets' = QueuedTo(outPackets) /\ UNCHANGED answers
    [] c = "invite" -> outPackets' = ReplyTo(u, outPackets + 2) /\ UNCHANGED answers
    [] c = "seen"   -> /\ answers' = IF Flooding THEN answers ELSE answers + 1
                       /\ UNCHANGED outPackets
    [] c = "stats"  -> answers' = answers + 1 /\ UNCHANGED outPackets
    [] c = "clear"  -> outPackets' = 0 /\ UNCHANGED answers

Command(u, c, whisper) ==
  /\ outPackets + 2 < MaxPackets /\ answers < MaxAnswers
  /\ lastInput' = Input("command", u)
  /\ IF Runs(u, c, whisper) THEN RunCommand(u, c)
     ELSE /\ outPackets' = IF ~Ignored(u) /\ Refusal(u, c, whisper) THEN QueuedTo(outPackets)
                           ELSE outPackets
          /\ UNCHANGED answers
  /\ UNCHANGED <<settings, spamCacheSize, spamCache, shrunk, heard>>

\* "?trigger", which is no command: a user without access is told when the queue is long.
AskTrigger(u) ==
  /\ lastInput' = Input("?trigger", u)
  /\ outPackets' = IF AccessOf[u] > 0 \/ (~settings.disablePublic /\ Flooding)
                   THEN QueuedTo(outPackets) ELSE outPackets
  /\ UNCHANGED <<settings, answers, spamCacheSize, spamCache, shrunk, heard>>

\* A query ends, and its answer is queued, for whomever it is.
SayAnswer ==
  /\ answers > 0
  /\ answers' = answers - 1
  /\ outPackets' = QueuedTo(outPackets)
  /\ lastInput' = Nothing
  /\ UNCHANGED <<settings, spamCacheSize, spamCache, shrunk, heard>>

\* Update sends a packet.
SendPacket ==
  /\ outPackets > 0
  /\ outPackets' = outPackets - 1
  /\ lastInput' = Nothing
  /\ UNCHANGED <<settings, answers, spamCacheSize, spamCache, shrunk, heard>>

ChatNext == \/ \E u \in Speakers :
                 \/ \E t \in Texts : Say(u, t)
                 \/ \E c \in DOMAIN CommandAccess, w \in BOOLEAN : Command(u, c, w)
                 \/ AskTrigger(u)
            \/ \E n \in CacheSizes : SetCacheSize(n)
            \/ SayAnswer \/ SendPacket

-----------------------------------------------------------------------------
(* Properties.                                                             *)

\* AntiSpam has a user without access kicked for a line exactly if he said the same one
\* before among as many of the last lines as the cache is to hold, whoever said the others,
\* and whatever commands came in between; as long as its size was not set to less than it
\* had become, after which no line is dropped any more.
SpamIsRepetition ==
  lastInput.kind = "line" /\ ~shrunk => lastInput.spam = lastInput.repeated

\* "ignore user if user has no access and we are flooding": what he orders or asks adds
\* nothing to a queue of more than three packets.
FloodingIgnored ==
  [][lastInput'.kind \in {"command", "?trigger"} /\ lastInput'.access = 0 /\ Flooding
       => outPackets' <= outPackets]_chatVars
=============================================================================
