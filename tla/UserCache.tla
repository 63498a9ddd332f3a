----------------------------- MODULE UserCache ------------------------------
(***************************************************************************)
(* The two maps CBNET keeps of the people it knows (chop/bnet.cpp):        *)
(* m_Users, the cached user list, and m_Channel, who is in the channel.    *)
(* Both hold raw CUser pointers and SHARE the objects of names they have   *)
(* in common, so every operation that frees or replaces an entry of one    *)
(* map must look after the other.  The list refresh swaps all of m_Users   *)
(* for objects a database thread has allocated.                            *)
(*                                                                         *)
(* The heap is explicit: an object is an element of Obj, live while it is  *)
(* in heap, and reused after it is freed, as malloc does.                  *)
(***************************************************************************)
EXTENDS Naturals, FiniteSets

CONSTANTS
  Names,      \* user names, lowercased
  Obj,        \* addresses a CUser may be allocated at; bounds the heap
  Nil,        \* no entry in the map
  Levels,     \* access levels
  RootLevel,  \* 10 in the code
  Root,       \* m_RootAdmin
  MaxDuplicates  \* bounds the rows of one list that repeat a name

ASSUME CacheAssumption == /\ Levels \subseteq Nat
                          /\ 0 \in Levels
                          /\ RootLevel \in Levels
                          /\ Nil \notin Obj
                          /\ MaxDuplicates \in Nat

VARIABLES
  heap,       \* live CUser objects
  access,     \* m_Access of each object
  users,      \* m_Users
  channel,    \* m_Channel
  list,       \* the result of m_CallableUserList, owned by the callable
  listState,  \* "none" (NULL), "running" in its thread, "ready"
  misused     \* freed objects that were freed again or dereferenced since

vars == <<heap, access, users, channel, list, listState, misused>>

Ptr == Obj \cup {Nil}
Empty == [n \in Names |-> Nil]

TypeOK == /\ heap \subseteq Obj
          /\ access \in [Obj -> Levels]
          /\ users \in [Names -> Ptr]
          /\ channel \in [Names -> Ptr]
          /\ list \in [Names -> Ptr]
          /\ listState \in {"none", "running", "ready"}
          /\ misused \subseteq Ptr

\* The constructor starts the first list callable before anything else.
Init == /\ heap = {}
        /\ access = [o \in Obj |-> 0]
        /\ users = Empty
        /\ channel = Empty
        /\ list = Empty
        /\ listState = "running"
        /\ misused = {}

GetUserByName(n) == IF channel[n] # Nil THEN channel[n] ELSE users[n]

\* new CUser(n, a) at address o
Allocate(o, a) == /\ o \notin heap
                  /\ heap' = heap \cup {o}
                  /\ access' = [access EXCEPT ![o] = a]

-----------------------------------------------------------------------------
(* Chat events (ProcessChatEvent).                                         *)

\* TALK, WHISPER and EMOTE by somebody in neither map: a new entry of m_Users,
\* never of m_Channel.  Only talking and whispering make the root admin root.
StrangerSpeaks(n, emote) ==
  /\ GetUserByName(n) = Nil
  /\ \E o \in Obj :
       /\ Allocate(o, IF n = Root /\ ~emote THEN RootLevel ELSE 0)
       /\ users' = [users EXCEPT ![n] = o]
  /\ UNCHANGED <<channel, list, listState, misused>>

KnownSpeaks(n, emote) ==
  LET user == GetUserByName(n)
  IN  /\ user # Nil
      /\ access' = IF n = Root /\ ~emote THEN [access EXCEPT ![user] = RootLevel]
                   ELSE access
      /\ misused' = misused \cup ({user} \ heap)
      /\ UNCHANGED <<heap, users, channel, list, listState>>

\* JOIN and SHOWUSER.  The refused join of a banned user (bnet.cpp:1124) touches
\* neither map.
KnownJoins(n) ==
  LET user == GetUserByName(n)
  IN  /\ user # Nil
      /\ channel' = [channel EXCEPT ![n] = user]
      /\ misused' = misused \cup ({user} \ heap)
      /\ UNCHANGED <<heap, access, users, list, listState>>

StrangerJoins(n) ==
  /\ GetUserByName(n) = Nil
  /\ \E o \in Obj : Allocate(o, 0) /\ channel' = [channel EXCEPT ![n] = o]
  /\ UNCHANGED <<users, list, listState, misused>>

\* LEAVE erases the entry and frees nothing.
Leave(n) ==
  /\ channel[n] # Nil
  /\ channel' = [channel EXCEPT ![n] = Nil]
  /\ UNCHANGED <<heap, access, users, list, listState, misused>>

\* CHANNEL: the bot itself entered another channel.
EnterChannel ==
  /\ channel # Empty
  /\ channel' = Empty
  /\ UNCHANGED <<heap, access, users, list, listState, misused>>

-----------------------------------------------------------------------------
(* Results of user add and user delete callables (AddUser, RemoveUser).    *)

AddKnown(n, a) ==
  /\ users[n] # Nil
  /\ access' = [access EXCEPT ![users[n]] = a]
  /\ misused' = misused \cup ({users[n]} \ heap)
  /\ UNCHANGED <<heap, users, channel, list, listState>>

\* Mutant: the channel keeps pointing to the object AddUser frees.
AddNewKeepsChannel(n, a) ==
  /\ users[n] = Nil
  /\ \E o \in Obj \ heap :
       /\ heap' = (heap \ {channel[n]}) \cup {o}
       /\ access' = [access EXCEPT ![o] = a]
       /\ users' = [users EXCEPT ![n] = o]
  /\ UNCHANGED <<channel, list, listState, misused>>

AddNew(n, a) ==
  /\ users[n] = Nil
  /\ \E o \in Obj \ heap :
       /\ heap' = (heap \ {channel[n]}) \cup {o}
       /\ access' = [access EXCEPT ![o] = a]
       /\ users' = [users EXCEPT ![n] = o]
       /\ channel' = IF channel[n] = Nil THEN channel ELSE [channel EXCEPT ![n] = o]
  /\ misused' = misused \cup ({channel[n]} \ (heap \cup {Nil}))
  /\ UNCHANGED <<list, listState>>

\* Mutant: the user is freed although the channel still has him.
RemoveUserAlwaysFrees(n) ==
  /\ users[n] # Nil
  /\ users' = [users EXCEPT ![n] = Nil]
  /\ heap' = heap \ {users[n]}
  /\ misused' = misused \cup ({users[n]} \ heap)
  /\ UNCHANGED <<access, channel, list, listState>>

\* Mutant: a removed user in the channel keeps his access.
RemoveUserKeepsAccess(n) ==
  /\ users[n] # Nil
  /\ users' = [users EXCEPT ![n] = Nil]
  /\ heap' = IF channel[n] = Nil THEN heap \ {users[n]} ELSE heap
  /\ UNCHANGED <<access, channel, list, listState, misused>>

RemoveUser(n) ==
  /\ users[n] # Nil
  /\ users' = [users EXCEPT ![n] = Nil]
  /\ IF channel[n] # Nil
     THEN /\ access' = [access EXCEPT ![channel[n]] = 0]
          /\ misused' = misused \cup ({channel[n]} \ heap)
          /\ UNCHANGED heap
     ELSE /\ heap' = heap \ {users[n]}
          /\ misused' = misused \cup ({users[n]} \ heap)
          /\ UNCHANGED access
  /\ UNCHANGED <<channel, list, listState>>

-----------------------------------------------------------------------------
(* The user list refresh.                                                  *)

\* The 60 second timer expired; an expiry is possible whenever none is running.
StartList ==
  /\ listState = "none"
  /\ listState' = "running"
  /\ UNCHANGED <<heap, access, users, channel, list, misused>>

\* The database thread (MySQLUserList) allocates an object for each row; the table
\* has no unique key, and the object of an earlier row of the same name is lost.
FetchRows(rows, at, lvl, lost) ==
  LET fresh == {at[n] : n \in rows}
  IN  /\ listState = "running"
      /\ \A n \in Names : IF n \in rows THEN at[n] \in Obj \ heap ELSE at[n] = Nil
      /\ \A n, m \in rows : at[n] = at[m] => n = m
      /\ \A n \in Names \ rows : lvl[n] = 0
      /\ lost \cap fresh = {}
      /\ Cardinality(lost) <= IF rows = {} THEN 0 ELSE MaxDuplicates
      /\ list' = at
      /\ heap' = heap \cup fresh \cup lost
      /\ access' = [o \in Obj |-> IF o \in fresh
                                  THEN lvl[CHOOSE n \in rows : at[n] = o]
                                  ELSE access[o]]
      /\ listState' = "ready"
      /\ UNCHANGED <<users, channel, misused>>

FetchList ==
  \E rows \in SUBSET Names, at \in [Names -> Ptr], lvl \in [Names -> Levels],
     lost \in SUBSET (Obj \ heap) : FetchRows(rows, at, lvl, lost)

\* Mutant: only entries the list replaces are freed.
OldFreedReplacedOnly == {n \in Names : users[n] # Nil /\ list[n] # Nil}

\* First loop: an old entry is freed when the list has a new object for it or
\* when nobody else points to it.
OldFreed == {n \in Names : users[n] # Nil /\ (list[n] # Nil \/ channel[n] = Nil)}

\* Mutant: nobody's access is taken away by a refresh.
RevokedNobody == {n \in Names : FALSE}

\* First loop: a name that lost its row but is in the channel loses its access.
Revoked == {n \in Names : users[n] # Nil /\ list[n] = Nil /\ channel[n] # Nil}

\* Second loop: a name new to the list replaces its object of the channel.
ChannelFreed == {n \in Names : users[n] = Nil /\ list[n] # Nil /\ channel[n] # Nil}

Freed == [n \in OldFreed \cup ChannelFreed |->
            IF n \in OldFreed THEN users[n] ELSE channel[n]]
FreedObjects == {Freed[n] : n \in DOMAIN Freed}

\* Objects the two loops free twice, free when they are no longer live, or write
\* to after they are freed.
RefreshMisuse ==
  (FreedObjects \ heap)
    \cup {Freed[n] : n \in {m \in DOMAIN Freed :
                             \E k \in DOMAIN Freed \ {m} : Freed[k] = Freed[m]}}
    \cup ({channel[n] : n \in Revoked} \ (heap \ FreedObjects))

\* Mutant: the second loop is missing, and the channel keeps its own object of a
\* name that is new to the list.
RefreshUsersOneLoop ==
  /\ listState = "ready"
  /\ listState' = "none"
  /\ heap' = heap \ {users[n] : n \in OldFreed}
  /\ access' = [o \in Obj |-> IF \E n \in Revoked : channel[n] = o THEN 0 ELSE access[o]]
  /\ users' = list
  /\ channel' = [n \in Names |-> IF channel[n] # Nil /\ users[n] # Nil /\ list[n] # Nil
                                 THEN list[n] ELSE channel[n]]
  /\ list' = Empty
  /\ UNCHANGED misused

RefreshUsers ==
  /\ listState = "ready"
  /\ listState' = "none"
  /\ heap' = heap \ FreedObjects
  /\ access' = [o \in Obj |-> IF \E n \in Revoked : channel[n] = o THEN 0 ELSE access[o]]
  /\ users' = list
  /\ channel' = [n \in Names |-> IF channel[n] # Nil /\ list[n] # Nil THEN list[n]
                                 ELSE channel[n]]
  /\ list' = Empty
  /\ misused' = misused \cup RefreshMisuse

-----------------------------------------------------------------------------
ChatEvent ==
  \/ \E n \in Names, emote \in BOOLEAN : StrangerSpeaks(n, emote) \/ KnownSpeaks(n, emote)
  \/ \E n \in Names : KnownJoins(n) \/ StrangerJoins(n) \/ Leave(n)
  \/ EnterChannel

UserResult ==
  \E n \in Names : \/ RemoveUser(n)
                   \/ \E a \in Levels : AddKnown(n, a) \/ AddNew(n, a)

Next == ChatEvent \/ UserResult \/ StartList \/ FetchList \/ RefreshUsers

Spec == Init /\ [][Next]_vars

-----------------------------------------------------------------------------
(* Properties.                                                             *)

\* No operation frees or dereferences an object that is already freed, whatever
\* the order of chat events, add and delete results and list refreshes.
MemorySafe == misused = {}

\* Every pointer of the two maps and of a list in flight is to a live object.
NoDangling ==
  \A n \in Names : /\ users[n] \in heap \cup {Nil}
                   /\ channel[n] \in heap \cup {Nil}
                   /\ list[n] \in heap \cup {Nil}

\* A name has one object: the maps agree where both know it, different names
\* never share one, and a list in flight shares nothing with the maps.
Differ(p, q) == p # Nil => p # q

OneObjectPerName ==
  \A n \in Names :
    /\ users[n] # Nil /\ channel[n] # Nil => users[n] = channel[n]
    /\ \A m \in Names \ {n} : /\ Differ(users[n], users[m])
                              /\ Differ(users[n], channel[m])
                              /\ Differ(channel[n], channel[m])
                              /\ Differ(list[n], list[m])
    /\ \A m \in Names : Differ(list[n], users[m]) /\ Differ(list[n], channel[m])

\* Losing one's row takes the access away for good: somebody in the channel who
\* is not in the user list has no access, unless he is the root admin.
OnlyListedHaveAccess ==
  \A n \in Names \ {Root} :
    users[n] = Nil /\ channel[n] # Nil => access[channel[n]] = 0

Reachable == {users[n] : n \in Names} \cup {channel[n] : n \in Names}
               \cup {list[n] : n \in Names}
Leaked == heap \ Reachable

\* An object that was in use is lost without being freed only when somebody who
\* is not in the user list leaves the channel.
LeaksOnlyStrangers ==
  [][\A o \in (Leaked' \ Leaked) \cap heap :
       \E n \in Names : channel[n] = o /\ users[n] = Nil /\ channel'[n] = Nil]_vars

Level(n) == IF GetUserByName(n) = Nil THEN 0 ELSE access[GetUserByName(n)]

View == INSTANCE AccessView WITH
          listed <- {n \in Names : users[n] # Nil},
          present <- {n \in Names : channel[n] # Nil},
          level <- [n \in Names |-> Level(n)]

\* Seen from outside, the shared objects behave as one access level per name.
ImplementsView == View!ViewSpec
=============================================================================
