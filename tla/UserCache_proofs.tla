-------------------------- MODULE UserCache_proofs --------------------------
(***************************************************************************)
(* Memory safety of the user cache for any number of names and objects.    *)
(***************************************************************************)
EXTENDS UserCache, TLAPS

\* The part of the invariant that makes freeing safe.
HeapInv == TypeOK /\ NoDangling /\ OneObjectPerName /\ MemorySafe

\* HeapInv holds before the first event.
LEMMA InitHeapInv == Init => HeapInv
  BY CacheAssumption
  DEF Init, HeapInv, TypeOK, NoDangling, OneObjectPerName, MemorySafe, Empty, Ptr, Differ

\* Every chat event preserves HeapInv.
LEMMA ChatHeapInv == HeapInv /\ ChatEvent => HeapInv'
<1> SUFFICES ASSUME HeapInv, ChatEvent PROVE HeapInv'
  OBVIOUS
<1> USE CacheAssumption DEF HeapInv, TypeOK, NoDangling, OneObjectPerName, MemorySafe, Ptr, Differ
<1>1. ASSUME NEW n \in Names, NEW emote \in BOOLEAN, StrangerSpeaks(n, emote)
      PROVE  HeapInv'
  BY <1>1 DEF StrangerSpeaks, GetUserByName, Allocate
<1>2. ASSUME NEW n \in Names, NEW emote \in BOOLEAN, KnownSpeaks(n, emote)
      PROVE  HeapInv'
  BY <1>2 DEF KnownSpeaks, GetUserByName
<1>3. ASSUME NEW n \in Names, KnownJoins(n)
      PROVE  HeapInv'
  BY <1>3 DEF KnownJoins, GetUserByName
<1>4. ASSUME NEW n \in Names, StrangerJoins(n)
      PROVE  HeapInv'
  BY <1>4 DEF StrangerJoins, GetUserByName, Allocate
<1>5. ASSUME NEW n \in Names, Leave(n)
      PROVE  HeapInv'
  BY <1>5 DEF Leave
<1>6. ASSUME EnterChannel
      PROVE  HeapInv'
  BY <1>6 DEF EnterChannel, Empty
<1>7. QED
  BY <1>1, <1>2, <1>3, <1>4, <1>5, <1>6 DEF ChatEvent

\* The results of add and delete callables preserve HeapInv.
LEMMA ResultHeapInv == HeapInv /\ UserResult => HeapInv'
<1> SUFFICES ASSUME HeapInv, UserResult PROVE HeapInv'
  OBVIOUS
<1> USE CacheAssumption DEF HeapInv, TypeOK, NoDangling, OneObjectPerName, MemorySafe, Ptr, Differ
<1>1. ASSUME NEW n \in Names, RemoveUser(n)
      PROVE  HeapInv'
  <2>1. CASE channel[n] # Nil
    BY <1>1, <2>1 DEF RemoveUser
  <2>2. CASE channel[n] = Nil
    BY <1>1, <2>2 DEF RemoveUser
  <2>3. QED BY <2>1, <2>2
<1>2. ASSUME NEW n \in Names, NEW a \in Levels, AddKnown(n, a)
      PROVE  HeapInv'
  BY <1>2 DEF AddKnown
<1>3. ASSUME NEW n \in Names, NEW a \in Levels, AddNew(n, a)
      PROVE  HeapInv'
  BY <1>3 DEF AddNew
<1>4. QED
  BY <1>1, <1>2, <1>3 DEF UserResult

\* A list fetched by the database thread preserves HeapInv: its objects are new.
LEMMA FetchHeapInv == HeapInv /\ FetchList => HeapInv'
<1> SUFFICES ASSUME HeapInv, FetchList PROVE HeapInv'
  OBVIOUS
<1> USE CacheAssumption DEF HeapInv, TypeOK, NoDangling, OneObjectPerName, MemorySafe, Ptr, Differ
<1>1. PICK rows \in SUBSET Names, at \in [Names -> Ptr], lvl \in [Names -> Levels],
           lost \in SUBSET (Obj \ heap) : FetchRows(rows, at, lvl, lost)
  BY DEF FetchList
<1> USE DEF FetchRows
<1>3. access' \in [Obj -> Levels]
  <2>1. ASSUME NEW o \in Obj, o \in {at[n] : n \in rows}
        PROVE  (CHOOSE n \in rows : at[n] = o) \in Names
    BY <2>1
  <2>2. QED BY <1>1, <2>1
<1>4. TypeOK'
  BY <1>1, <1>3
<1>5. NoDangling'
  BY <1>1
<1>6. OneObjectPerName'
  BY <1>1
<1>7. QED BY <1>1, <1>4, <1>5, <1>6

\* The refresh frees every object at most once and keeps none it has freed.
LEMMA RefreshHeapInv == HeapInv /\ RefreshUsers => HeapInv'
<1> SUFFICES ASSUME HeapInv, RefreshUsers PROVE HeapInv'
  OBVIOUS
<1> USE CacheAssumption DEF HeapInv, TypeOK, NoDangling, OneObjectPerName, MemorySafe, Ptr, Differ
<1>1. \A n \in OldFreed \cup ChannelFreed :
        n \in Names /\ Freed[n] = (IF n \in OldFreed THEN users[n] ELSE channel[n])
  BY DEF Freed, OldFreed, ChannelFreed
<1>2. \A o \in FreedObjects : \E n \in OldFreed \cup ChannelFreed : o = Freed[n]
  BY DEF FreedObjects, Freed
<1>3. RefreshMisuse = {}
  <2>1. FreedObjects \subseteq heap
    BY <1>1, <1>2 DEF OldFreed, ChannelFreed
  <2>2. ASSUME NEW n \in DOMAIN Freed, NEW k \in DOMAIN Freed, n # k
        PROVE  Freed[n] # Freed[k]
    BY <2>2, <1>1 DEF Freed, OldFreed, ChannelFreed
  <2>3. ASSUME NEW n \in Revoked
        PROVE  channel[n] \in heap \ FreedObjects
    BY <1>1, <1>2 DEF OldFreed, ChannelFreed, Revoked
  <2>4. QED BY <2>1, <2>2, <2>3 DEF RefreshMisuse
<1>4. TypeOK'
  BY <1>3 DEF RefreshUsers, Empty
<1>5. NoDangling'
  <2>1. ASSUME NEW n \in Names
        PROVE  list[n] \notin FreedObjects
    BY <1>1, <1>2 DEF OldFreed, ChannelFreed
  <2>2. ASSUME NEW n \in Names, channel[n] # Nil, list[n] = Nil
        PROVE  channel[n] \notin FreedObjects
    BY <1>1, <1>2, <2>2 DEF OldFreed, ChannelFreed
  <2>3. QED BY <2>1, <2>2 DEF RefreshUsers, Empty
<1>6. OneObjectPerName'
  BY DEF RefreshUsers, Empty
<1>7. MemorySafe'
  BY <1>3 DEF RefreshUsers
<1>8. QED BY <1>4, <1>5, <1>6, <1>7

\* Every step preserves HeapInv.
LEMMA NextHeapInv == HeapInv /\ [Next]_vars => HeapInv'
<1> SUFFICES ASSUME HeapInv, [Next]_vars PROVE HeapInv'
  OBVIOUS
<1>1. CASE StartList
  BY <1>1 DEF StartList, HeapInv, TypeOK, NoDangling, OneObjectPerName, MemorySafe, Differ
<1>2. CASE UNCHANGED vars
  BY <1>2 DEF vars, HeapInv, TypeOK, NoDangling, OneObjectPerName, MemorySafe, Differ
<1>3. QED
  BY <1>1, <1>2, ChatHeapInv, ResultHeapInv, FetchHeapInv, RefreshHeapInv DEF Next

\* The variables keep their types.
THEOREM TypeCorrect == Spec => []TypeOK
<1>1. HeapInv => TypeOK
  BY DEF HeapInv
<1>2. QED BY InitHeapInv, NextHeapInv, <1>1, PTL DEF Spec

\* No object is freed twice or used after it was freed, however chat events, add
\* and delete results and list refreshes interleave.
THEOREM MemorySafety == Spec => []MemorySafe
<1>1. HeapInv => MemorySafe
  BY DEF HeapInv
<1>2. QED BY InitHeapInv, NextHeapInv, <1>1, PTL DEF Spec

\* Neither map keeps a pointer to an object that was freed.
THEOREM NothingDangles == Spec => []NoDangling
<1>1. HeapInv => NoDangling
  BY DEF HeapInv
<1>2. QED BY InitHeapInv, NextHeapInv, <1>1, PTL DEF Spec

\* The two maps always agree on the object of a name they both know.
THEOREM OneObject == Spec => []OneObjectPerName
<1>1. HeapInv => OneObjectPerName
  BY DEF HeapInv
<1>2. QED BY InitHeapInv, NextHeapInv, <1>1, PTL DEF Spec
-----------------------------------------------------------------------------
\* The invariant that carries access: HeapInv, for a name's level is its object's.
AccessInv == HeapInv /\ OnlyListedHaveAccess

\* Every step preserves AccessInv.
LEMMA NextAccessInv == AccessInv /\ [Next]_vars => AccessInv'
<1> SUFFICES ASSUME AccessInv, [Next]_vars PROVE OnlyListedHaveAccess'
  BY NextHeapInv DEF AccessInv
<1> USE CacheAssumption DEF AccessInv, HeapInv, TypeOK, NoDangling, OneObjectPerName,
                            OnlyListedHaveAccess, Ptr, Differ
<1>1. ASSUME NEW n \in Names, NEW emote \in BOOLEAN, StrangerSpeaks(n, emote)
      PROVE  OnlyListedHaveAccess'
  BY <1>1 DEF StrangerSpeaks, GetUserByName, Allocate
<1>2. ASSUME NEW n \in Names, NEW emote \in BOOLEAN, KnownSpeaks(n, emote)
      PROVE  OnlyListedHaveAccess'
  BY <1>2 DEF KnownSpeaks, GetUserByName
<1>3. ASSUME NEW n \in Names, KnownJoins(n)
      PROVE  OnlyListedHaveAccess'
  BY <1>3 DEF KnownJoins, GetUserByName
<1>4. ASSUME NEW n \in Names, StrangerJoins(n)
      PROVE  OnlyListedHaveAccess'
  BY <1>4 DEF StrangerJoins, GetUserByName, Allocate
<1>5. ASSUME NEW n \in Names, Leave(n)
      PROVE  OnlyListedHaveAccess'
  BY <1>5 DEF Leave
<1>6. CASE EnterChannel
  BY <1>6 DEF EnterChannel, Empty
<1>7. ASSUME NEW n \in Names, RemoveUser(n)
      PROVE  OnlyListedHaveAccess'
  BY <1>7 DEF RemoveUser
<1>8. ASSUME NEW n \in Names, NEW a \in Levels, AddKnown(n, a)
      PROVE  OnlyListedHaveAccess'
  BY <1>8 DEF AddKnown
<1>9. ASSUME NEW n \in Names, NEW a \in Levels, AddNew(n, a)
      PROVE  OnlyListedHaveAccess'
  BY <1>9 DEF AddNew
<1>10. CASE StartList
  BY <1>10 DEF StartList
<1>11. CASE FetchList
  <2>1. PICK rows \in SUBSET Names, at \in [Names -> Ptr], lvl \in [Names -> Levels],
             lost \in SUBSET (Obj \ heap) : FetchRows(rows, at, lvl, lost)
    BY <1>11 DEF FetchList
  <2>2. QED BY <2>1 DEF FetchRows
<1>12. CASE RefreshUsers
  BY <1>12 DEF RefreshUsers, Revoked
<1>13. CASE UNCHANGED vars
  BY <1>13 DEF vars
<1>14. QED
  BY <1>1, <1>2, <1>3, <1>4, <1>5, <1>6, <1>7, <1>8, <1>9, <1>10, <1>11, <1>12, <1>13
  DEF Next, ChatEvent, UserResult

\* Nobody in the channel has access who is not in the user list, except the root
\* admin: a revoked access cannot survive in the channel's copy of the user.
THEOREM RevocationIsComplete == Spec => []OnlyListedHaveAccess
<1>1. Init => AccessInv
  BY InitHeapInv DEF Init, Empty, AccessInv, OnlyListedHaveAccess
<1>2. AccessInv => OnlyListedHaveAccess
  BY DEF AccessInv
<1>3. QED BY <1>1, <1>2, NextAccessInv, PTL DEF Spec

-----------------------------------------------------------------------------
\* Talk and emotes are Speaks of the view.
LEMMA SpeakSimulates ==
  ASSUME HeapInv, NEW n \in Names, NEW emote \in BOOLEAN,
         StrangerSpeaks(n, emote) \/ KnownSpeaks(n, emote)
  PROVE  View!ViewNext
<1> USE CacheAssumption DEF HeapInv, TypeOK, NoDangling, OneObjectPerName, Ptr, Differ
<1>1. View!Speaks(n, ~emote)
  <2>1. CASE StrangerSpeaks(n, emote)
    BY <2>1 DEF StrangerSpeaks, Allocate, View!Speaks, Level, GetUserByName
  <2>2. CASE KnownSpeaks(n, emote)
    BY <2>2 DEF KnownSpeaks, View!Speaks, Level, GetUserByName
  <2>3. QED BY <2>1, <2>2
<1>2. QED BY <1>1 DEF View!ViewNext

\* Joins are Joins of the view.
LEMMA JoinSimulates ==
  ASSUME HeapInv, NEW n \in Names, KnownJoins(n) \/ StrangerJoins(n)
  PROVE  View!ViewNext
<1> USE CacheAssumption DEF HeapInv, TypeOK, NoDangling, OneObjectPerName, Ptr, Differ
<1>1. View!Joins(n)
  <2>1. CASE KnownJoins(n)
    BY <2>1 DEF KnownJoins, View!Joins, Level, GetUserByName
  <2>2. CASE StrangerJoins(n)
    BY <2>2 DEF StrangerJoins, Allocate, View!Joins, Level, GetUserByName
  <2>3. QED BY <2>1, <2>2
<1>2. QED BY <1>1 DEF View!ViewNext

\* Leaving and the bot's change of channel are Departs of the view.
LEMMA DepartSimulates ==
  ASSUME HeapInv, (\E n \in Names : Leave(n)) \/ EnterChannel
  PROVE  View!ViewNext
<1> USE CacheAssumption DEF HeapInv, TypeOK, NoDangling, OneObjectPerName, Ptr, Differ
<1>1. ASSUME NEW n \in Names, Leave(n)
      PROVE  View!Departs({n})
  BY <1>1 DEF Leave, View!Departs, Level, GetUserByName
<1>2. ASSUME EnterChannel
      PROVE  View!Departs(Names)
  BY <1>2 DEF EnterChannel, Empty, View!Departs, Level, GetUserByName
<1> HIDE DEF HeapInv
<1>3. \A gone \in SUBSET Names : View!Departs(gone) => View!ViewNext
  BY DEF View!ViewNext
<1>4. QED BY <1>1, <1>2, <1>3

\* RemoveUser is IsRemoved of the view.
LEMMA RemoveSimulates ==
  ASSUME HeapInv, NEW n \in Names, RemoveUser(n)
  PROVE  View!ViewNext
<1> USE CacheAssumption DEF HeapInv, TypeOK, NoDangling, OneObjectPerName, Ptr, Differ
<1>1. \A m \in Names : (users[m] # Nil)' <=> users[m] # Nil /\ m # n
  BY DEF RemoveUser
<1>2. \A m \in Names : Level(m)' = IF m = n THEN 0 ELSE Level(m)
  <2>1. CASE channel[n] # Nil
    BY <2>1 DEF RemoveUser, Level, GetUserByName
  <2>2. CASE channel[n] = Nil
    BY <2>2 DEF RemoveUser, Level, GetUserByName
  <2>3. QED BY <2>1, <2>2
<1>3. UNCHANGED channel /\ users[n] # Nil
  BY DEF RemoveUser
<1>4. View!IsRemoved(n)
  BY <1>1, <1>2, <1>3, ZenonT(60) DEF View!IsRemoved
<1>5. QED BY <1>4 DEF View!ViewNext

\* AddUser is IsAdded of the view.
LEMMA AddSimulates ==
  ASSUME HeapInv, NEW n \in Names, NEW a \in Levels,
         AddKnown(n, a) \/ AddNew(n, a)
  PROVE  View!ViewNext
<1> USE CacheAssumption DEF HeapInv, TypeOK, NoDangling, OneObjectPerName, Ptr, Differ
<1>1. \A m \in Names : (users[m] # Nil)' <=> users[m] # Nil \/ m = n
  BY DEF AddNew, AddKnown
<1>2. \A m \in Names : (channel[m] # Nil)' <=> channel[m] # Nil
  BY DEF AddNew, AddKnown
<1>3. \A m \in Names : Level(m)' = IF m = n THEN a ELSE Level(m)
  <2>1. CASE AddKnown(n, a)
    BY <2>1 DEF AddKnown, Level, GetUserByName
  <2>2. CASE AddNew(n, a)
    BY <2>2 DEF AddNew, Level, GetUserByName
  <2>3. QED BY <2>1, <2>2
<1> HIDE DEF HeapInv
<1>4. View!IsAdded(n, a)
  <2>1. {m \in Names : users[m] # Nil}' = {m \in Names : users[m] # Nil} \cup {n}
    BY <1>1
  <2>2. {m \in Names : channel[m] # Nil}' = {m \in Names : channel[m] # Nil}
    BY <1>2
  <2>3. [m \in Names |-> Level(m)]' = [[m \in Names |-> Level(m)] EXCEPT ![n] = a]
    BY <1>3
  <2>4. QED BY <2>1, <2>2, <2>3 DEF View!IsAdded
<1>5. QED BY <1>4 DEF View!ViewNext

\* The refresh is IsReplacedBy of the view, for the rows of the list.
LEMMA RefreshSimulates ==
  ASSUME HeapInv, RefreshUsers
  PROVE  View!ViewNext
<1> DEFINE S == {m \in Names : list[m] # Nil}
           rows == [m \in S |-> access[list[m]]]
<1> USE CacheAssumption DEF HeapInv, TypeOK, NoDangling, OneObjectPerName, Ptr, Differ
<1>1. rows \in [S -> Levels] /\ S \in SUBSET Names /\ DOMAIN rows = S
  OBVIOUS
<1>2. {m \in Names : users[m] # Nil}' = S
  BY DEF RefreshUsers
<1>3. {m \in Names : channel[m] # Nil}' = {m \in Names : channel[m] # Nil}
  BY DEF RefreshUsers
<1>4. ASSUME NEW m \in S
      PROVE  Level(m)' = rows[m]
  <2>1. users'[m] = list[m] /\ (channel'[m] = Nil \/ channel'[m] = list[m])
    BY DEF RefreshUsers
  <2>2. \A k \in Revoked : channel[k] # list[m]
    BY DEF Revoked
  <2>3. access'[list[m]] = access[list[m]]
    BY <2>2 DEF RefreshUsers
  <2>4. QED BY <2>1, <2>3 DEF Level, GetUserByName
<1>5. ASSUME NEW m \in Names, m \notin S, users[m] # Nil
      PROVE  Level(m)' = 0
  BY <1>5 DEF RefreshUsers, Revoked, Level, GetUserByName
<1>6. ASSUME NEW m \in Names, m \notin S, users[m] = Nil
      PROVE  Level(m)' = Level(m)
  BY <1>6 DEF RefreshUsers, Revoked, Level, GetUserByName
<1> HIDE DEF HeapInv, rows
<1>7. [m \in Names |-> Level(m)]'
        = [m \in Names |-> IF m \in DOMAIN rows THEN rows[m]
                           ELSE IF m \in {k \in Names : users[k] # Nil} THEN 0
                           ELSE [k \in Names |-> Level(k)][m]]
  BY <1>1, <1>4, <1>5, <1>6
<1>8. PICK T \in SUBSET Names : T = S
  BY <1>1
<1>9. PICK r \in [T -> Levels] : r = rows
  BY <1>1, <1>8
<1>10. View!IsReplacedBy(r)
  BY <1>1, <1>2, <1>3, <1>7, <1>9 DEF View!IsReplacedBy
<1>11. QED BY <1>10, Zenon DEF View!ViewNext

\* Every step of the cache is a step of the view or leaves the view unchanged.
LEMMA StepSimulation == HeapInv /\ [Next]_vars => [View!ViewNext]_(View!viewVars)
<1> SUFFICES ASSUME HeapInv, [Next]_vars
             PROVE  View!ViewNext \/ UNCHANGED View!viewVars
  OBVIOUS
<1>1. ASSUME UNCHANGED <<users, channel>>,
             \A m \in Names : Level(m)' = Level(m)
      PROVE  UNCHANGED View!viewVars
  BY <1>1 DEF View!viewVars
<1>2. CASE StartList \/ UNCHANGED vars
  BY <1>1, <1>2 DEF StartList, vars, Level, GetUserByName
<1>3. CASE FetchList
  <2>1. PICK rows \in SUBSET Names, at \in [Names -> Ptr], lvl \in [Names -> Levels],
             lost \in SUBSET (Obj \ heap) : FetchRows(rows, at, lvl, lost)
    BY <1>3 DEF FetchList
  <2>2. \A m \in Names : Level(m)' = Level(m)
    BY <2>1, CacheAssumption
    DEF FetchRows, HeapInv, TypeOK, NoDangling, Ptr, Level, GetUserByName
  <2>3. UNCHANGED <<users, channel>>
    BY <2>1 DEF FetchRows
  <2>4. QED BY <1>1, <2>2, <2>3
<1>4. QED
  BY <1>2, <1>3, SpeakSimulates, JoinSimulates, DepartSimulates, RemoveSimulates,
     AddSimulates, RefreshSimulates
  DEF Next, ChatEvent, UserResult

\* The pointer-level cache implements the view of one access level per name.
THEOREM Implementation == Spec => ImplementsView
<1>1. Init => View!ViewInit
  BY DEF Init, Empty, View!ViewInit, Level, GetUserByName
<1>2. QED
  BY <1>1, InitHeapInv, NextHeapInv, StepSimulation, PTL
  DEF Spec, ImplementsView, View!ViewSpec
-----------------------------------------------------------------------------
(* Leaks.  A list that is not ready holds nothing, so that the next one     *)
(* replaces no pointers; everything else a step unlinks it frees, or the    *)
(* other map has it too, unless it is the object of a stranger.             *)

LeakInv == HeapInv /\ (listState # "ready" => list = Empty)

LEMMA NextLeakInv == LeakInv /\ [Next]_vars => LeakInv'
<1> SUFFICES ASSUME LeakInv, [Next]_vars PROVE (listState # "ready" => list = Empty)'
  BY NextHeapInv DEF LeakInv
<1> USE DEF LeakInv
<1>1. CASE ChatEvent
  BY <1>1 DEF ChatEvent, StrangerSpeaks, KnownSpeaks, KnownJoins, StrangerJoins, Leave,
              EnterChannel, Empty
<1>2. CASE UserResult
  BY <1>2 DEF UserResult, RemoveUser, AddKnown, AddNew, Empty
<1>3. CASE StartList \/ FetchList \/ RefreshUsers \/ UNCHANGED vars
  BY <1>3 DEF StartList, FetchList, FetchRows, RefreshUsers, vars, Empty
<1> QED
  BY <1>1, <1>2, <1>3 DEF Next

\* What some map or list points to.
Points(o) == \E n \in Names : users[n] = o \/ channel[n] = o \/ list[n] = o

LEMMA Kept ==
  ASSUME LeakInv, NEW o \in heap, Points(o), o \in heap', [Next]_vars,
         ~ \E n \in Names : channel[n] = o /\ users[n] = Nil /\ channel'[n] = Nil
  PROVE  Points(o)'
<1> USE CacheAssumption DEF LeakInv, HeapInv, TypeOK, NoDangling, OneObjectPerName, Ptr,
                            Differ, Points
<1>1. ASSUME NEW n \in Names, NEW emote \in BOOLEAN, StrangerSpeaks(n, emote)
      PROVE  Points(o)'
  BY <1>1 DEF StrangerSpeaks, GetUserByName, Allocate
<1>2. ASSUME NEW n \in Names, NEW emote \in BOOLEAN, KnownSpeaks(n, emote)
      PROVE  Points(o)'
  BY <1>2 DEF KnownSpeaks
<1>3. ASSUME NEW n \in Names, KnownJoins(n) \/ StrangerJoins(n)
      PROVE  Points(o)'
  BY <1>3 DEF KnownJoins, StrangerJoins, GetUserByName, Allocate
<1>4. ASSUME NEW n \in Names, Leave(n)
      PROVE  Points(o)'
  BY <1>4 DEF Leave
<1>5. CASE EnterChannel
  BY <1>5 DEF EnterChannel, Empty
<1>6. ASSUME NEW n \in Names, RemoveUser(n)
      PROVE  Points(o)'
  BY <1>6 DEF RemoveUser
<1>7. ASSUME NEW n \in Names, NEW a \in Levels, AddKnown(n, a) \/ AddNew(n, a)
      PROVE  Points(o)'
  BY <1>7 DEF AddKnown, AddNew
<1>8. CASE FetchList
  <2>1. UNCHANGED <<users, channel>> /\ listState = "running"
    BY <1>8 DEF FetchList, FetchRows
  <2> QED
    BY <2>1 DEF Empty
<1>9. CASE RefreshUsers
  <2> PICK n \in Names : users[n] = o \/ channel[n] = o \/ list[n] = o
    OBVIOUS
  <2>1. \A m \in OldFreed \cup ChannelFreed : Freed[m] \notin heap'
    BY <1>9 DEF RefreshUsers, FreedObjects, Freed
  <2>2. n \notin OldFreed \/ o # users[n]
    BY <2>1 DEF Freed
  <2>3. n \notin ChannelFreed \/ o # channel[n]
    BY <2>1, ZenonT(60) DEF Freed, OldFreed, ChannelFreed
  <2> QED
    BY <1>9, <2>2, <2>3 DEF RefreshUsers, OldFreed, ChannelFreed
<1>10. CASE StartList \/ UNCHANGED vars
  BY <1>10 DEF StartList, vars
<1> QED
  BY <1>1, <1>2, <1>3, <1>4, <1>5, <1>6, <1>7, <1>8, <1>9, <1>10
  DEF Next, ChatEvent, UserResult

\* An object in use is lost without being freed only if a stranger leaves
\* (bnet.cpp:1153 and 1187).
THEOREM LeaksAreStrangers == Spec => LeaksOnlyStrangers
<1>1. Init => LeakInv
  BY InitHeapInv DEF Init, LeakInv
<1>2. ASSUME LeakInv, [Next]_vars
      PROVE  [\A o \in (Leaked' \ Leaked) \cap heap :
                \E n \in Names : channel[n] = o /\ users[n] = Nil /\ channel'[n] = Nil]_vars
  <2> SUFFICES ASSUME NEW o \in (Leaked' \ Leaked) \cap heap
               PROVE  \E n \in Names : channel[n] = o /\ users[n] = Nil /\ channel'[n] = Nil
    OBVIOUS
  <2>1. o \in heap /\ o \in heap' /\ Points(o) /\ ~Points(o)'
    BY DEF Leaked, Reachable, Points
  <2> QED
    BY <1>2, <2>1, Kept
<1> QED
  BY <1>1, <1>2, NextLeakInv, PTL DEF Spec, LeaksOnlyStrangers
=============================================================================
