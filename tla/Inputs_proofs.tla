---------------------------- MODULE Inputs_proofs ----------------------------
(***************************************************************************)
(* What the programs behind the inputs promise for any number of users,    *)
(* bots, servers and lines: the counts of votekick, the scores of trivia,  *)
(* the order of console lines, the games of gamequeue, the commands that   *)
(* the queue plugin gives to others, and the lines kept against spam.      *)
(***************************************************************************)
EXTENDS Trivia, VoteKick, ConsoleInput, GameQueue, ChatQueue, ChatInput, FiniteSetTheorems, SequenceTheorems, TLAPS

-----------------------------------------------------------------------------
(* votekick.  A count is an integer, and only finitely many users vote in  *)
(* the time a vote lasts, so that another one adds one.                    *)

VoteTypeOK ==
  /\ votekicks \in [Victims -> [count : Int, voted : SUBSET Voters, open : BOOLEAN]]
  /\ ayes \in [Victims -> SUBSET Voters]
  /\ noes \in [Victims -> SUBSET Voters]

VotersFinite == \A v \in Victims : IsFiniteSet(ayes[v]) /\ IsFiniteSet(noes[v])

VoteInv == VoteTypeOK /\ VotersFinite /\ VotesAreCounted

LEMMA VoteInitInv == VoteInit => VoteInv
<1> SUFFICES ASSUME VoteInit PROVE VoteInv
  OBVIOUS
<1>1. IsFiniteSet({}) /\ Cardinality({}) = 0
  BY FS_EmptySet
<1>2. VoteTypeOK
  BY DEF VoteInit, VoteTypeOK, NoVote
<1>3. VotersFinite
  BY <1>1 DEF VoteInit, VotersFinite
<1>4. VotesAreCounted
  BY <1>1 DEF VoteInit, VotesAreCounted, NoVote
<1> QED
  BY <1>2, <1>3, <1>4 DEF VoteInv

\* A vote for, or against, of somebody who has not voted.
LEMMA YesStep ==
  ASSUME VoteInv, NEW u \in Voters, NEW h \in Hosts, NEW v \in Victims, VoteYes(u, h, v)
  PROVE  VoteInv'
<1>1. CASE u \in votekicks[v].voted
  BY <1>1 DEF VoteYes, VoteInv, VoteTypeOK, VotersFinite, VotesAreCounted
<1>2. CASE u \notin votekicks[v].voted
  <2>1. /\ votekicks' = [votekicks EXCEPT ![v] = [count |-> @.count + 1,
                                  voted |-> @.voted \cup {u}, open |-> TRUE]]
        /\ ayes' = [ayes EXCEPT ![v] = @ \cup {u}]
        /\ noes' = noes
    BY <1>2 DEF VoteYes
  <2>2. u \notin ayes[v] /\ u \notin noes[v]
    BY <1>2 DEF VoteInv, VotesAreCounted
  <2>3. /\ IsFiniteSet(ayes[v] \cup {u})
        /\ Cardinality(ayes[v] \cup {u}) = Cardinality(ayes[v]) + 1
    BY <2>2, FS_AddElement DEF VoteInv, VotersFinite
  <2>4. Cardinality(ayes[v]) \in Nat /\ Cardinality(noes[v]) \in Nat
    BY FS_CardinalityType DEF VoteInv, VotersFinite
  <2>5. VoteTypeOK'
    BY <2>1 DEF VoteInv, VoteTypeOK
  <2>6. VotersFinite'
    BY <2>1, <2>3 DEF VoteInv, VoteTypeOK, VotersFinite
  <2>7. ASSUME NEW w \in Victims
        PROVE  /\ votekicks'[w].count = Cardinality(ayes'[w]) - Cardinality(noes'[w])
               /\ ayes'[w] \cap noes'[w] = {}
               /\ votekicks'[w].voted = ayes'[w] \cup noes'[w]
    <3>1. CASE w = v
      <4>1. /\ votekicks'[v].count = votekicks[v].count + 1
            /\ votekicks'[v].voted = votekicks[v].voted \cup {u}
            /\ ayes'[v] = ayes[v] \cup {u}
            /\ noes'[v] = noes[v]
        BY <2>1 DEF VoteInv, VoteTypeOK
      <4>2. /\ votekicks[v].count = Cardinality(ayes[v]) - Cardinality(noes[v])
            /\ ayes[v] \cap noes[v] = {}
            /\ votekicks[v].voted = ayes[v] \cup noes[v]
        BY DEF VoteInv, VotesAreCounted
      <4>3. votekicks'[v].count = Cardinality(ayes'[v]) - Cardinality(noes'[v])
        BY <2>3, <2>4, <4>1, <4>2
      <4> QED
        BY <2>2, <3>1, <4>1, <4>2, <4>3
    <3>2. CASE w # v
      BY <2>1, <3>2 DEF VoteInv, VoteTypeOK, VotesAreCounted
    <3> QED
      BY <3>1, <3>2
  <2> QED
    BY <2>5, <2>6, <2>7 DEF VoteInv, VotesAreCounted
<1> QED
  BY <1>1, <1>2

LEMMA NoStep ==
  ASSUME VoteInv, NEW u \in Voters, NEW h \in Hosts, NEW v \in Victims, VoteNo(u, h, v)
  PROVE  VoteInv'
<1>1. CASE ~votekicks[v].open \/ u \in votekicks[v].voted
  BY <1>1 DEF VoteNo, VoteInv, VoteTypeOK, VotersFinite, VotesAreCounted
<1>2. CASE ~(~votekicks[v].open \/ u \in votekicks[v].voted)
  <2>1. /\ votekicks' = [votekicks EXCEPT ![v] = [count |-> @.count - 1,
                                  voted |-> @.voted \cup {u}, open |-> TRUE]]
        /\ noes' = [noes EXCEPT ![v] = @ \cup {u}]
        /\ ayes' = ayes
    BY <1>2 DEF VoteNo
  <2>2. u \notin ayes[v] /\ u \notin noes[v]
    BY <1>2 DEF VoteInv, VotesAreCounted
  <2>3. /\ IsFiniteSet(noes[v] \cup {u})
        /\ Cardinality(noes[v] \cup {u}) = Cardinality(noes[v]) + 1
    BY <2>2, FS_AddElement DEF VoteInv, VotersFinite
  <2>4. Cardinality(ayes[v]) \in Nat /\ Cardinality(noes[v]) \in Nat
    BY FS_CardinalityType DEF VoteInv, VotersFinite
  <2>5. VoteTypeOK'
    BY <2>1 DEF VoteInv, VoteTypeOK
  <2>6. VotersFinite'
    BY <2>1, <2>3 DEF VoteInv, VoteTypeOK, VotersFinite
  <2>7. ASSUME NEW w \in Victims
        PROVE  /\ votekicks'[w].count = Cardinality(ayes'[w]) - Cardinality(noes'[w])
               /\ ayes'[w] \cap noes'[w] = {}
               /\ votekicks'[w].voted = ayes'[w] \cup noes'[w]
    <3>1. CASE w = v
      <4>1. /\ votekicks'[v].count = votekicks[v].count - 1
            /\ votekicks'[v].voted = votekicks[v].voted \cup {u}
            /\ noes'[v] = noes[v] \cup {u}
            /\ ayes'[v] = ayes[v]
        BY <2>1 DEF VoteInv, VoteTypeOK
      <4>2. /\ votekicks[v].count = Cardinality(ayes[v]) - Cardinality(noes[v])
            /\ ayes[v] \cap noes[v] = {}
            /\ votekicks[v].voted = ayes[v] \cup noes[v]
        BY DEF VoteInv, VotesAreCounted
      <4>3. votekicks'[v].count = Cardinality(ayes'[v]) - Cardinality(noes'[v])
        BY <2>3, <2>4, <4>1, <4>2
      <4> QED
        BY <2>2, <3>1, <4>1, <4>2, <4>3
    <3>2. CASE w # v
      BY <2>1, <3>2 DEF VoteInv, VoteTypeOK, VotesAreCounted
    <3> QED
      BY <3>1, <3>2
  <2> QED
    BY <2>5, <2>6, <2>7 DEF VoteInv, VotesAreCounted
<1> QED
  BY <1>1, <1>2

LEMMA VoteStep == VoteInv /\ [VoteNext]_voteVars => VoteInv'
<1> SUFFICES ASSUME VoteInv, [VoteNext]_voteVars PROVE VoteInv'
  OBVIOUS
<1>1. CASE \E u \in Voters, h \in Hosts, v \in Victims : VoteYes(u, h, v) \/ VoteNo(u, h, v)
  BY <1>1, YesStep, NoStep
<1>2. CASE \E v \in Victims : Expire(v)
  <2> PICK v \in Victims : Expire(v)
    BY <1>2
  <2>1. IsFiniteSet({}) /\ Cardinality({}) = 0
    BY FS_EmptySet
  <2>2. VoteTypeOK'
    BY DEF Expire, VoteInv, VoteTypeOK, NoVote
  <2>3. VotersFinite'
    BY <2>1 DEF Expire, VoteInv, VoteTypeOK, VotersFinite
  <2>4. VotesAreCounted'
    BY <2>1 DEF Expire, VoteInv, VoteTypeOK, VotesAreCounted, NoVote
  <2> QED
    BY <2>2, <2>3, <2>4 DEF VoteInv
<1>3. CASE \/ \E h \in Hosts : OtherCommand(h) \/ SendChat(h)
           \/ \E v \in Victims : MinutePasses(v)
           \/ UNCHANGED voteVars
  <2>1. UNCHANGED <<votekicks, ayes, noes>>
    BY <1>3 DEF OtherCommand, SendChat, MinutePasses, voteVars
  <2> QED
    BY <2>1 DEF VoteInv, VoteTypeOK, VotersFinite, VotesAreCounted
<1> QED
  BY <1>1, <1>2, <1>3 DEF VoteNext

\* However many users vote, from whatever servers and however often, the count of a vote
\* is that of its voters for less those against (votekick.py:62-98).
THEOREM VotesCounted == VoteInit /\ [][VoteNext]_voteVars => []VotesAreCounted
<1>1. VoteInv => VotesAreCounted
  BY DEF VoteInv
<1> QED
  BY <1>1, VoteInitInv, VoteStep, PTL

-----------------------------------------------------------------------------
(* trivia.  The cache and the table are compared through the row of a      *)
(* player that a start of the program reads, the last: the cache knows its *)
(* number or none, and holds at least what it holds.                       *)

Row == [key : Players, val : Nat]

TriviaTypeOK ==
  /\ loaded \in BOOLEAN /\ stage \in Nat /\ rows \in Seq(Row)
  /\ scores \in [Players -> Nat] /\ userids \in [Players -> Nat]
  /\ announced \in [Players -> Nat]
  /\ earned \in [Players -> Nat] /\ spoilt \in [Players -> Nat]

\* A player who has rows has a last one.
LastsExist == \A p \in Players : RowsOf(p) # {} =>
                /\ LastRow(p) \in RowsOf(p)
                /\ \A j \in RowsOf(p) : j <= LastRow(p)

IdsAreLast == \A p \in Players : userids[p] # 0 =>
                userids[p] = LastRow(p) /\ RowsOf(p) # {}

CacheAhead == loaded => \A p \in Players : Stored(p) <= scores[p]

Due(p) == earned[p] + spoilt[p]

RowsEarned == \A i \in DOMAIN rows : rows[i].val <= Due(rows[i].key)

\* Nobody has been credited for a question that is open.
OpenIsUnsolved == stage > 0 => solvers = {}

TriviaInv == /\ TriviaTypeOK /\ LastsExist /\ IdsAreLast /\ CacheAhead /\ RowsEarned
             /\ OpenIsUnsolved /\ PointsAreEarned /\ ScoresSurvive

LEMMA Highest ==
  ASSUME NEW S \in SUBSET Nat, NEW i \in S, \A j \in S : j <= i
  PROVE  (CHOOSE k \in S : \A j \in S : j <= k) = i
<1> DEFINE k == CHOOSE k \in S : \A j \in S : j <= k
<1>1. k \in S /\ \A j \in S : j <= k
  OBVIOUS
<1> HIDE DEF k
<1>2. k = i
  BY <1>1
<1> QED
  BY <1>2 DEF k

\* One row, written a number of times.
LEMMA Copies ==
  ASSUME NEW S, NEW r \in S, NEW n \in Nat
  PROVE  /\ [i \in 1..n |-> r] \in Seq(S)
         /\ Len([i \in 1..n |-> r]) = n
         /\ \A j \in 1..n : [i \in 1..n |-> r][j] = r
<1>1. [i \in 1..n |-> r] \in [1..n -> S]
  OBVIOUS
<1>2. [i \in 1..n |-> r] \in Seq(S)
  BY <1>1, SeqDef
<1>3. /\ Len([i \in 1..n |-> r]) \in Nat
      /\ DOMAIN [i \in 1..n |-> r] = 1..Len([i \in 1..n |-> r])
  BY <1>2, LenProperties
<1>4. DOMAIN [i \in 1..n |-> r] = 1..n
  OBVIOUS
<1> QED
  BY <1>2, <1>3, <1>4

LEMMA TriviaInitInv == TriviaInit => TriviaInv
<1> SUFFICES ASSUME TriviaInit PROVE TriviaInv
  OBVIOUS
<1>1. rows = <<>> /\ DOMAIN rows = {} /\ rows \in Seq(Row)
  BY EmptySeq DEF TriviaInit
<1>2. \A p \in Players : RowsOf(p) = {} /\ Stored(p) = 0
  BY <1>1 DEF RowsOf, Stored
<1>3. TriviaTypeOK
  BY <1>1 DEF TriviaInit, None0, TriviaTypeOK
<1>4. LastsExist /\ IdsAreLast /\ RowsEarned
  <2>1. \A p \in Players : userids[p] = 0
    BY DEF TriviaInit, None0
  <2> QED
    BY <1>1, <1>2, <2>1 DEF LastsExist, IdsAreLast, RowsEarned
<1>5. CacheAhead /\ OpenIsUnsolved /\ PointsAreEarned /\ ScoresSurvive
  BY <1>2 DEF TriviaInit, None0, CacheAhead, OpenIsUnsolved, PointsAreEarned, ScoresSurvive
<1> QED
  BY <1>3, <1>4, <1>5 DEF TriviaInv

\* What a point does to the table: the rows of the others stay, and those of the player
\* have a last one, which holds the new score if it was written at all, and whose number
\* the cache knows or knows not.
RowsAfter(p, e) ==
  /\ rows' \in Seq(Row)
  /\ \A q \in Players \ {p} : RowsOf(q)' = RowsOf(q) /\ Stored(q)' = Stored(q)
  /\ LastsExist' /\ IdsAreLast'
  /\ Stored(p)' \in {Stored(p), scores'[p]}
  /\ e.ok => Stored(p)' = scores'[p]
  /\ \A i \in DOMAIN rows' : (i \in DOMAIN rows /\ rows'[i] = rows[i])
                             \/ rows'[i] = [key |-> p, val |-> scores'[p]]

LEMMA PointStep ==
  ASSUME TriviaInv, loaded, NEW p \in Players, NEW e \in Executions, ScoreAdd(p, e)
  PROVE  /\ scores' = [scores EXCEPT ![p] = @ + 1] /\ userids' \in [Players -> Nat]
         /\ RowsAfter(p, e)
<1> USE DEF TriviaInv
<1> DEFINE r == [key |-> p, val |-> scores'[p]]
<1>1. scores' = [scores EXCEPT ![p] = @ + 1] /\ r \in Row
  <2>1. scores' = [scores EXCEPT ![p] = @ + 1]
    BY DEF ScoreAdd
  <2>2. scores'[p] \in Nat
    BY <2>1 DEF TriviaTypeOK
  <2> QED
    BY <2>1, <2>2 DEF Row
<1>2. e.ok \in BOOLEAN /\ e.times \in Nat /\ (e.ok => e.times # 0)
  <2>1. CASE e \in [ok : {TRUE}, times : 1..2]
    <3>1. e.times \in 1..2
      BY <2>1, Zenon
    <3>2. e.ok \in {TRUE}
      BY <2>1, Zenon
    <3>3. e.ok = TRUE
      BY <3>2, Zenon
    <3>4. e.times \in Nat /\ e.times # 0
      BY <3>1
    <3> QED
      BY <3>3, <3>4, Zenon
  <2>2. CASE e \in [ok : {FALSE}, times : 0..2]
    <3>1. e.times \in 0..2
      BY <2>2, Zenon
    <3>2. e.ok \in {FALSE}
      BY <2>2, Zenon
    <3>3. e.ok = FALSE
      BY <3>2, Zenon
    <3>4. e.times \in Nat
      BY <3>1
    <3> QED
      BY <3>3, <3>4, Zenon
  <2> QED
    BY <2>1, <2>2 DEF Executions
<1>3. rows \in Seq(Row) /\ Len(rows) \in Nat /\ DOMAIN rows = 1..Len(rows)
      /\ \A i \in 1..Len(rows) : rows[i] \in Row
  BY LenProperties, ElementOfSeq DEF TriviaTypeOK
<1>4. \A q \in Players : RowsOf(q) \subseteq 1..Len(rows)
  BY <1>3 DEF RowsOf
<1>5. CASE userids[p] # 0 /\ e.times = 0
  <2>1. rows' = rows /\ userids' = userids /\ ~e.ok
    BY <1>2, <1>5 DEF ScoreAdd
  <2>2. /\ \A q \in Players : RowsOf(q)' = RowsOf(q) /\ LastRow(q)' = LastRow(q)
        /\ \A q \in Players : Stored(q)' = Stored(q)
    BY <2>1 DEF RowsOf, LastRow, Stored
  <2>3. LastsExist' /\ IdsAreLast'
    BY <2>1, <2>2 DEF LastsExist, IdsAreLast
  <2> QED
    BY <1>1, <1>3, <2>1, <2>2, <2>3 DEF RowsAfter, TriviaTypeOK
<1>6. CASE userids[p] # 0 /\ e.times # 0
  <2> DEFINE u == userids[p]
  <2>1. userids' = userids /\ rows' = [rows EXCEPT ![u].val = scores'[p]]
    BY <1>6 DEF ScoreAdd
  <2>2. u \in RowsOf(p) /\ u = LastRow(p) /\ u \in 1..Len(rows) /\ rows[u].key = p
    BY <1>3, <1>6 DEF IdsAreLast, LastsExist, RowsOf
  <2>3. [rows[u] EXCEPT !.val = scores'[p]] = r
    BY <1>3, <2>2 DEF Row
  <2>4. rows' = [rows EXCEPT ![u] = r]
    BY <2>1, <2>3
  <2> HIDE DEF r, u
  <2>5. /\ rows' \in Seq(Row) /\ Len(rows') = Len(rows)
        /\ \A j \in 1..Len(rows) : rows'[j] = IF j = u THEN r ELSE rows[j]
    BY <1>1, <1>3, <2>2, <2>4, ExceptSeq
  <2>6. DOMAIN rows' = 1..Len(rows)
    BY <2>5, LenProperties
  <2>7. r.key = p /\ r.val = scores'[p] /\ r = [key |-> p, val |-> scores'[p]]
    BY DEF r
  <2>8. \A q \in Players : RowsOf(q)' = RowsOf(q)
    BY <1>3, <2>2, <2>5, <2>6, <2>7 DEF RowsOf
  <2>9. \A q \in Players : LastRow(q)' = LastRow(q)
    BY <2>8 DEF LastRow
  <2>10. LastsExist' /\ IdsAreLast'
    BY <2>1, <2>8, <2>9 DEF LastsExist, IdsAreLast
  <2>11. Stored(p)' = scores'[p]
    BY <2>2, <2>5, <2>7, <2>8, <2>9 DEF Stored
  <2>12. ASSUME NEW q \in Players \ {p} PROVE Stored(q)' = Stored(q)
    <3>1. CASE RowsOf(q) = {}
      BY <2>8, <3>1 DEF Stored
    <3>2. CASE RowsOf(q) # {}
      <4>1. LastRow(q) \in 1..Len(rows) /\ rows[LastRow(q)].key = q
        BY <1>3, <3>2 DEF LastsExist, RowsOf
      <4> QED
        BY <2>2, <2>5, <2>8, <2>9, <3>2, <4>1 DEF Stored
    <3> QED
      BY <3>1, <3>2
  <2> QED
    BY <1>1, <1>3, <2>1, <2>5, <2>6, <2>7, <2>8, <2>10, <2>11, <2>12 DEF RowsAfter, TriviaTypeOK
<1>7. CASE userids[p] = 0
  <2> DEFINE T == [i \in 1..e.times |-> r]
             n == Len(rows)
  <2>1. /\ rows' = rows \o T
        /\ userids' = IF e.ok THEN [userids EXCEPT ![p] = Len(rows')] ELSE userids
    BY <1>7 DEF ScoreAdd
  <2>2. T \in Seq(Row) /\ Len(T) = e.times /\ \A j \in 1..e.times : T[j] = r
    BY <1>1, <1>2, Copies
  <2> HIDE DEF T, r
  <2>3. /\ rows' \in Seq(Row) /\ Len(rows') = n + e.times
        /\ \A i \in 1..(n + e.times) : rows'[i] = IF i <= n THEN rows[i] ELSE T[i - n]
    <3>1. rows \in Seq(Row)
      BY <1>3
    <3>2. /\ rows \o T \in Seq(Row) /\ Len(rows \o T) = Len(rows) + Len(T)
          /\ \A i \in 1..Len(rows) + Len(T) :
               (rows \o T)[i] = IF i <= Len(rows) THEN rows[i] ELSE T[i - Len(rows)]
      BY ONLY <3>1, <2>2, ConcatProperties
    <3> QED
      BY ONLY <3>2, <2>1, <2>2
  <2>4. DOMAIN rows' = 1..(n + e.times)
    BY <2>3, LenProperties
  <2>5. r.key = p /\ r.val = scores'[p] /\ r = [key |-> p, val |-> scores'[p]]
    BY DEF r
  <2> HIDE DEF n
  <2>6. n \in Nat /\ DOMAIN rows = 1..n
    BY <1>3 DEF n
  <2>7. \A i \in 1..(n + e.times) : IF i <= n THEN rows'[i] = rows[i] ELSE rows'[i] = r
    <3>1. ASSUME NEW i \in 1..(n + e.times), ~(i <= n) PROVE i - n \in 1..e.times
      BY <1>2, <2>6, <3>1
    <3> QED
      BY <2>2, <2>3, <3>1
  <2>8. \A q \in Players \ {p} : RowsOf(q)' = RowsOf(q)
    BY <1>2, <2>4, <2>5, <2>6, <2>7 DEF RowsOf
  <2>9. \A q \in Players \ {p} : LastRow(q)' = LastRow(q)
    BY <2>8 DEF LastRow
  <2>10. ASSUME NEW q \in Players \ {p} PROVE Stored(q)' = Stored(q)
    <3>1. CASE RowsOf(q) = {}
      BY <2>8, <3>1 DEF Stored
    <3>2. CASE RowsOf(q) # {}
      <4>1. LastRow(q) \in 1..n
        BY <2>6, <3>2 DEF LastsExist, RowsOf
      <4> QED
        BY <1>2, <2>6, <2>7, <2>8, <2>9, <3>2, <4>1 DEF Stored
    <3> QED
      BY <3>1, <3>2
  <2>11. CASE e.times = 0
    <3>1. \A i \in 1..n : rows'[i] = rows[i]
      BY <2>6, <2>7, <2>11
    <3>2. RowsOf(p)' = RowsOf(p)
      BY <2>4, <2>6, <2>11, <3>1 DEF RowsOf
    <3>3. LastRow(p)' = LastRow(p)
      BY <3>2 DEF LastRow
    <3>4. Stored(p)' = Stored(p)
      <4>1. CASE RowsOf(p) = {}
        BY <3>2, <4>1 DEF Stored
      <4>2. CASE RowsOf(p) # {}
        <5>1. LastRow(p) \in 1..n
          BY <2>6, <4>2 DEF LastsExist, RowsOf
        <5> QED
          BY <3>1, <3>2, <3>3, <4>2, <5>1 DEF Stored
      <4> QED
        BY <4>1, <4>2
    <3>5. userids' = userids /\ ~e.ok
      BY <1>2, <2>1, <2>11
    <3>6. LastsExist' /\ IdsAreLast'
      BY <2>8, <2>9, <3>2, <3>3, <3>5 DEF LastsExist, IdsAreLast
    <3> QED
      BY <1>1, <2>3, <2>4, <2>6, <2>8, <2>10, <2>11, <3>1, <3>4, <3>5, <3>6 DEF RowsAfter, TriviaTypeOK
  <2>12. CASE e.times # 0
    <3> DEFINE m == n + e.times
    <3>1. m \in Nat /\ m > n /\ m \in 1..m
      BY <1>2, <2>6, <2>12
    <3>2. rows'[m] = r
      BY <1>2, <2>6, <2>7, <3>1
    <3>3. m \in RowsOf(p)' /\ RowsOf(p)' \subseteq 1..m
      BY <2>4, <2>5, <3>1, <3>2 DEF RowsOf
    <3> HIDE DEF m
    <3>4. LastRow(p)' = m
      <4>1. RowsOf(p)' \in SUBSET Nat /\ \A j \in RowsOf(p)' : j <= m
        BY <3>1, <3>3
      <4> QED
        BY <3>3, <4>1, Highest DEF LastRow
    <3>5. Stored(p)' = scores'[p]
      BY <2>5, <3>2, <3>3, <3>4 DEF Stored
    <3>6. LastsExist'
      BY <2>8, <2>9, <3>1, <3>3, <3>4 DEF LastsExist
    <3>7. userids' \in [Players -> Nat] /\ (userids'[p] = 0 \/ userids'[p] = m)
          /\ \A q \in Players \ {p} : userids'[q] = userids[q]
      BY <1>7, <2>1, <2>3, <3>1 DEF TriviaTypeOK, m
    <3>8. IdsAreLast'
      BY <2>8, <2>9, <3>3, <3>4, <3>7 DEF IdsAreLast
    <3>9. \A i \in DOMAIN rows' : (i \in DOMAIN rows /\ rows'[i] = rows[i]) \/ rows'[i] = r
      BY <1>2, <2>4, <2>6, <2>7
    <3> QED
      BY <1>1, <2>3, <2>5, <2>8, <2>10, <3>5, <3>6, <3>7, <3>8, <3>9 DEF RowsAfter
  <2> QED
    BY <2>11, <2>12
<1> QED
  BY <1>5, <1>6, <1>7

LEMMA StoredNat ==
  ASSUME TriviaTypeOK, LastsExist, NEW p \in Players
  PROVE  Stored(p) \in Nat
<1>1. CASE RowsOf(p) = {}
  BY <1>1 DEF Stored
<1>2. CASE RowsOf(p) # {}
  <2>1. LastRow(p) \in 1..Len(rows)
    BY <1>2, LenProperties DEF LastsExist, TriviaTypeOK, RowsOf
  <2>2. rows[LastRow(p)] \in Row
    BY <2>1, ElementOfSeq DEF TriviaTypeOK
  <2> QED
    BY <1>2, <2>2 DEF Stored, Row
<1> QED
  BY <1>1, <1>2

\* A right answer: somebody is due one point more, and gets one.
LEMMA AnswerStep ==
  ASSUME TriviaInv, NEW p \in Players, NEW e \in Executions, RightAnswer(p, e)
  PROVE  TriviaInv'
<1> USE DEF TriviaInv
<1>1. loaded /\ ScoreAdd(p, e) /\ loaded' = loaded /\ stage > 0 /\ solvers = {}
      /\ stage' = IF e.ok THEN 0 ELSE stage
  BY DEF RightAnswer, Point, OpenIsUnsolved
<1>2. /\ scores' = [scores EXCEPT ![p] = @ + 1] /\ userids' \in [Players -> Nat]
      /\ RowsAfter(p, e)
  BY <1>1, PointStep
<1>3. /\ scores' \in [Players -> Nat] /\ scores'[p] = scores[p] + 1
      /\ \A q \in Players \ {p} : scores'[q] = scores[q]
      /\ \A q \in Players : scores[q] \in Nat
  BY <1>2 DEF TriviaTypeOK
<1>4. /\ earned' \in [Players -> Nat] /\ spoilt' \in [Players -> Nat]
      /\ announced' \in [Players -> Nat]
      /\ \A q \in Players : Due(q) \in Nat /\ Due(q)' \in Nat
      /\ \A q \in Players \ {p} : Due(q)' = Due(q)
      /\ Due(p)' = Due(p) + 1
      /\ \A q \in Players \ {p} : announced'[q] = announced[q]
      /\ announced'[p] = IF e.ok THEN scores'[p] ELSE announced[p]
      /\ IF e.ok THEN solvers' = {p} ELSE solvers' = {}
  <2>1. CASE e.ok
    <3>1. /\ announced' = [announced EXCEPT ![p] = scores'[p]]
          /\ earned' = [earned EXCEPT ![p] = @ + 1]
          /\ spoilt' = spoilt /\ solvers' = {p}
      BY <1>1, <2>1 DEF RightAnswer, Point, Credit
    <3>2. TriviaTypeOK
      OBVIOUS
    <3>3. /\ earned' \in [Players -> Nat] /\ earned'[p] = earned[p] + 1
          /\ \A q \in Players \ {p} : earned'[q] = earned[q]
          /\ earned \in [Players -> Nat] /\ spoilt \in [Players -> Nat]
      BY ONLY <3>1, <3>2, p \in Players DEF TriviaTypeOK
    <3>4. /\ announced' \in [Players -> Nat] /\ announced'[p] = scores'[p]
          /\ \A q \in Players \ {p} : announced'[q] = announced[q]
      BY ONLY <1>3, <3>1, <3>2, p \in Players DEF TriviaTypeOK
    <3>5. /\ \A q \in Players : Due(q) \in Nat /\ Due(q)' \in Nat
          /\ \A q \in Players \ {p} : Due(q)' = Due(q)
          /\ Due(p)' = Due(p) + 1
      BY ONLY <3>1, <3>3, p \in Players DEF Due
    <3>6. announced'[p] = IF e.ok THEN scores'[p] ELSE announced[p]
      BY <2>1, <3>4, Zenon
    <3>7. IF e.ok THEN solvers' = {p} ELSE solvers' = {}
      BY <2>1, <3>1, Zenon
    <3>8. spoilt' \in [Players -> Nat]
      BY <3>1, <3>3
    <3> QED
      BY <3>3, <3>4, <3>5, <3>6, <3>7, <3>8, Zenon
  <2>2. CASE ~e.ok
    <3>1. /\ spoilt' = [spoilt EXCEPT ![p] = @ + 1]
          /\ announced' = announced /\ earned' = earned /\ solvers' = {}
      BY <1>1, <2>2 DEF RightAnswer, Point
    <3>2. TriviaTypeOK
      OBVIOUS
    <3>3. /\ spoilt' \in [Players -> Nat] /\ spoilt'[p] = spoilt[p] + 1
          /\ \A q \in Players \ {p} : spoilt'[q] = spoilt[q]
          /\ earned \in [Players -> Nat] /\ spoilt \in [Players -> Nat]
          /\ announced \in [Players -> Nat]
      BY ONLY <3>1, <3>2, p \in Players DEF TriviaTypeOK
    <3>4. /\ \A q \in Players : Due(q) \in Nat /\ Due(q)' \in Nat
          /\ \A q \in Players \ {p} : Due(q)' = Due(q)
          /\ Due(p)' = Due(p) + 1
      BY ONLY <3>1, <3>3, p \in Players DEF Due
    <3>5. announced'[p] = IF e.ok THEN scores'[p] ELSE announced[p]
      BY <2>2, <3>1, Zenon
    <3>6. IF e.ok THEN solvers' = {p} ELSE solvers' = {}
      BY <2>2, <3>1, Zenon
    <3>7. earned' \in [Players -> Nat] /\ announced' \in [Players -> Nat]
      BY <3>1, <3>3
    <3> QED
      BY <3>1, <3>3, <3>4, <3>5, <3>6, <3>7, Zenon
  <2> QED
    BY <2>1, <2>2
<1>5. TriviaTypeOK'
  BY <1>1, <1>2, <1>3, <1>4 DEF TriviaTypeOK, RowsAfter
<1>6. ASSUME NEW q \in Players PROVE scores'[q] <= Due(q)'
  <2>1. scores[q] <= Due(q) /\ scores[q] \in Nat
    BY DEF PointsAreEarned, Due, TriviaTypeOK
  <2>2. CASE q = p
    BY <1>3, <1>4, <2>1, <2>2
  <2>3. CASE q # p
    BY <1>3, <1>4, <2>1, <2>3
  <2> QED
    BY <2>2, <2>3
<1>7. /\ \A q \in Players : Stored(q) \in Nat /\ Stored(q) <= scores[q]
      /\ \A q \in Players \ {p} : Stored(q)' = Stored(q)
      /\ Stored(p)' = Stored(p) \/ Stored(p)' = scores'[p]
      /\ e.ok => Stored(p)' = scores'[p]
  BY <1>1, <1>2, StoredNat DEF CacheAhead, RowsAfter
<1>8. ASSUME NEW q \in Players PROVE Stored(q)' <= scores'[q] /\ announced'[q] <= Stored(q)'
  <2>1. announced[q] <= Stored(q) /\ announced[q] \in Nat
    BY DEF ScoresSurvive, TriviaTypeOK
  <2>2. CASE q # p
    BY <1>3, <1>4, <1>7, <2>1, <2>2
  <2>3. CASE q = p /\ e.ok
    BY <1>3, <1>4, <1>7, <2>1, <2>3
  <2>4. CASE q = p /\ ~e.ok
    BY <1>3, <1>4, <1>7, <2>1, <2>4
  <2> QED
    BY <2>2, <2>3, <2>4
<1>9. RowsEarned'
  <2> SUFFICES ASSUME NEW i \in DOMAIN rows' PROVE (rows[i].val <= Due(rows[i].key))'
    BY DEF RowsEarned, Due
  <2>1. CASE i \in DOMAIN rows /\ rows'[i] = rows[i]
    <3>1. rows[i] \in Row
      BY <2>1, LenProperties, ElementOfSeq DEF TriviaTypeOK
    <3>2. PICK q \in Players, val \in Nat : rows[i].key = q /\ rows[i].val = val
      BY <3>1 DEF Row
    <3>3. val <= Due(q)
      BY <2>1, <3>2 DEF RowsEarned
    <3>4. Due(q) \in Nat /\ Due(q)' \in Nat /\ Due(q) <= Due(q)'
      BY <1>4
    <3>5. val <= Due(q)'
      BY <3>3, <3>4
    <3> QED
      BY <2>1, <3>2, <3>5 DEF Due
  <2>2. CASE rows'[i] = [key |-> p, val |-> scores'[p]]
    BY <1>6, <2>2
  <2> QED
    BY <1>2, <2>1, <2>2 DEF RowsAfter
<1>10. OpenIsUnsolved' /\ PointsAreEarned'
  BY <1>1, <1>4, <1>6 DEF OpenIsUnsolved, PointsAreEarned, Due
<1> QED
  BY <1>2, <1>5, <1>8, <1>9, <1>10 DEF RowsAfter, CacheAhead, ScoresSurvive

LEMMA LoadStep == ASSUME TriviaInv, LoadScores PROVE TriviaInv'
<1> USE DEF TriviaInv
<1>1. /\ scores' = [p \in Players |-> Stored(p)] /\ userids' = [p \in Players |-> StoredId(p)]
      /\ loaded' = TRUE /\ UNCHANGED <<stage, solvers, rows, announced, earned, spoilt>>
  BY DEF LoadScores
<1>2. \A p \in Players : Stored(p) \in Nat
  BY StoredNat
<1>3. /\ \A p \in Players : RowsOf(p)' = RowsOf(p) /\ LastRow(p)' = LastRow(p)
      /\ \A p \in Players : Stored(p)' = Stored(p)
  BY <1>1 DEF RowsOf, LastRow, Stored
<1>4. ASSUME NEW p \in Players
      PROVE  /\ StoredId(p) \in Nat
             /\ StoredId(p) # 0 => StoredId(p) = LastRow(p) /\ RowsOf(p) # {}
  <2>1. RowsOf(p) # {} => LastRow(p) \in 1..Len(rows)
    BY LenProperties DEF LastsExist, TriviaTypeOK, RowsOf
  <2> QED
    BY <2>1, LenProperties DEF StoredId, TriviaTypeOK
<1>5. TriviaTypeOK'
  BY <1>1, <1>2, <1>4 DEF TriviaTypeOK
<1>6. LastsExist' /\ IdsAreLast'
  BY <1>1, <1>3, <1>4 DEF LastsExist, IdsAreLast
<1>7. CacheAhead' /\ RowsEarned' /\ ScoresSurvive' /\ OpenIsUnsolved'
  BY <1>1, <1>2, <1>3 DEF CacheAhead, RowsEarned, Due, ScoresSurvive, OpenIsUnsolved
<1>8. ASSUME NEW p \in Players PROVE Stored(p) <= Due(p)
  <2>1. CASE RowsOf(p) = {}
    BY <2>1 DEF Stored, TriviaTypeOK, Due
  <2>2. CASE RowsOf(p) # {}
    <3>1. LastRow(p) \in DOMAIN rows /\ rows[LastRow(p)].key = p
      BY <2>2 DEF LastsExist, RowsOf
    <3> QED
      BY <2>2, <3>1 DEF RowsEarned, Stored
  <2> QED
    BY <2>1, <2>2
<1>9. PointsAreEarned'
  BY <1>1, <1>8 DEF PointsAreEarned, Due
<1> QED
  BY <1>5, <1>6, <1>7, <1>9

LEMMA TriviaStep == TriviaInv /\ [TriviaNext]_triviaVars => TriviaInv'
<1> SUFFICES ASSUME TriviaInv, [TriviaNext]_triviaVars PROVE TriviaInv'
  OBVIOUS
<1>1. CASE \E p \in Players, e \in Executions : RightAnswer(p, e)
  BY <1>1, AnswerStep
<1>2. CASE LoadScores
  BY <1>2, LoadStep
<1>3. CASE EndProgram
  <2>1. /\ scores' = None0 /\ userids' = None0 /\ loaded' = FALSE /\ stage' = 0
        /\ UNCHANGED <<solvers, rows, announced, earned, spoilt>>
    BY <1>3 DEF EndProgram
  <2>2. /\ \A p \in Players : RowsOf(p)' = RowsOf(p) /\ LastRow(p)' = LastRow(p)
        /\ \A p \in Players : Stored(p)' = Stored(p)
    BY <2>1 DEF RowsOf, LastRow, Stored
  <2>3. TriviaTypeOK'
    BY <2>1 DEF TriviaInv, TriviaTypeOK, None0
  <2>4. LastsExist' /\ IdsAreLast' /\ CacheAhead' /\ RowsEarned' /\ ScoresSurvive'
        /\ OpenIsUnsolved'
    BY <2>1, <2>2 DEF TriviaInv, None0, LastsExist, IdsAreLast, CacheAhead, RowsEarned, Due,
       ScoresSurvive, OpenIsUnsolved
  <2>5. PointsAreEarned'
    BY <2>1 DEF TriviaInv, TriviaTypeOK, None0, PointsAreEarned
  <2> QED
    BY <2>3, <2>4, <2>5 DEF TriviaInv
<1>4. CASE \/ AskQuestion \/ Hint \/ SwitchOn \/ SwitchOff \/ ForgetQuestions
           \/ UNCHANGED triviaVars
  <2>1. UNCHANGED <<loaded, scores, userids, rows, announced, earned, spoilt>>
    BY <1>4 DEF AskQuestion, Hint, SwitchOn, SwitchOff, ForgetQuestions, triviaVars
  <2>2. /\ \A p \in Players : RowsOf(p)' = RowsOf(p) /\ LastRow(p)' = LastRow(p)
        /\ \A p \in Players : Stored(p)' = Stored(p)
    BY <2>1 DEF RowsOf, LastRow, Stored
  <2>3. /\ stage' \in Nat /\ OpenIsUnsolved'
        /\ \A p, q \in solvers' : p = q
    <3>1. CASE AskQuestion
      <4>1. \/ stage' = 1 /\ solvers' = {}
            \/ stage' = stage /\ solvers' = solvers
        BY <3>1 DEF AskQuestion
      <4> QED
        BY <4>1 DEF TriviaInv, TriviaTypeOK, OpenIsUnsolved, PointsAreEarned
    <3>2. CASE Hint
      BY <3>2 DEF TriviaInv, TriviaTypeOK, Hint, OpenIsUnsolved, PointsAreEarned
    <3>3. CASE SwitchOn \/ SwitchOff \/ ForgetQuestions \/ UNCHANGED triviaVars
      BY <3>3 DEF TriviaInv, TriviaTypeOK, SwitchOn, SwitchOff, ForgetQuestions, triviaVars,
         OpenIsUnsolved, PointsAreEarned
    <3> QED
      BY <1>4, <3>1, <3>2, <3>3
  <2> QED
    BY <2>1, <2>2, <2>3 DEF TriviaInv, TriviaTypeOK, LastsExist, IdsAreLast, CacheAhead,
       RowsEarned, Due, PointsAreEarned, ScoresSurvive
<1> QED
  BY <1>1, <1>2, <1>3, <1>4 DEF TriviaNext

\* Whatever statements fail, are carried out without an answer or twice, and however often
\* the program is started again, no score that the channel was told is taken back
\* (plugindb.py:66-143, trivia.py:51-93).
THEOREM ScoresKept == TriviaInit /\ [][TriviaNext]_triviaVars => []ScoresSurvive
<1>1. TriviaInv => ScoresSurvive
  BY DEF TriviaInv
<1> QED
  BY <1>1, TriviaInitInv, TriviaStep, PTL

\* A question is worth one point, to one player: it is over when the point is counted, and
\* nobody is credited for one that is over, unless counting the point raised an exception,
\* which leaves the question open (trivia.py:76-93, 98-208).
THEOREM PointsEarned == TriviaInit /\ [][TriviaNext]_triviaVars => []PointsAreEarned
<1>1. TriviaInv => PointsAreEarned
  BY DEF TriviaInv
<1> QED
  BY <1>1, TriviaInitInv, TriviaStep, PTL

-----------------------------------------------------------------------------
(* gamequeue.  A bot that may be chosen has nothing left to host unless it *)
(* is late: one that has rests.  The queue is ordered, so that what leaves *)
(* it leaves it for good.                                                  *)

Fates == {"queued", "unhosted", "refused", "lost", "ordered"}

GameTypeOK ==
  /\ games \in Seq(Owners) /\ fate \in Seq(Fates) /\ Len(fate) = Len(games)
  /\ hostQueue \in Seq(Nat)
  /\ \A i \in 1..Len(hostQueue) : hostQueue[i] \in 1..Len(games)
  /\ botsHere \subseteq Bots
  /\ orders \in [Bots -> Seq(Nat)] /\ DOMAIN gamelist = Bots

Load(b) == Len(orders[b]) + (IF gamelist[b] = NoOwner THEN 0 ELSE 1)

BusyRest == \A b \in Bots \ late : Load(b) <= 1 /\ (b \notin resting => orders[b] = <<>>)

QueueOrdered == \A i, j \in 1..Len(hostQueue) :
  i < j => hostQueue[i] < hostQueue[j] /\ games[hostQueue[i]] # games[hostQueue[j]]

QueuedIffWaiting == \A g \in 1..Len(games) :
  (\E i \in 1..Len(hostQueue) : hostQueue[i] = g) <=> fate[g] = "queued"

OnceEach == \A g, h \in 1..Len(games) : g < h /\ games[g] = games[h] => fate[g] # "queued"

Turns == QueueOrdered /\ QueuedIffWaiting /\ OnceEach

GameInv == GameTypeOK /\ BusyRest /\ Turns

LEMMA GameInvGood == GameInv => GamesWellPlaced
<1> SUFFICES ASSUME GameInv PROVE GamesWellPlaced
  OBVIOUS
<1>1. DOMAIN games = 1..Len(games) /\ DOMAIN hostQueue = 1..Len(hostQueue)
  BY LenProperties DEF GameInv, GameTypeOK
<1>2. \A g : InQueue(g) <=> \E i \in 1..Len(hostQueue) : hostQueue[i] = g
  BY <1>1 DEF InQueue
<1>3. \A b \in Bots \ late : Len(orders[b]) + (IF gamelist[b] = NoOwner THEN 0 ELSE 1) <= 1
  BY DEF GameInv, BusyRest, Load
<1>4. \A g \in DOMAIN games : InQueue(g) <=> fate[g] = "queued"
  BY <1>1, <1>2 DEF GameInv, Turns, QueuedIffWaiting
<1> QED
  BY <1>1, <1>3, <1>4 DEF GamesWellPlaced, GameInv, Turns, QueueOrdered, OnceEach

LEMMA GameInitInv == GameInit => GameInv
<1> SUFFICES ASSUME GameInit PROVE GameInv
  OBVIOUS
<1>1. \A S : <<>> \in Seq(S) /\ Len(<<>>) = 0
  BY EmptySeq
<1>2. GameTypeOK
  BY <1>1 DEF GameInit, GameTypeOK
<1>3. BusyRest
  BY <1>1 DEF GameInit, BusyRest, Load
<1>4. Turns
  BY <1>1 DEF GameInit, Turns, QueueOrdered, QueuedIffWaiting, OnceEach
<1> QED
  BY <1>2, <1>3, <1>4 DEF GameInv

\* A game leaves the queue, from any place in it, for an end it does not come back from.
Leaves(k, what) ==
  /\ games' = games
  /\ hostQueue' \in Seq(Nat) /\ Len(hostQueue') = Len(hostQueue) - 1
  /\ \A j \in 1..(Len(hostQueue) - 1) :
       hostQueue'[j] = IF j < k THEN hostQueue[j] ELSE hostQueue[j + 1]
  /\ fate' = [fate EXCEPT ![hostQueue[k]] = what]

LEMMA LeaveStep ==
  ASSUME GameTypeOK, Turns, NEW k \in 1..Len(hostQueue), NEW what \in Fates, what # "queued",
         Leaves(k, what)
  PROVE  /\ Turns' /\ fate' \in Seq(Fates) /\ Len(fate') = Len(games')
         /\ \A i \in 1..Len(hostQueue') : hostQueue'[i] \in 1..Len(games')
<1> DEFINE n == Len(hostQueue)
           m == Len(games)
           out == hostQueue[k]
<1>1. n \in Nat /\ m \in Nat /\ Len(fate) = m /\ \A i \in 1..n : hostQueue[i] \in 1..m
  BY LenProperties DEF GameTypeOK
<1>2. k \in 1..n /\ out \in 1..m /\ Len(hostQueue') = n - 1 /\ Len(games') = m
  BY <1>1 DEF Leaves
<1>3. /\ fate' \in Seq(Fates) /\ Len(fate') = m
      /\ \A g \in 1..m : fate'[g] = IF g = out THEN what ELSE fate[g]
  BY <1>1, <1>2, ExceptSeq, SMTT(30) DEF GameTypeOK, Leaves
<1>4. \A j \in 1..(n - 1) : hostQueue'[j] = IF j < k THEN hostQueue[j] ELSE hostQueue[j + 1]
  BY DEF Leaves
<1>5. /\ \A i, j \in 1..n : i < j => hostQueue[i] < hostQueue[j]
                                    /\ games[hostQueue[i]] # games[hostQueue[j]]
      /\ \A g \in 1..m : (\E i \in 1..n : hostQueue[i] = g) <=> fate[g] = "queued"
      /\ \A g, h \in 1..m : g < h /\ games[g] = games[h] => fate[g] # "queued"
      /\ games' = games /\ hostQueue[k] = out
  BY DEF Turns, QueueOrdered, QueuedIffWaiting, OnceEach, Leaves
<1> HIDE DEF n, m, out
<1>6. ASSUME NEW j \in 1..(n - 1) PROVE hostQueue'[j] \in 1..m
  <2>1. j \in 1..n /\ j + 1 \in 1..n
    BY <1>1
  <2>2. CASE j < k
    BY <1>1, <1>4, <2>1, <2>2
  <2>3. CASE ~(j < k)
    BY <1>1, <1>4, <2>1, <2>3
  <2> QED
    BY <2>2, <2>3
<1>7. \A i, j \in 1..(n - 1) : i < j => hostQueue'[i] < hostQueue'[j]
                                      /\ games'[hostQueue'[i]] # games'[hostQueue'[j]]
  <2> SUFFICES ASSUME NEW i \in 1..(n - 1), NEW j \in 1..(n - 1), i < j
               PROVE  hostQueue'[i] < hostQueue'[j] /\ games[hostQueue'[i]] # games[hostQueue'[j]]
    BY <1>5
  <2>1. PICK a, b \in 1..n : a < b /\ hostQueue'[i] = hostQueue[a] /\ hostQueue'[j] = hostQueue[b]
    <3>1. CASE j < k
      BY <1>1, <1>2, <1>4, <3>1, SMTT(30)
    <3>2. CASE i < k /\ ~(j < k)
      <4>1. hostQueue'[i] = hostQueue[i] /\ hostQueue'[j] = hostQueue[j + 1]
            /\ i \in 1..n /\ j + 1 \in 1..n /\ i < j + 1
        BY <1>1, <1>2, <1>4, <3>2
      <4> QED
        BY <4>1
    <3>3. CASE ~(i < k)
      <4>1. hostQueue'[i] = hostQueue[i + 1] /\ hostQueue'[j] = hostQueue[j + 1]
            /\ i + 1 \in 1..n /\ j + 1 \in 1..n /\ i + 1 < j + 1
        BY <1>1, <1>2, <1>4, <3>3
      <4> QED
        BY <4>1
    <3> QED
      BY <1>1, <1>2, <3>1, <3>2, <3>3
  <2> QED
    BY <1>5, <2>1
<1>8. ASSUME NEW g \in 1..m
      PROVE  (\E j \in 1..(n - 1) : hostQueue'[j] = g)
               <=> g # out /\ \E i \in 1..n : hostQueue[i] = g
  <2>1. ASSUME NEW j \in 1..(n - 1), hostQueue'[j] = g
        PROVE  g # out /\ \E i \in 1..n : hostQueue[i] = g
    <3>1. CASE j < k
      <4>1. j \in 1..n /\ hostQueue[j] = g /\ hostQueue[j] < hostQueue[k]
        BY <1>1, <1>2, <1>4, <1>5, <2>1, <3>1
      <4>2. hostQueue[j] \in 1..m /\ hostQueue[k] \in 1..m
        BY <1>1, <1>2, <4>1
      <4> QED
        BY <1>5, <4>1, <4>2
    <3>2. CASE ~(j < k)
      <4>1. j + 1 \in 1..n /\ hostQueue[j + 1] = g /\ k < j + 1
        BY <1>1, <1>2, <1>4, <2>1, <3>2
      <4>2. hostQueue[k] < hostQueue[j + 1]
        BY <1>2, <1>5, <4>1
      <4>3. hostQueue[j + 1] \in 1..m /\ hostQueue[k] \in 1..m
        BY <1>1, <1>2, <4>1
      <4> QED
        BY <1>5, <4>1, <4>2, <4>3
    <3> QED
      BY <3>1, <3>2
  <2>2. ASSUME NEW i \in 1..n, hostQueue[i] = g, g # out
        PROVE  \E j \in 1..(n - 1) : hostQueue'[j] = g
    <3>1. i # k
      BY <1>5, <2>2
    <3>2. CASE i < k
      <4>1. i \in 1..(n - 1) /\ hostQueue'[i] = g
        BY <1>1, <1>2, <1>4, <2>2, <3>2
      <4> QED
        BY <4>1
    <3>3. CASE i > k
      <4>1. i - 1 \in 1..(n - 1) /\ ~(i - 1 < k) /\ (i - 1) + 1 = i
        BY <1>1, <1>2, <3>3
      <4>2. hostQueue'[i - 1] = hostQueue[(i - 1) + 1]
        BY <1>4, <4>1
      <4> QED
        BY <2>2, <4>1, <4>2
    <3> QED
      BY <1>1, <1>2, <3>1, <3>2, <3>3
  <2> QED
    BY <2>1, <2>2
<1>9. \A g \in 1..m : (\E j \in 1..(n - 1) : hostQueue'[j] = g) <=> fate'[g] = "queued"
  BY <1>3, <1>5, <1>8
<1>10. \A g, h \in 1..m : g < h /\ games'[g] = games'[h] => fate'[g] # "queued"
  BY <1>3, <1>5
<1>11. QueueOrdered' /\ QueuedIffWaiting' /\ OnceEach'
  BY <1>2, <1>7, <1>9, <1>10 DEF QueueOrdered, QueuedIffWaiting, OnceEach
<1> QED
  BY <1>2, <1>3, <1>6, <1>11 DEF Turns

\* The first game in the queue is taken out.
LEMMA TakeOutStep ==
  ASSUME GameInv, NEW what \in Fates, what # "queued", hostQueue # <<>>, TakeOut(what),
         games' = games
  PROVE  /\ Turns' /\ fate' \in Seq(Fates) /\ Len(fate') = Len(games')
         /\ \A i \in 1..Len(hostQueue') : hostQueue'[i] \in 1..Len(games')
         /\ hostQueue' \in Seq(Nat)
<1>1. hostQueue \in Seq(Nat) /\ hostQueue' = Tail(hostQueue)
      /\ fate' = [fate EXCEPT ![Head(hostQueue)] = what]
  BY DEF GameInv, GameTypeOK, TakeOut
<1>2. Len(hostQueue) \in Nat \ {0}
  BY <1>1, EmptySeq
<1>3. /\ hostQueue' \in Seq(Nat) /\ Len(hostQueue') = Len(hostQueue) - 1
      /\ \A j \in 1..Len(hostQueue') : hostQueue'[j] = hostQueue[j + 1]
  BY <1>1, HeadTailProperties
<1>4. Head(hostQueue) = hostQueue[1]
  BY <1>1, <1>2
<1>5. Leaves(1, what)
  <2> DEFINE n == Len(hostQueue)
  <2>1. n \in Nat \ {0} /\ Len(hostQueue') = n - 1
    BY <1>2, <1>3
  <2>2. \A j \in 1..(n - 1) : hostQueue'[j] = hostQueue[j + 1]
    BY <1>3
  <2> HIDE DEF n
  <2>3. \A j \in 1..(n - 1) : hostQueue'[j] = IF j < 1 THEN hostQueue[j] ELSE hostQueue[j + 1]
    BY <2>1, <2>2
  <2> QED
    BY <1>1, <1>3, <1>4, <2>3 DEF Leaves, n
<1>6. 1 \in 1..Len(hostQueue)
  BY <1>2
<1> QED
  BY <1>3, <1>5, <1>6, LeaveStep DEF GameInv

LEMMA UnhostStep == ASSUME GameInv, NEW u \in Owners, Unhost(u) PROVE GameInv'
<1>1. PICK k \in DOMAIN hostQueue :
        /\ hostQueue' = SubSeq(hostQueue, 1, k - 1) \o SubSeq(hostQueue, k + 1, Len(hostQueue))
        /\ fate' = [fate EXCEPT ![hostQueue[k]] = "unhosted"]
  BY DEF Unhost
<1>2. UNCHANGED <<games, resting, botsHere, gamelist, orders, late>>
  BY DEF Unhost
<1> DEFINE n == Len(hostQueue)
           s == SubSeq(hostQueue, 1, k - 1)
           t == SubSeq(hostQueue, k + 1, n)
<1>3. hostQueue \in Seq(Nat) /\ n \in Nat /\ k \in 1..n
      /\ \A i \in 1..n : hostQueue[i] \in Nat
  BY LenProperties, ElementOfSeq DEF GameInv, GameTypeOK
<1>4. /\ s \in Seq(Nat) /\ Len(s) = IF 1 <= k - 1 THEN (k - 1) - 1 + 1 ELSE 0
      /\ \A i \in 1..((k - 1) - 1 + 1) : s[i] = hostQueue[1 + i - 1]
  <2>1. k - 1 \in Int /\ 1 \in Int /\ \A i \in 1..(k - 1) : hostQueue[i] \in Nat
    BY <1>3
  <2> QED
    BY <2>1, SubSeqProperties
<1>5. /\ t \in Seq(Nat) /\ Len(t) = IF k + 1 <= n THEN n - (k + 1) + 1 ELSE 0
      /\ \A i \in 1..(n - (k + 1) + 1) : t[i] = hostQueue[(k + 1) + i - 1]
  <2>1. k + 1 \in Int /\ n \in Int /\ \A i \in (k + 1)..n : hostQueue[i] \in Nat
    BY <1>3
  <2> QED
    BY <2>1, SubSeqProperties, SMTT(30)
<1>6. hostQueue' = s \o t
  BY <1>1
<1> HIDE DEF s, t
<1>7. /\ s \o t \in Seq(Nat) /\ Len(s \o t) = Len(s) + Len(t)
      /\ \A i \in 1..(Len(s) + Len(t)) :
           (s \o t)[i] = IF i <= Len(s) THEN s[i] ELSE t[i - Len(s)]
  BY <1>4, <1>5, ConcatProperties
<1> HIDE DEF n
<1> DEFINE ls == Len(s)
           lt == Len(t)
<1>8. ls = k - 1 /\ lt = n - k
  <2>1. ls = (IF 1 <= k - 1 THEN (k - 1) - 1 + 1 ELSE 0)
        /\ lt = (IF k + 1 <= n THEN n - (k + 1) + 1 ELSE 0)
    BY <1>4, <1>5
  <2>2. n \in Nat /\ k \in 1..n
    BY <1>3
  <2> HIDE DEF ls, lt
  <2> QED
    BY <2>1, <2>2
<1>9. /\ hostQueue' \in Seq(Nat) /\ Len(hostQueue') = n - 1
      /\ \A i \in 1..(n - 1) : hostQueue'[i] = IF i <= k - 1 THEN s[i] ELSE t[i - (k - 1)]
  <2>1. /\ hostQueue' \in Seq(Nat) /\ Len(hostQueue') = ls + lt
        /\ \A i \in 1..(ls + lt) : hostQueue'[i] = IF i <= ls THEN s[i] ELSE t[i - ls]
    BY <1>6, <1>7
  <2>2. ls + lt = n - 1
    BY <1>3, <1>8
  <2> HIDE DEF ls, lt
  <2> QED
    BY <1>8, <2>1, <2>2
<1>10. ASSUME NEW j \in 1..(n - 1)
       PROVE  hostQueue'[j] = IF j < k THEN hostQueue[j] ELSE hostQueue[j + 1]
  <2>1. CASE j < k
    <3>1. j \in 1..((k - 1) - 1 + 1) /\ 1 + j - 1 = j /\ j <= k - 1
      BY <1>3, <2>1
    <3>2. s[j] = hostQueue[j]
      BY <1>4, <3>1
    <3> QED
      BY <1>9, <2>1, <3>1, <3>2
  <2>2. CASE ~(j < k)
    <3> DEFINE i == j - (k - 1)
    <3>1. i \in 1..(n - (k + 1) + 1) /\ (k + 1) + i - 1 = j + 1 /\ ~(j <= k - 1)
      BY <1>3, <2>2, SMTT(30)
    <3>2. t[i] = hostQueue[j + 1]
      BY <1>5, <3>1
    <3> QED
      BY <1>9, <2>2, <3>1, <3>2
  <2> QED
    BY <2>1, <2>2
<1>11. Leaves(k, "unhosted")
  BY <1>1, <1>2, <1>9, <1>10 DEF Leaves, n
<1>12. /\ Turns' /\ fate' \in Seq(Fates) /\ Len(fate') = Len(games')
       /\ \A i \in 1..Len(hostQueue') : hostQueue'[i] \in 1..Len(games')
  <2>1. GameTypeOK /\ Turns
    BY DEF GameInv
  <2>3. k \in 1..Len(hostQueue)
    BY <1>3 DEF n
  <2>2. "unhosted" # "queued"
    OBVIOUS
  <2>4. "unhosted" \in Fates
    BY DEF Fates
  <2> QED
    BY <1>11, <2>1, <2>2, <2>3, <2>4, LeaveStep, Zenon
<1>13. GameTypeOK' /\ BusyRest'
  BY <1>2, <1>9, <1>12 DEF GameInv, GameTypeOK, BusyRest, Load
<1> QED
  BY <1>12, <1>13 DEF GameInv

LEMMA QueueStep == ASSUME GameInv, NEW u \in Owners, QueueGame(u) PROVE GameInv'
<1> DEFINE n == Len(hostQueue)
           m == Len(games)
<1>1. /\ games' = Append(games, u) /\ hostQueue' = Append(hostQueue, Len(games'))
      /\ fate' = Append(fate, "queued") /\ ~HasQueued(u)
      /\ UNCHANGED <<resting, botsHere, gamelist, orders, late>>
  BY DEF QueueGame
<1>2. /\ games \in Seq(Owners) /\ fate \in Seq(Fates) /\ hostQueue \in Seq(Nat)
      /\ Len(fate) = m /\ m \in Nat /\ n \in Nat /\ DOMAIN hostQueue = 1..n
      /\ \A i \in 1..n : hostQueue[i] \in 1..m
  BY LenProperties DEF GameInv, GameTypeOK
<1>3. /\ games' \in Seq(Owners) /\ Len(games') = m + 1
      /\ \A g \in 1..(m + 1) : games'[g] = IF g <= m THEN games[g] ELSE u
  BY <1>1, <1>2, AppendProperties
<1>4. "queued" \in Fates
  BY DEF Fates
<1>5. /\ fate' \in Seq(Fates) /\ Len(fate') = m + 1
      /\ \A g \in 1..(m + 1) : fate'[g] = IF g <= m THEN fate[g] ELSE "queued"
  BY <1>1, <1>2, <1>4, AppendProperties
<1>6. hostQueue' = Append(hostQueue, m + 1) /\ m + 1 \in Nat
  BY <1>1, <1>2, <1>3
<1>7. /\ hostQueue' \in Seq(Nat) /\ Len(hostQueue') = n + 1
      /\ \A i \in 1..(n + 1) : hostQueue'[i] = IF i <= n THEN hostQueue[i] ELSE m + 1
  BY <1>2, <1>6, AppendProperties
<1>8. /\ \A i, j \in 1..n : i < j => hostQueue[i] < hostQueue[j]
                                    /\ games[hostQueue[i]] # games[hostQueue[j]]
      /\ \A g \in 1..m : (\E i \in 1..n : hostQueue[i] = g) <=> fate[g] = "queued"
      /\ \A g, h \in 1..m : g < h /\ games[g] = games[h] => fate[g] # "queued"
  BY DEF GameInv, Turns, QueueOrdered, QueuedIffWaiting, OnceEach
<1>9. \A i \in 1..n : games[hostQueue[i]] # u
  BY <1>1, <1>2 DEF HasQueued
<1> HIDE DEF n, m
<1>10. ASSUME NEW i \in 1..(n + 1), NEW j \in 1..(n + 1), i < j
       PROVE  hostQueue'[i] < hostQueue'[j] /\ games'[hostQueue'[i]] # games'[hostQueue'[j]]
  <2>1. i \in 1..n /\ hostQueue'[i] = hostQueue[i] /\ hostQueue[i] \in 1..m
    BY <1>2, <1>7, <1>10
  <2>2. games'[hostQueue'[i]] = games[hostQueue[i]]
    BY <1>2, <1>3, <2>1
  <2>3. CASE j \in 1..n
    <3>1. hostQueue'[j] = hostQueue[j] /\ hostQueue[j] \in 1..m
      BY <1>2, <1>7, <2>3
    <3>2. games'[hostQueue'[j]] = games[hostQueue[j]]
      BY <1>2, <1>3, <3>1
    <3> QED
      BY <1>8, <1>10, <2>1, <2>2, <2>3, <3>1, <3>2
  <2>4. CASE j = n + 1
    <3>1. hostQueue'[j] = m + 1 /\ games'[m + 1] = u
      BY <1>2, <1>3, <1>7, <2>4
    <3> QED
      BY <1>2, <1>9, <2>1, <2>2, <3>1
  <2> QED
    BY <1>2, <2>3, <2>4
<1>11. ASSUME NEW g \in 1..(m + 1)
       PROVE  (\E i \in 1..(n + 1) : hostQueue'[i] = g) <=> fate'[g] = "queued"
  <2>1. CASE g \in 1..m
    <3>1. (\E i \in 1..(n + 1) : hostQueue'[i] = g) <=> \E i \in 1..n : hostQueue[i] = g
      <4>1. ASSUME NEW i \in 1..(n + 1), hostQueue'[i] = g PROVE \E k \in 1..n : hostQueue[k] = g
        <5>1. i \in 1..n /\ hostQueue[i] = g
          BY <1>2, <1>7, <2>1, <4>1
        <5> QED
          BY <5>1
      <4>2. ASSUME NEW i \in 1..n, hostQueue[i] = g
            PROVE  \E k \in 1..(n + 1) : hostQueue'[k] = g
        <5>1. i \in 1..(n + 1) /\ hostQueue'[i] = g
          BY <1>2, <1>7, <4>2
        <5> QED
          BY <5>1
      <4> QED
        BY <4>1, <4>2
    <3>2. fate'[g] = fate[g]
      BY <1>2, <1>5, <2>1
    <3> QED
      BY <1>8, <2>1, <3>1, <3>2
  <2>2. CASE g = m + 1
    <3>1. fate'[g] = "queued" /\ n + 1 \in 1..(n + 1) /\ hostQueue'[n + 1] = g
      BY <1>2, <1>5, <1>7, <2>2
    <3> QED
      BY <3>1
  <2> QED
    BY <1>2, <2>1, <2>2
<1>12. ASSUME NEW g \in 1..(m + 1), NEW h \in 1..(m + 1), g < h, games'[g] = games'[h]
       PROVE  fate'[g] # "queued"
  <2>1. g \in 1..m /\ games'[g] = games[g] /\ fate'[g] = fate[g]
    BY <1>2, <1>3, <1>5, <1>12
  <2>2. CASE h \in 1..m
    <3>1. games'[h] = games[h]
      BY <1>2, <1>3, <2>2, SMTT(30)
    <3>2. games[g] = games[h]
      BY <1>12, <2>1, <3>1
    <3> QED
      BY <1>8, <1>12, <2>1, <2>2, <3>2
  <2>3. CASE h = m + 1
    <3>1. games'[h] = u
      BY <1>2, <1>3, <2>3
    <3>2. games[g] = u
      BY <1>12, <2>1, <3>1
    <3> QED
      BY <1>8, <1>9, <2>1, <3>2
  <2> QED
    BY <1>2, <2>2, <2>3
<1>13. Turns'
  BY <1>3, <1>7, <1>10, <1>11, <1>12 DEF Turns, QueueOrdered, QueuedIffWaiting, OnceEach
<1>14. \A i \in 1..(n + 1) : hostQueue'[i] \in 1..(m + 1)
  BY <1>2, <1>7
<1>15. GameTypeOK' /\ BusyRest'
  BY <1>1, <1>3, <1>5, <1>7, <1>14 DEF GameInv, GameTypeOK, BusyRest, Load
<1> QED
  BY <1>13, <1>15 DEF GameInv

\* A bot is given an order when it has none, and lists none.
LEMMA HostStep ==
  ASSUME GameInv, NEW arrives \in BOOLEAN, HostGame(arrives)
  PROVE  GameInv'
<1> DEFINE what == IF arrives THEN "ordered" ELSE "lost"
<1>1. what \in Fates /\ what # "queued"
  BY DEF Fates
<1>2. hostQueue # <<>> /\ TakeOut(what) /\ UNCHANGED <<games, botsHere, gamelist, late>>
  BY DEF HostGame, Attempt
<1> HIDE DEF what
<1>3. /\ Turns' /\ fate' \in Seq(Fates) /\ Len(fate') = Len(games')
      /\ \A i \in 1..Len(hostQueue') : hostQueue'[i] \in 1..Len(games')
      /\ hostQueue' \in Seq(Nat)
  BY <1>1, <1>2, TakeOutStep
<1>4. Head(hostQueue) \in Nat
  BY <1>2, HeadTailProperties DEF GameInv, GameTypeOK
<1>5. PICK b \in PotentialBots :
        /\ resting' = resting \cup {b}
        /\ orders' = IF arrives THEN [orders EXCEPT ![b] = Append(@, Head(hostQueue))] ELSE orders
  BY DEF HostGame
<1>6. b \in Bots /\ b \notin resting /\ gamelist[b] = NoOwner /\ (b \notin late => orders[b] = <<>>)
  BY DEF PotentialBots, GameInv, GameTypeOK, BusyRest
<1>7. orders \in [Bots -> Seq(Nat)]
  BY DEF GameInv, GameTypeOK
<1>8. /\ Append(orders[b], Head(hostQueue)) \in Seq(Nat)
      /\ orders[b] = <<>> => Len(Append(orders[b], Head(hostQueue))) = 1
  <2>1. orders[b] \in Seq(Nat)
    BY <1>6, <1>7
  <2> QED
    BY <1>4, <2>1, EmptySeq, AppendProperties
<1>9. orders' \in [Bots -> Seq(Nat)] /\ \A c \in Bots \ {b} : orders'[c] = orders[c]
  BY <1>5, <1>7, <1>8
<1>10. ASSUME b \notin late PROVE Len(orders'[b]) <= 1
  <2>1. CASE arrives
    BY <1>5, <1>6, <1>7, <1>8, <1>10, <2>1
  <2>2. CASE ~arrives
    BY <1>5, <1>6, <1>10, EmptySeq, <2>2
  <2> QED
    BY <2>1, <2>2
<1>11. BusyRest'
  <2> SUFFICES ASSUME NEW c \in Bots \ late
               PROVE  Load(c)' <= 1 /\ (c \notin resting' => orders'[c] = <<>>)
    BY <1>2 DEF BusyRest
  <2>1. CASE c = b
    <3>1. Len(orders'[b]) \in Nat
      BY <1>6, <1>9, LenProperties
    <3> QED
      BY <1>2, <1>5, <1>6, <1>10, <2>1, <3>1 DEF Load
  <2>2. CASE c # b
    BY <1>2, <1>5, <1>9, <2>2 DEF GameInv, BusyRest, Load
  <2> QED
    BY <2>1, <2>2
<1>12. GameTypeOK'
  BY <1>2, <1>3, <1>9 DEF GameInv, GameTypeOK
<1> QED
  BY <1>3, <1>11, <1>12 DEF GameInv

LEMMA RefuseStep == ASSUME GameInv, RefuseGame PROVE GameInv'
<1>1. hostQueue # <<>> /\ UNCHANGED <<games, resting, botsHere, gamelist, orders, late>>
  BY DEF RefuseGame, Attempt
<1>2. PICK what \in Fates : what # "queued" /\ TakeOut(what)
  <2>1. "refused" \in Fates /\ "lost" \in Fates /\ "refused" # "queued" /\ "lost" # "queued"
    BY DEF Fates
  <2> QED
    BY <2>1, Zenon DEF RefuseGame
<1>3. /\ Turns' /\ fate' \in Seq(Fates) /\ Len(fate') = Len(games')
      /\ \A i \in 1..Len(hostQueue') : hostQueue'[i] \in 1..Len(games')
      /\ hostQueue' \in Seq(Nat)
  BY <1>1, <1>2, TakeOutStep
<1>4. GameTypeOK' /\ BusyRest'
  BY <1>1, <1>3 DEF GameInv, GameTypeOK, BusyRest, Load
<1> QED
  BY <1>3, <1>4 DEF GameInv

\* The order becomes a game in lobby: the only one, of a bot that was in time.
LEMMA BotStep ==
  ASSUME GameInv, NEW b \in Bots, BotHosts(b)
  PROVE  GameInv'
<1> DEFINE t == Tail(orders[b])
           l == Len(orders[b])
<1>1. /\ orders[b] # <<>> /\ DOMAIN gamelist' = DOMAIN gamelist
      /\ \A c \in DOMAIN gamelist \ {b} : gamelist'[c] = gamelist[c]
      /\ orders' = [orders EXCEPT ![b] = t]
      /\ late' = IF orders'[b] = <<>> THEN late \ {b} ELSE late
      /\ UNCHANGED <<games, hostQueue, resting, botsHere, fate>>
  BY DEF BotHosts
<1>2. orders \in [Bots -> Seq(Nat)] /\ DOMAIN gamelist = Bots
  BY DEF GameInv, GameTypeOK
<1>3. t \in Seq(Nat) /\ Len(t) = l - 1 /\ l \in Nat
  BY <1>1, <1>2, HeadTailProperties, LenProperties
<1>4. l \in Nat \ {0}
  BY <1>1, <1>2, EmptySeq
<1>5. ASSUME b \notin late PROVE t = <<>>
  <2>1. l + (IF gamelist[b] = NoOwner THEN 0 ELSE 1) <= 1
    BY <1>5 DEF GameInv, BusyRest, Load
  <2> HIDE DEF l, t
  <2>2. Len(t) = 0
    BY <1>3, <1>4, <2>1
  <2> QED
    BY <1>3, <2>2, EmptySeq
<1> HIDE DEF t
<1>6. orders' \in [Bots -> Seq(Nat)] /\ orders'[b] = t
      /\ \A c \in Bots \ {b} : orders'[c] = orders[c]
  BY <1>1, <1>2, <1>3
<1>7. BusyRest'
  <2> SUFFICES ASSUME NEW c \in Bots, c \notin late'
               PROVE  Load(c)' <= 1 /\ (c \notin resting' => orders'[c] = <<>>)
    BY DEF BusyRest
  <2>1. CASE c = b
    <3>1. orders'[c] = <<>> /\ Len(orders'[c]) = 0
      BY <1>1, <1>5, <1>6, <2>1, EmptySeq
    <3> QED
      BY <3>1 DEF Load
  <2>2. CASE c # b
    BY <1>1, <1>2, <1>6, <2>2 DEF GameInv, BusyRest, Load
  <2> QED
    BY <2>1, <2>2
<1>8. GameTypeOK'
  BY <1>1, <1>2, <1>6 DEF GameInv, GameTypeOK
<1>9. Turns'
  BY <1>1 DEF GameInv, Turns, QueueOrdered, QueuedIffWaiting, OnceEach
<1> QED
  BY <1>7, <1>8, <1>9 DEF GameInv

LEMMA GameStep == GameInv /\ [GameNext]_gameVars => GameInv'
<1> SUFFICES ASSUME GameInv, [GameNext]_gameVars PROVE GameInv'
  OBVIOUS
<1>1. CASE \E u \in Owners : QueueGame(u) \/ Unhost(u)
  BY <1>1, QueueStep, UnhostStep
<1>2. CASE RefuseGame \/ \E arrives \in BOOLEAN : HostGame(arrives)
  BY <1>2, RefuseStep, HostStep
<1>3. CASE \E b \in Bots : BotHosts(b)
  BY <1>3, BotStep
<1>4. CASE \/ \E u \in Owners : LoadMap(u)
           \/ HostNothing \/ PauseOver \/ UNCHANGED gameVars
  <2>1. UNCHANGED <<games, hostQueue, resting, botsHere, gamelist, orders, late, fate>>
    BY <1>4 DEF LoadMap, HostNothing, PauseOver, gameVars
  <2> QED
    BY <2>1 DEF GameInv, GameTypeOK, BusyRest, Load, Turns, QueueOrdered, QueuedIffWaiting, OnceEach
<1>5. CASE \E b \in Bots : RestOver(b) \/ BotStarts(b) \/ BotMoves(b)
  <2> PICK b \in Bots : RestOver(b) \/ BotStarts(b) \/ BotMoves(b)
    BY <1>5
  <2>1. UNCHANGED <<games, hostQueue, orders, fate>>
    BY DEF RestOver, BotStarts, BotMoves
  <2>2. botsHere' \subseteq Bots /\ DOMAIN gamelist' = Bots
    BY DEF RestOver, BotStarts, BotMoves, GameInv, GameTypeOK
  <2>3. BusyRest'
    <3> SUFFICES ASSUME NEW c \in Bots, c \notin late'
                 PROVE  Load(c)' <= 1 /\ (c \notin resting' => orders'[c] = <<>>)
      BY DEF BusyRest
    <3>0. c \notin late
      BY DEF RestOver, BotStarts, BotMoves
    <3>1. Load(c) <= 1 /\ Len(orders[c]) \in Nat /\ (c \notin resting => orders[c] = <<>>)
      BY <3>0, LenProperties DEF GameInv, BusyRest, GameTypeOK
    <3>2. gamelist'[c] = gamelist[c] \/ gamelist'[c] = NoOwner
      BY DEF RestOver, BotStarts, BotMoves, GameInv, GameTypeOK
    <3>3. c \in resting \ resting' => orders[c] = <<>>
      BY DEF RestOver, BotStarts, BotMoves
    <3> QED
      <4>1. c \notin resting' => orders'[c] = <<>>
        BY <2>1, <3>1, <3>3
      <4> DEFINE l == Len(orders[c])
      <4>2. l \in Nat /\ l + (IF gamelist[c] = NoOwner THEN 0 ELSE 1) <= 1
        BY <3>1 DEF Load
      <4>3. Load(c)' = l + (IF gamelist'[c] = NoOwner THEN 0 ELSE 1)
        BY <2>1 DEF Load
      <4> HIDE DEF l
      <4>4. Load(c)' <= 1
        BY <3>2, <4>2, <4>3
      <4> QED
        BY <4>1, <4>4
  <2> QED
    BY <2>1, <2>2, <2>3, ZenonT(60) DEF GameInv, GameTypeOK, Turns, QueueOrdered, QueuedIffWaiting, OnceEach
<1> QED
  BY <1>1, <1>2, <1>3, <1>4, <1>5 DEF GameNext

\* However many bots and games there are, however late the bots list what they host and
\* whichever whispers are lost, none is given a game before it is done with the one it has,
\* unless it had not begun that within ten seconds; and no game is handed out twice, or
\* ahead of another (gamequeue.py:83-147).
THEOREM GamesPlaced == GameInit /\ [][GameNext]_gameVars => []GamesWellPlaced
BY GameInitInv, GameStep, GameInvGood, PTL

-----------------------------------------------------------------------------
(* The console.  While the main loop holds the mutex the slot does not     *)
(* change, and the servers before serverTurn have had the line in it; a    *)
(* line that was begun and is not there any more was finished.             *)

Run == [line : Nat, server : Nat, as : {"command", "chat"}]

ConsoleTypeOK ==
  /\ typed \in Seq(LineKinds) /\ ran \in Seq(Run)
  /\ readLine \in 0..Len(typed) /\ inputMessage \in 0..Len(typed)
  /\ serverTurn \in 1..(Len(Triggers) + 1) /\ mainHolds \in BOOLEAN

SlotOK ==
  /\ readLine # NoLine => readLine = Len(typed) /\ inputMessage # readLine
  /\ mainHolds /\ serverTurn <= Len(Triggers) => inputMessage # NoLine

Had(i) ==
  /\ ran[i].line \in 1..Len(typed) /\ ran[i].line # readLine
  /\ ran[i].server \in ServerNumbers
  /\ inputMessage # NoLine => ran[i].line <= inputMessage
  /\ ran[i].line = inputMessage => mainHolds /\ ran[i].server < serverTurn
  /\ ran[i].line # inputMessage => Done(ran[i].line)

RunsOK == \A i \in 1..Len(ran) : Had(i)

BegunInTurn == mainHolds /\ inputMessage # NoLine =>
                 \A s \in ServerNumbers : s < serverTurn => s \in RanAt(inputMessage)

After(i, j) == \/ ran[i].line < ran[j].line /\ Done(ran[i].line)
               \/ ran[i].line = ran[j].line /\ ran[i].server < ran[j].server

RunsOrdered == \A i, j \in 1..Len(ran) : i < j => After(i, j)

Over(l) == typed[l].blank \/ Done(l) \/ (l \in overwritten /\ RanAt(l) = {})

NoneLost == \A l \in 1..Len(typed) : l # readLine /\ l # inputMessage => Over(l)

ConsoleInv == /\ ConsoleTypeOK /\ SlotOK /\ RunsOK /\ BegunInTurn
              /\ RunsOrdered /\ NoneLost

LEMMA Servers == ServerNumbers = 1..Len(Triggers) /\ Len(Triggers) \in Nat
BY ConsoleAssumption, LenProperties DEF ServerNumbers

LEMMA ConsoleInvGood == ConsoleInv => LinesInOrder
<1> SUFFICES ASSUME ConsoleInv PROVE LinesInOrder
  OBVIOUS
<1>1. DOMAIN ran = 1..Len(ran) /\ DOMAIN typed = 1..Len(typed)
  BY LenProperties DEF ConsoleInv, ConsoleTypeOK
<1> QED
  BY <1>1 DEF LinesInOrder, ConsoleInv, RunsOrdered, After, NoneLost, Over

LEMMA ConsoleInitInv == ConsoleInit => ConsoleInv
<1> SUFFICES ASSUME ConsoleInit PROVE ConsoleInv
  OBVIOUS
<1>1. \A S : <<>> \in Seq(S) /\ Len(<<>>) = 0
  BY EmptySeq
<1>2. ConsoleTypeOK
  <2>1. typed \in Seq(LineKinds) /\ ran \in Seq(Run) /\ Len(typed) = 0
    BY <1>1 DEF ConsoleInit
  <2>2. readLine \in 0..0 /\ inputMessage \in 0..0 /\ serverTurn \in 1..(Len(Triggers) + 1)
    BY Servers DEF ConsoleInit, NoLine
  <2> QED
    BY <2>1, <2>2 DEF ConsoleInit, ConsoleTypeOK
<1>3. SlotOK /\ RunsOK /\ BegunInTurn /\ RunsOrdered /\ NoneLost
  BY <1>1 DEF ConsoleInit, SlotOK, RunsOK, BegunInTurn, RunsOrdered, NoneLost, NoLine
<1> QED
  BY <1>2, <1>3 DEF ConsoleInv

LEMMA ReadStep == ASSUME ConsoleInv, NEW kind \in LineKinds, ReadLine(kind) PROVE ConsoleInv'
<1> DEFINE m == Len(typed)
<1>1. /\ readLine = NoLine /\ typed' = Append(typed, kind) /\ readLine' = Len(typed')
      /\ UNCHANGED <<inputMessage, mainHolds, serverTurn, ran, overwritten>>
  BY DEF ReadLine
<1>2. m \in Nat /\ typed \in Seq(LineKinds) /\ inputMessage \in 0..m
  BY LenProperties DEF ConsoleInv, ConsoleTypeOK
<1>3. /\ typed' \in Seq(LineKinds) /\ Len(typed') = m + 1
      /\ \A l \in 1..(m + 1) : typed'[l] = IF l <= m THEN typed[l] ELSE kind
  BY <1>1, <1>2, AppendProperties
<1>4. \A l : RanAt(l)' = RanAt(l) /\ Done(l)' = Done(l)
  BY <1>1 DEF RanAt, Done
<1> HIDE DEF m
<1>5. readLine' = m + 1
  BY <1>1, <1>3
<1>6. ConsoleTypeOK'
  BY <1>1, <1>2, <1>3, <1>5 DEF ConsoleInv, ConsoleTypeOK
<1>7. SlotOK'
  BY <1>1, <1>2, <1>3, <1>5 DEF ConsoleInv, SlotOK
<1>8. RunsOK'
  <2> SUFFICES ASSUME NEW i \in 1..Len(ran) PROVE Had(i)'
    BY <1>1 DEF RunsOK
  <2>1. Had(i)
    BY DEF ConsoleInv, RunsOK
  <2>2. ran[i].line \in 1..(m + 1) /\ ran[i].line # m + 1
    BY <1>2, <2>1 DEF Had, m
  <2> QED
    BY <1>1, <1>3, <1>4, <1>5, <2>1, <2>2 DEF Had
<1>9. BegunInTurn' /\ RunsOrdered'
  BY <1>1, <1>4 DEF ConsoleInv, BegunInTurn, RunsOrdered, After
<1>10. NoneLost'
  <2> SUFFICES ASSUME NEW l \in 1..(m + 1), l # m + 1, l # inputMessage PROVE Over(l)'
    BY <1>1, <1>3, <1>5 DEF NoneLost
  <2>1. l \in 1..m /\ l # readLine
    BY <1>1, <1>2 DEF NoLine
  <2>2. Over(l)
    BY <2>1 DEF ConsoleInv, NoneLost, m
  <2>3. typed'[l] = typed[l]
    BY <1>2, <1>3, <2>1
  <2> QED
    BY <1>1, <1>4, <2>2, <2>3 DEF Over
<1> QED
  BY <1>6, <1>7, <1>8, <1>9, <1>10 DEF ConsoleInv

LEMMA StoreStep == ASSUME ConsoleInv, StoreLine PROVE ConsoleInv'
<1>1. /\ readLine # NoLine /\ ~mainHolds /\ readLine' = NoLine
      /\ inputMessage' = IF typed[readLine].blank THEN NoLine ELSE readLine
      /\ overwritten' = IF inputMessage = NoLine THEN overwritten
                        ELSE overwritten \cup {inputMessage}
      /\ UNCHANGED <<typed, mainHolds, serverTurn, ran>>
  BY DEF StoreLine
<1>2. \A l : RanAt(l)' = RanAt(l) /\ Done(l)' = Done(l)
  BY <1>1 DEF RanAt, Done
<1>3. readLine = Len(typed) /\ Len(typed) \in Nat
  BY <1>1, LenProperties DEF ConsoleInv, SlotOK, ConsoleTypeOK
<1>4. ConsoleTypeOK'
  BY <1>1, <1>3 DEF ConsoleInv, ConsoleTypeOK, NoLine
<1>5. SlotOK' /\ BegunInTurn'
  BY <1>1 DEF SlotOK, BegunInTurn
<1>6. \A i \in 1..Len(ran) : Had(i) /\ ran[i].line # inputMessage
  BY <1>1 DEF ConsoleInv, RunsOK, Had
<1>7. RunsOK'
  <2> SUFFICES ASSUME NEW i \in 1..Len(ran) PROVE Had(i)'
    BY <1>1 DEF RunsOK
  <2>1. ran[i].line \in 1..Len(typed) /\ ran[i].line # readLine
    BY <1>6 DEF Had
  <2>2. inputMessage' = NoLine \/ inputMessage' = readLine
    BY <1>1
  <2> QED
    BY <1>1, <1>2, <1>3, <1>6, <2>1, <2>2 DEF Had, NoLine
<1>8. RunsOrdered'
  BY <1>1, <1>2 DEF ConsoleInv, RunsOrdered, After
<1>9. NoneLost'
  <2> SUFFICES ASSUME NEW l \in 1..Len(typed), l # inputMessage' PROVE Over(l)'
    BY <1>1 DEF NoneLost
  <2>1. CASE l = readLine
    BY <1>1, <2>1 DEF Over
  <2>2. CASE l # readLine /\ l = inputMessage
    <3>1. l \in overwritten'
      BY <1>1, <2>2 DEF NoLine
    <3>2. RanAt(l) = {}
      <4>1. DOMAIN ran = 1..Len(ran)
        BY LenProperties DEF ConsoleInv, ConsoleTypeOK
      <4> QED
        BY <1>6, <2>2, <4>1 DEF RanAt
    <3> QED
      BY <1>2, <3>1, <3>2 DEF Over
  <2>3. CASE l # readLine /\ l # inputMessage
    <3>1. Over(l)
      BY <2>3 DEF ConsoleInv, NoneLost
    <3>2. l \in overwritten => l \in overwritten'
      BY <1>1
    <3> QED
      BY <1>1, <1>2, <3>1, <3>2 DEF Over
  <2> QED
    BY <2>1, <2>2, <2>3
<1> QED
  BY <1>4, <1>5, <1>7, <1>8, <1>9 DEF ConsoleInv

LEMMA BeginStep == ASSUME ConsoleInv, BeginInput PROVE ConsoleInv'
<1>1. /\ ~mainHolds /\ mainHolds' = TRUE
      /\ serverTurn' = IF inputMessage = NoLine THEN Len(Triggers) + 1 ELSE 1
      /\ UNCHANGED <<typed, readLine, inputMessage, ran, overwritten>>
  BY DEF BeginInput
<1>2. \A l : RanAt(l)' = RanAt(l) /\ Done(l)' = Done(l)
  BY <1>1 DEF RanAt, Done
<1>3. ConsoleTypeOK'
  BY <1>1, Servers DEF ConsoleInv, ConsoleTypeOK
<1>4. SlotOK' /\ BegunInTurn'
  BY <1>1, Servers DEF ConsoleInv, SlotOK, BegunInTurn
<1>5. RunsOK'
  BY <1>1, <1>2 DEF ConsoleInv, RunsOK, Had
<1>6. RunsOrdered' /\ NoneLost'
  BY <1>1, <1>2 DEF ConsoleInv, RunsOrdered, After, NoneLost, Over
<1> QED
  BY <1>3, <1>4, <1>5, <1>6 DEF ConsoleInv

LEMMA RunStep == ASSUME ConsoleInv, RunLine PROVE ConsoleInv'
<1> DEFINE n == Len(ran)
           N == Len(Triggers)
<1>1. /\ mainHolds /\ serverTurn \in ServerNumbers /\ serverTurn' = serverTurn + 1
      /\ UNCHANGED <<typed, readLine, inputMessage, mainHolds, overwritten>>
  BY DEF RunLine
<1>2. PICK as \in {"command", "chat"} :
        ran' = Append(ran, [line |-> inputMessage, server |-> serverTurn, as |-> as])
  BY Zenon DEF RunLine
<1> DEFINE r == [line |-> inputMessage, server |-> serverTurn, as |-> as]
<1>3. /\ serverTurn \in 1..N /\ N \in Nat
      /\ inputMessage \in 1..Len(typed) /\ Len(typed) \in Nat /\ inputMessage # readLine
  <2>1. serverTurn \in 1..N /\ N \in Nat
    BY <1>1, Servers
  <2>2. inputMessage # NoLine /\ inputMessage \in 0..Len(typed) /\ Len(typed) \in Nat
    BY <1>1, <2>1, LenProperties DEF ConsoleInv, SlotOK, ConsoleTypeOK
  <2> QED
    BY <2>1, <2>2 DEF ConsoleInv, SlotOK, NoLine
<1>4. ran \in Seq(Run) /\ n \in Nat /\ DOMAIN ran = 1..n /\ r \in Run
  <2>1. ran \in Seq(Run)
    BY DEF ConsoleInv, ConsoleTypeOK
  <2>2. inputMessage \in Nat /\ serverTurn \in Nat
    BY <1>3
  <2> QED
    BY <2>1, <2>2, LenProperties DEF Run
<1>5. r.line = inputMessage /\ r.server = serverTurn /\ ran' = Append(ran, r)
  BY <1>2
<1> HIDE DEF r, N
<1>6. /\ ran' \in Seq(Run) /\ Len(ran') = n + 1
      /\ \A i \in 1..(n + 1) : ran'[i] = IF i <= n THEN ran[i] ELSE r
  BY <1>4, <1>5, AppendProperties
<1>7. DOMAIN ran' = 1..(n + 1)
  BY <1>6, LenProperties
<1> HIDE DEF n
<1>8. /\ \A i \in 1..n : ran'[i] = ran[i] /\ i \in 1..(n + 1)
      /\ ran'[n + 1] = r /\ n + 1 \in 1..(n + 1)
      /\ \A i \in 1..(n + 1) : i \in 1..n \/ i = n + 1
  BY <1>4, <1>6
<1>9. \A l : RanAt(l)' = IF l = inputMessage THEN RanAt(l) \cup {serverTurn} ELSE RanAt(l)
  BY <1>4, <1>5, <1>7, <1>8 DEF RanAt
<1>10. \A i \in 1..n : Had(i)
  BY DEF ConsoleInv, RunsOK, n
<1>11. \A l : Done(l) => Done(l)'
  BY <1>1, <1>9 DEF Done
<1>12. ConsoleTypeOK'
  BY <1>1, <1>3, <1>6 DEF ConsoleInv, ConsoleTypeOK, N
<1>13. SlotOK'
  BY <1>1, <1>3 DEF ConsoleInv, SlotOK, NoLine
<1>14. ASSUME NEW i \in 1..(n + 1) PROVE Had(i)'
  <2>1. CASE i \in 1..n
    <3>1. Had(i) /\ ran'[i] = ran[i]
      BY <1>8, <1>10, <2>1
    <3>2. ran[i].server \in 1..N
      BY <3>1, Servers DEF Had, N
    <3> QED
      BY <1>1, <1>3, <1>11, <3>1, <3>2 DEF Had
  <2>2. CASE i = n + 1
    <3>1. ran'[i].line = inputMessage /\ ran'[i].server = serverTurn
      BY <1>5, <1>8, <2>2
    <3> QED
      BY <1>1, <1>3, <3>1 DEF Had, NoLine
  <2> QED
    BY <1>8, <2>1, <2>2
<1>15. RunsOK'
  BY <1>6, <1>14 DEF RunsOK
<1>16. BegunInTurn'
  <2>1. \A s \in ServerNumbers : s < serverTurn => s \in RanAt(inputMessage)
    BY <1>1, <1>3 DEF ConsoleInv, BegunInTurn, NoLine
  <2>2. \A s \in ServerNumbers : s < serverTurn + 1 => s < serverTurn \/ s = serverTurn
    BY <1>3, Servers
  <2> QED
    BY <1>1, <1>9, <2>1, <2>2 DEF BegunInTurn
<1>17. ASSUME NEW i \in 1..(n + 1), NEW j \in 1..(n + 1), i < j PROVE After(i, j)'
  <2>1. i \in 1..n /\ ran'[i] = ran[i] /\ Had(i)
    BY <1>4, <1>8, <1>10, <1>17
  <2>2. CASE j \in 1..n
    <3>1. ran'[j] = ran[j]
      BY <1>8, <2>2
    <3>2. After(i, j)
      BY <1>17, <2>1, <2>2 DEF ConsoleInv, RunsOrdered, n
    <3> QED
      BY <1>11, <2>1, <3>1, <3>2 DEF After
  <2>3. CASE j = n + 1
    <3>1. ran'[j] = r
      BY <1>8, <2>3
    <3>2. CASE ran[i].line = inputMessage
      BY <1>5, <2>1, <3>1, <3>2 DEF Had, After
    <3>3. CASE ran[i].line # inputMessage
      <4>1. ran[i].line <= inputMessage /\ Done(ran[i].line) /\ ran[i].line \in 1..Len(typed)
        BY <1>3, <2>1, <3>3 DEF Had, NoLine
      <4>2. ran[i].line < inputMessage
        BY <1>3, <3>3, <4>1
      <4> QED
        BY <1>5, <1>11, <2>1, <3>1, <4>1, <4>2 DEF After
    <3> QED
      BY <3>2, <3>3
  <2> QED
    BY <1>8, <2>2, <2>3
<1>18. RunsOrdered'
  BY <1>6, <1>17 DEF RunsOrdered
<1>19. NoneLost'
  BY <1>1, <1>9, <1>11 DEF ConsoleInv, NoneLost, Over
<1> QED
  BY <1>12, <1>13, <1>15, <1>16, <1>18, <1>19 DEF ConsoleInv

LEMMA EndStep == ASSUME ConsoleInv, EndInput PROVE ConsoleInv'
<1>1. /\ mainHolds /\ serverTurn > Len(Triggers)
      /\ inputMessage' = NoLine /\ mainHolds' = FALSE /\ serverTurn' = 1
      /\ UNCHANGED <<typed, readLine, ran, overwritten>>
  BY DEF EndInput
<1>2. \A l : RanAt(l)' = RanAt(l) /\ Done(l)' = Done(l)
  BY <1>1 DEF RanAt, Done
<1>3. inputMessage # NoLine => Done(inputMessage)
  <2>1. DOMAIN ran = 1..Len(ran)
    BY LenProperties DEF ConsoleInv, ConsoleTypeOK
  <2>2. RanAt(inputMessage) \subseteq ServerNumbers
    BY <2>1 DEF ConsoleInv, RunsOK, Had, RanAt
  <2>3. \A s \in ServerNumbers : s < serverTurn
    BY <1>1, Servers DEF ConsoleInv, ConsoleTypeOK
  <2> QED
    BY <1>1, <2>2, <2>3 DEF ConsoleInv, BegunInTurn, Done
<1>4. ConsoleTypeOK'
  <2>1. Len(typed) \in Nat
    BY LenProperties DEF ConsoleInv, ConsoleTypeOK
  <2>2. inputMessage' \in 0..Len(typed')
    BY <1>1, <2>1 DEF NoLine
  <2>3. serverTurn' \in 1..(Len(Triggers) + 1)
    BY <1>1, Servers
  <2> QED
    BY <1>1, <2>2, <2>3 DEF ConsoleInv, ConsoleTypeOK
<1>5. SlotOK' /\ BegunInTurn'
  BY <1>1 DEF ConsoleInv, SlotOK, BegunInTurn, NoLine
<1>6. RunsOK'
  <2> SUFFICES ASSUME NEW i \in 1..Len(ran) PROVE Had(i)'
    BY <1>1 DEF RunsOK
  <2>1. Had(i) /\ ran[i].line # NoLine
    BY DEF ConsoleInv, RunsOK, Had, NoLine
  <2>2. Done(ran[i].line)
    BY <1>3, <2>1 DEF Had
  <2> QED
    BY <1>1, <1>2, <2>1, <2>2 DEF Had
<1>7. RunsOrdered'
  BY <1>1, <1>2 DEF ConsoleInv, RunsOrdered, After
<1>8. NoneLost'
  <2> SUFFICES ASSUME NEW l \in 1..Len(typed), l # readLine PROVE Over(l)'
    BY <1>1 DEF NoneLost
  <2>1. Over(l)
    BY <1>3 DEF ConsoleInv, NoneLost, Over, NoLine
  <2> QED
    BY <1>1, <1>2, <2>1 DEF Over
<1> QED
  BY <1>4, <1>5, <1>6, <1>7, <1>8 DEF ConsoleInv

LEMMA ConsoleStep == ConsoleInv /\ [ConsoleNext]_consoleVars => ConsoleInv'
<1> SUFFICES ASSUME ConsoleInv, [ConsoleNext]_consoleVars PROVE ConsoleInv'
  OBVIOUS
<1>1. CASE UNCHANGED consoleVars
  <2>1. \A l : RanAt(l)' = RanAt(l) /\ Done(l)' = Done(l)
    BY <1>1 DEF RanAt, Done, consoleVars
  <2> QED
    BY <1>1, <2>1 DEF consoleVars, ConsoleInv, ConsoleTypeOK, SlotOK, RunsOK, Had, BegunInTurn,
       RunsOrdered, After, NoneLost, Over
<1> QED
  BY <1>1, ReadStep, StoreStep, BeginStep, RunStep, EndStep DEF ConsoleNext

\* For any number of servers and lines: the console's lines are run in order, by one server
\* after the other, and none is lost but those that were replaced (chop.cpp:710-772).
THEOREM LinesOrdered == ConsoleInit /\ [][ConsoleNext]_consoleVars => []LinesInOrder
BY ConsoleInitInv, ConsoleStep, ConsoleInvGood, PTL

-----------------------------------------------------------------------------
(* The queue plugin.  What a slave has received and what is on its way to  *)
(* it make one stream, which is read in commands as it was written.  What  *)
(* becomes of a program's own queue does not matter to it.                 *)

Parts == [what : {"ask", "header", "body"}, command : Nat]
Sockets == [of : Slaves, master : BOOLEAN, slave : BOOLEAN, accepted : BOOLEAN,
            requests : Seq(Parts), delays : Seq(Nat)]

QueueTypeOK ==
  /\ waiting \in [Programs -> Seq(Nat)] /\ taken \in [Programs -> Seq(Nat)]
  /\ conn \in Seq(Sockets)
  /\ mainSocket \in [Slaves -> 0..Len(conn)]
  /\ packetBuf \in [Slaves -> Seq(Parts)]
  /\ command \in 0..MaxCommands /\ (at # "idle" => command # 0)

\* No connection has two slaves.
OwnSocket == \A s, t \in Slaves : mainSocket[s] = mainSocket[t] /\ mainSocket[s] # NoConn => s = t

Streams == [s \in Slaves |-> IF mainSocket[s] = NoConn THEN packetBuf[s]
                             ELSE packetBuf[s] \o conn[mainSocket[s]].requests]

\* A header is followed by its body, and a body follows a header.
InTurn(u) ==
  \A i \in 1..Len(u) :
    /\ u[i].what = "header" => i + 1 \in 1..Len(u) /\ u[i + 1] = Body(u[i].command)
    /\ u[i].what = "body" => i - 1 \in 1..Len(u) /\ u[i - 1].what = "header"

\* Where a command is that the master has done with.
SaidAt(v, p, i, c) == i \in 1..Len(v[p]) /\ v[p][i] = c
BodyAt(u, s, i, c) == i \in 1..Len(u[s]) /\ u[s][i].what = "body" /\ u[s][i].command = c
Held(v, u, c) == \/ \E p \in Programs, i \in Nat : SaidAt(v, p, i, c)
                 \/ \E s \in Slaves, i \in Nat : BodyAt(u, s, i, c)

\* It is in one place.
Once(v, u, c) ==
  /\ \A p, q \in Programs, i, j \in Nat :
       SaidAt(v, p, i, c) /\ SaidAt(v, q, j, c) => p = q /\ i = j
  /\ \A s, t \in Slaves, i, j \in Nat :
       BodyAt(u, s, i, c) /\ BodyAt(u, t, j, c) => s = t /\ i = j
  /\ \A p \in Programs, s \in Slaves, i, j \in Nat :
       ~(SaidAt(v, p, i, c) /\ BodyAt(u, s, j, c))

\* The master has done with the commands up to the last, and with that when it is idle.
DoneWith(c) == c \in 1..command /\ (at # "idle" => c # command)

QueueInv == /\ QueueTypeOK /\ OwnSocket
            /\ \A s \in Slaves : InTurn(Streams[s])
            /\ \A c \in Nat : Once(taken, Streams, c)
            /\ \A c \in Nat : Held(taken, Streams, c) => DoneWith(c)

\* A step loses no command.
Keeping == \A c \in Nat : Held(taken, Streams, c) => Held(taken', Streams', c)

LEMMA SayNew ==
  ASSUME NEW v \in [Programs -> Seq(Nat)], NEW u, NEW p0 \in Programs, NEW c0 \in Nat,
         \A c \in Nat : Once(v, u, c), ~Held(v, u, c0)
  PROVE  LET w == [v EXCEPT ![p0] = Append(@, c0)]
         IN  /\ w \in [Programs -> Seq(Nat)]
             /\ \A c \in Nat : Once(w, u, c) /\ (Held(w, u, c) => Held(v, u, c) \/ c = c0)
<1> DEFINE w == [v EXCEPT ![p0] = Append(@, c0)]
           n == Len(v[p0]) + 1
<1>1. /\ w \in [Programs -> Seq(Nat)] /\ w[p0] = Append(v[p0], c0)
      /\ \A p \in Programs : p # p0 => w[p] = v[p]
  OBVIOUS
<1>2. /\ Len(v[p0]) \in Nat /\ Len(w[p0]) = n /\ n \in Nat
      /\ \A i \in 1..Len(v[p0]) : w[p0][i] = v[p0][i]
      /\ w[p0][n] = c0
  BY <1>1, AppendProperties, LenProperties
<1> HIDE DEF w
<1>3. ASSUME NEW p \in Programs, NEW i \in Nat, NEW c \in Nat, SaidAt(w, p, i, c)
      PROVE  SaidAt(v, p, i, c) \/ (p = p0 /\ i = n /\ c = c0)
  <2>1. CASE p # p0
    BY <1>1, <1>3, <2>1 DEF SaidAt
  <2>2. CASE p = p0
    <3>1. i \in 1..Len(v[p0]) \/ i = n
      BY <1>2, <1>3, <2>2 DEF SaidAt
    <3> QED
      BY <1>2, <1>3, <2>2, <3>1 DEF SaidAt
  <2> QED
    BY <2>1, <2>2
<1> HIDE DEF n
<1>4. ASSUME NEW c \in Nat
      PROVE  Once(w, u, c) /\ (Held(w, u, c) => Held(v, u, c) \/ c = c0)
  <2>1. CASE c = c0
    <3>1. /\ \A p \in Programs, i \in Nat : SaidAt(w, p, i, c) => p = p0 /\ i = n
          /\ \A s \in Slaves, i \in Nat : ~BodyAt(u, s, i, c)
      BY <1>3, <2>1 DEF Held
    <3> QED
      BY <2>1, <3>1 DEF Once
  <2>2. CASE c # c0
    <3>1. \A p \in Programs, i \in Nat : SaidAt(w, p, i, c) => SaidAt(v, p, i, c)
      BY <1>3, <2>2
    <3>2. Once(v, u, c)
      OBVIOUS
    <3> QED
      BY <3>1, <3>2 DEF Once, Held
  <2> QED
    BY <2>1, <2>2
<1> QED
  BY <1>1, <1>4 DEF w

\* What is left to a program stays left to it.
LEMMA SayKeeps ==
  ASSUME NEW v \in [Programs -> Seq(Nat)], NEW u, NEW p0 \in Programs, NEW c0 \in Nat
  PROVE  LET w == [v EXCEPT ![p0] = Append(@, c0)]
         IN  Held(w, u, c0) /\ \A c \in Nat : Held(v, u, c) => Held(w, u, c)
<1> DEFINE w == [v EXCEPT ![p0] = Append(@, c0)]
           n == Len(v[p0]) + 1
<1>1. w[p0] = Append(v[p0], c0) /\ \A p \in Programs : p # p0 => w[p] = v[p]
  OBVIOUS
<1>2. /\ Len(v[p0]) \in Nat /\ Len(w[p0]) = n /\ n \in Nat
      /\ \A i \in 1..Len(v[p0]) : w[p0][i] = v[p0][i]
      /\ w[p0][n] = c0
  BY <1>1, AppendProperties, LenProperties
<1> HIDE DEF w
<1>3. n \in 1..Len(w[p0]) /\ \A i \in 1..Len(v[p0]) : i \in 1..Len(w[p0])
  BY <1>2
<1>4. SaidAt(w, p0, n, c0)
  BY <1>2, <1>3 DEF SaidAt
<1>5. ASSUME NEW p \in Programs, NEW i \in Nat, NEW c \in Nat, SaidAt(v, p, i, c)
      PROVE  SaidAt(w, p, i, c)
  <2>1. CASE p = p0
    BY <1>2, <1>3, <1>5, <2>1 DEF SaidAt
  <2>2. CASE p # p0
    BY <1>1, <1>5, <2>2 DEF SaidAt
  <2> QED
    BY <2>1, <2>2
<1> HIDE DEF n
<1>6. Held(w, u, c0)
  BY <1>2, <1>4 DEF Held
<1>7. \A c \in Nat : Held(v, u, c) => Held(w, u, c)
  BY <1>5 DEF Held
<1> QED
  BY <1>6, <1>7 DEF w

LEMMA CutStream ==
  ASSUME NEW v, NEW u \in [Slaves -> Seq(Parts)], NEW s0 \in Slaves, NEW t \in Seq(Parts),
         NEW d \in Nat, Len(u[s0]) = d + Len(t), \A i \in 1..Len(t) : t[i] = u[s0][i + d]
  PROVE  LET n == [u EXCEPT ![s0] = t]
         IN  \A c \in Nat :
               /\ Held(v, n, c) => Held(v, u, c)
               /\ Once(v, u, c) => Once(v, n, c)
               /\ Once(v, u, c) /\ (\E i \in 1..d : BodyAt(u, s0, i, c)) => ~Held(v, n, c)
<1> DEFINE n == [u EXCEPT ![s0] = t]
           e(s) == IF s = s0 THEN d ELSE 0
<1>1. /\ n[s0] = t /\ \A s \in Slaves : s # s0 => n[s] = u[s]
      /\ Len(t) \in Nat /\ \A s \in Slaves : Len(u[s]) \in Nat
  BY LenProperties
<1> HIDE DEF n
<1>2. ASSUME NEW c \in Nat, NEW s \in Slaves, NEW i \in Nat, BodyAt(n, s, i, c)
      PROVE  i + e(s) \in Nat /\ i >= 1 /\ BodyAt(u, s, i + e(s), c)
  <2>1. CASE s = s0
    <3>1. i \in 1..Len(t) /\ i + d \in 1..Len(u[s0])
      BY <1>1, <1>2, <2>1 DEF BodyAt
    <3> QED
      BY <1>1, <1>2, <2>1, <3>1 DEF BodyAt
  <2>2. CASE s # s0
    BY <1>1, <1>2, <2>2 DEF BodyAt
  <2> QED
    BY <2>1, <2>2
<1>3. ASSUME NEW c \in Nat, Held(v, n, c) PROVE Held(v, u, c)
  BY <1>2, <1>3 DEF Held
<1>4. ASSUME NEW c \in Nat, Once(v, u, c) PROVE Once(v, n, c)
  <2>1. ASSUME NEW s \in Slaves, NEW r \in Slaves, NEW i \in Nat, NEW j \in Nat,
               BodyAt(n, s, i, c), BodyAt(n, r, j, c)
        PROVE  s = r /\ i = j
    <3>1. /\ i + e(s) \in Nat /\ BodyAt(u, s, i + e(s), c)
          /\ j + e(r) \in Nat /\ BodyAt(u, r, j + e(r), c)
      BY <1>2, <2>1
    <3>2. s = r /\ i + e(s) = j + e(r)
      BY <1>4, <3>1 DEF Once
    <3>3. e(s) \in Nat
      OBVIOUS
    <3> HIDE DEF e
    <3> QED
      BY <3>2, <3>3
  <2>2. ASSUME NEW p \in Programs, NEW s \in Slaves, NEW i \in Nat, NEW j \in Nat,
               SaidAt(v, p, i, c), BodyAt(n, s, j, c)
        PROVE  FALSE
    BY <1>2, <1>4, <2>2, SMTT(30) DEF Once
  <2>3. \A p, q \in Programs, i, j \in Nat :
          SaidAt(v, p, i, c) /\ SaidAt(v, q, j, c) => p = q /\ i = j
    BY <1>4 DEF Once
  <2> QED
    BY <2>1, <2>2, <2>3 DEF Once
<1>5. ASSUME NEW c \in Nat, Once(v, u, c), NEW i \in 1..d, BodyAt(u, s0, i, c), Held(v, n, c)
      PROVE  FALSE
  <2>1. \A p \in Programs, j \in Nat : ~SaidAt(v, p, j, c)
    BY <1>5 DEF Once
  <2>2. PICK s \in Slaves, j \in Nat : BodyAt(n, s, j, c)
    BY <1>5, <2>1 DEF Held
  <2>3. s = s0 /\ j + e(s) = i
    <3>1. j + e(s) \in Nat /\ BodyAt(u, s, j + e(s), c) /\ i \in Nat
      BY <1>2, <2>2
    <3> HIDE DEF e
    <3> QED
      BY <1>5, <3>1 DEF Once
  <2> QED
    BY <1>2, <2>2, <2>3
<1> QED
  BY <1>3, <1>4, <1>5 DEF n

LEMMA ExtendStream ==
  ASSUME NEW v, NEW u \in [Slaves -> Seq(Parts)], NEW s0 \in Slaves, NEW c0 \in Nat,
         \A c \in Nat : Once(v, u, c), ~Held(v, u, c0)
  PROVE  LET n == [u EXCEPT ![s0] = @ \o <<Header(c0), Body(c0)>>]
         IN  \A c \in Nat : Once(v, n, c) /\ (Held(v, n, c) => Held(v, u, c) \/ c = c0)
<1> DEFINE n == [u EXCEPT ![s0] = @ \o <<Header(c0), Body(c0)>>]
           b == <<Header(c0), Body(c0)>>
           m == Len(u[s0]) + 2
<1>1. /\ n[s0] = u[s0] \o b /\ \A s \in Slaves : s # s0 => n[s] = u[s]
      /\ b \in Seq(Parts) /\ Len(b) = 2 /\ b[1] = Header(c0) /\ b[2] = Body(c0)
      /\ u[s0] \in Seq(Parts)
  BY DEF Parts, Header, Body
<1> HIDE DEF n, b
<1>2. /\ Len(u[s0]) \in Nat /\ Len(n[s0]) = m
      /\ \A i \in 1..m : n[s0][i] = IF i <= Len(u[s0]) THEN u[s0][i] ELSE b[i - Len(u[s0])]
  <2>1. /\ Len(u[s0]) \in Nat /\ Len(u[s0] \o b) = Len(u[s0]) + Len(b)
        /\ \A i \in 1..Len(u[s0]) + Len(b) :
             (u[s0] \o b)[i] = IF i <= Len(u[s0]) THEN u[s0][i] ELSE b[i - Len(u[s0])]
    <3>1. u[s0] \in Seq(Parts) /\ b \in Seq(Parts)
      BY <1>1
    <3>2. Len(u[s0]) \in Nat
      BY <3>1, LenProperties
    <3> QED
      BY ONLY <3>1, <3>2, ConcatProperties
  <2> QED
    BY <1>1, <2>1
<1>3. ASSUME NEW s \in Slaves, NEW i \in Nat, NEW c \in Nat, BodyAt(n, s, i, c)
      PROVE  BodyAt(u, s, i, c) \/ (s = s0 /\ i = m /\ c = c0)
  <2>1. CASE s # s0
    BY <1>1, <1>3, <2>1 DEF BodyAt
  <2>2. CASE s = s0
    <3>1. i \in 1..m /\ n[s0][i].what = "body" /\ n[s0][i].command = c
      BY <1>2, <1>3, <2>2 DEF BodyAt
    <3>2. CASE i <= Len(u[s0])
      BY <1>2, <2>2, <3>1, <3>2 DEF BodyAt
    <3>3. CASE i = Len(u[s0]) + 1
      <4>1. n[s0][i] = Header(c0)
        BY <1>1, <1>2, <3>1, <3>3
      <4> QED
        BY <3>1, <4>1 DEF Header
    <3>4. CASE i = m
      <4>1. n[s0][i] = Body(c0)
        BY <1>1, <1>2, <3>1, <3>4
      <4> QED
        BY <2>2, <3>1, <3>4, <4>1 DEF Body
    <3> QED
      BY <1>2, <3>1, <3>2, <3>3, <3>4
  <2> QED
    BY <2>1, <2>2
<1> HIDE DEF m
<1>4. ASSUME NEW c \in Nat
      PROVE  Once(v, n, c) /\ (Held(v, n, c) => Held(v, u, c) \/ c = c0)
  <2>1. CASE c = c0
    <3>1. /\ \A s \in Slaves, i \in Nat : BodyAt(n, s, i, c) => s = s0 /\ i = m
          /\ \A p \in Programs, i \in Nat : ~SaidAt(v, p, i, c)
      BY <1>3, <2>1 DEF Held
    <3> QED
      BY <2>1, <3>1 DEF Once
  <2>2. CASE c # c0
    <3>1. \A s \in Slaves, i \in Nat : BodyAt(n, s, i, c) => BodyAt(u, s, i, c)
      BY <1>3, <2>2
    <3>2. Once(v, u, c)
      OBVIOUS
    <3> QED
      BY <3>1, <3>2 DEF Once, Held
  <2> QED
    BY <2>1, <2>2
<1> QED
  BY <1>4 DEF n

\* What is cut from a stream is all that it loses,
LEMMA CutKeeps ==
  ASSUME NEW v, NEW u \in [Slaves -> Seq(Parts)], NEW s0 \in Slaves, NEW t \in Seq(Parts),
         NEW d \in Nat, Len(u[s0]) = d + Len(t), \A i \in 1..Len(t) : t[i] = u[s0][i + d],
         NEW c, Held(v, u, c), \A i \in 1..d : ~BodyAt(u, s0, i, c)
  PROVE  Held(v, [u EXCEPT ![s0] = t], c)
<1> DEFINE n == [u EXCEPT ![s0] = t]
<1>1. /\ n[s0] = t /\ \A s \in Slaves : s # s0 => n[s] = u[s]
      /\ Len(t) \in Nat
  BY LenProperties
<1> HIDE DEF n
<1>2. ASSUME NEW s \in Slaves, NEW i \in Nat, BodyAt(u, s, i, c) PROVE Held(v, n, c)
  <2>1. CASE s # s0
    <3>1. BodyAt(n, s, i, c)
      BY <1>1, <1>2, <2>1 DEF BodyAt
    <3> QED
      BY <3>1 DEF Held
  <2>2. CASE s = s0
    <3> DEFINE j == i - d
    <3>1. i \in 1..Len(u[s0]) /\ i \notin 1..d
      BY <1>2, <2>2 DEF BodyAt
    <3>2. j \in Nat /\ j \in 1..Len(t) /\ j + d = i
      BY <1>1, <3>1
    <3> HIDE DEF j
    <3>3. n[s0][j] = u[s0][i]
      BY <1>1, <3>2
    <3>4. BodyAt(n, s0, j, c)
      BY <1>1, <1>2, <2>2, <3>2, <3>3 DEF BodyAt
    <3> QED
      BY <3>2, <3>4 DEF Held
  <2> QED
    BY <2>1, <2>2
<1>3. CASE \E p \in Programs, i \in Nat : SaidAt(v, p, i, c)
  BY <1>3 DEF Held
<1> QED
  BY <1>2, <1>3 DEF Held, n

\* and one that is written to loses nothing.
LEMMA ExtendKeeps ==
  ASSUME NEW v, NEW u \in [Slaves -> Seq(Parts)], NEW s0 \in Slaves, NEW b \in Seq(Parts)
  PROVE  LET n == [u EXCEPT ![s0] = @ \o b]
         IN  \A c \in Nat :
               /\ Held(v, u, c) => Held(v, n, c)
               /\ (\E i \in 1..Len(b) : b[i].what = "body" /\ b[i].command = c) => Held(v, n, c)
<1> DEFINE n == [u EXCEPT ![s0] = @ \o b]
           m == Len(u[s0])
<1>1. /\ n[s0] = u[s0] \o b /\ \A s \in Slaves : s # s0 => n[s] = u[s]
      /\ u[s0] \in Seq(Parts)
  OBVIOUS
<1>2. /\ m \in Nat /\ Len(b) \in Nat /\ Len(n[s0]) = m + Len(b)
      /\ \A i \in 1..m + Len(b) : n[s0][i] = IF i <= m THEN u[s0][i] ELSE b[i - m]
  <2>1. /\ Len(u[s0] \o b) = Len(u[s0]) + Len(b)
        /\ \A i \in 1..Len(u[s0]) + Len(b) :
             (u[s0] \o b)[i] = IF i <= Len(u[s0]) THEN u[s0][i] ELSE b[i - Len(u[s0])]
    <3>1. u[s0] \in Seq(Parts) /\ b \in Seq(Parts)
      BY <1>1
    <3> QED
      BY ONLY <3>1, ConcatProperties
  <2> QED
    BY <1>1, <2>1, LenProperties
<1> HIDE DEF n
<1>3. ASSUME NEW c \in Nat, NEW s \in Slaves, NEW i \in Nat, BodyAt(u, s, i, c)
      PROVE  BodyAt(n, s, i, c)
  <2>1. CASE s # s0
    BY <1>1, <1>3, <2>1 DEF BodyAt
  <2>2. CASE s = s0
    <3>1. i \in 1..m /\ i \in 1..m + Len(b) /\ i <= m
      BY <1>2, <1>3, <2>2 DEF BodyAt
    <3> QED
      BY <1>2, <1>3, <2>2, <3>1 DEF BodyAt
  <2> QED
    BY <2>1, <2>2
<1>4. ASSUME NEW c \in Nat, NEW i \in 1..Len(b), b[i].what = "body", b[i].command = c
      PROVE  Held(v, n, c)
  <2>1. m + i \in Nat /\ m + i \in 1..m + Len(b) /\ ~(m + i <= m) /\ (m + i) - m = i
    BY <1>2
  <2>2. BodyAt(n, s0, m + i, c)
    BY <1>2, <1>4, <2>1 DEF BodyAt
  <2> QED
    BY <2>1, <2>2 DEF Held
<1>5. \A c \in Nat : Held(v, u, c) => Held(v, n, c)
  BY <1>3 DEF Held
<1> QED
  BY <1>4, <1>5 DEF n

\* Commands stay whole: one is read from the front, or written behind the last.
LEMMA CutInTurn ==
  ASSUME NEW u \in Seq(Parts), NEW t \in Seq(Parts), NEW d \in Nat, Len(u) = d + Len(t),
         \A i \in 1..Len(t) : t[i] = u[i + d],
         InTurn(u), d + 1 \in 1..Len(u) => u[d + 1].what # "body"
  PROVE  InTurn(t)
<1>1. Len(t) \in Nat /\ Len(u) \in Nat
  BY LenProperties
<1>2. ASSUME NEW i \in 1..Len(t)
      PROVE  /\ t[i].what = "header" => i + 1 \in 1..Len(t) /\ t[i + 1] = Body(t[i].command)
             /\ t[i].what = "body" => i - 1 \in 1..Len(t) /\ t[i - 1].what = "header"
  <2>1. i + d \in 1..Len(u) /\ t[i] = u[i + d]
    BY <1>1
  <2>2. CASE t[i].what = "header"
    <3>1. (i + d) + 1 \in 1..Len(u) /\ u[(i + d) + 1] = Body(t[i].command)
      BY <2>1, <2>2 DEF InTurn
    <3>2. i + 1 \in 1..Len(t) /\ (i + 1) + d = (i + d) + 1
      BY <1>1, <3>1, SMTT(30)
    <3>3. t[i + 1] = u[(i + d) + 1]
      BY <3>2
    <3> QED
      BY <2>2, <3>1, <3>2, <3>3
  <2>3. CASE t[i].what = "body"
    <3>1. (i + d) - 1 \in 1..Len(u) /\ u[(i + d) - 1].what = "header"
      BY <2>1, <2>3 DEF InTurn
    <3>2. i # 1
      <4> SUFFICES ASSUME i = 1 PROVE FALSE
        OBVIOUS
      <4>1. d + 1 = i + d
        OBVIOUS
      <4> QED
        BY <2>1, <2>3, <4>1
    <3>3. i - 1 \in 1..Len(t) /\ (i - 1) + d = (i + d) - 1
      BY <1>1, <3>2
    <3>4. t[i - 1] = u[(i + d) - 1]
      BY <3>3
    <3> QED
      BY <2>3, <3>1, <3>3, <3>4
  <2> QED
    BY <2>2, <2>3
<1> QED
  BY <1>2 DEF InTurn

LEMMA ExtendInTurn ==
  ASSUME NEW u \in Seq(Parts), InTurn(u), NEW b \in Seq(Parts), InTurn(b)
  PROVE  u \o b \in Seq(Parts) /\ InTurn(u \o b)
<1> DEFINE t == u \o b
           m == Len(u)
           n == Len(b)
<1>1. /\ m \in Nat /\ n \in Nat /\ t \in Seq(Parts) /\ Len(t) = m + n
      /\ \A i \in 1..m + n : t[i] = IF i <= m THEN u[i] ELSE b[i - m]
  BY ConcatProperties, LenProperties
<1> HIDE DEF t, m, n
<1>2. /\ \A i \in 1..m : i \in 1..m + n /\ t[i] = u[i]
      /\ \A i \in 1..n : m + i \in 1..m + n /\ t[m + i] = b[i]
  <2>1. \A i \in 1..n : m + i \in 1..m + n /\ ~(m + i <= m) /\ (m + i) - m = i
    BY <1>1
  <2>2. \A i \in 1..m : i \in 1..m + n /\ i <= m
    BY <1>1
  <2> QED
    BY <1>1, <2>1, <2>2
<1>3. \A i \in 1..m + n : i \in 1..m \/ (i - m \in 1..n /\ m + (i - m) = i)
  BY <1>1
<1>4. ASSUME NEW i \in 1..m + n
      PROVE  /\ t[i].what = "header" => i + 1 \in 1..m + n /\ t[i + 1] = Body(t[i].command)
             /\ t[i].what = "body" => i - 1 \in 1..m + n /\ t[i - 1].what = "header"
  <2>1. CASE i \in 1..m
    <3>1. /\ u[i].what = "header" => i + 1 \in 1..m /\ u[i + 1] = Body(u[i].command)
          /\ u[i].what = "body" => i - 1 \in 1..m /\ u[i - 1].what = "header"
      BY <2>1 DEF InTurn, m
    <3> QED
      BY <1>2, <2>1, <3>1
  <2>2. CASE i - m \in 1..n /\ m + (i - m) = i
    <3> DEFINE k == i - m
    <3>1. /\ b[k].what = "header" => k + 1 \in 1..n /\ b[k + 1] = Body(b[k].command)
          /\ b[k].what = "body" => k - 1 \in 1..n /\ b[k - 1].what = "header"
      BY <2>2 DEF InTurn, n
    <3>2. m + (k + 1) = i + 1 /\ m + (k - 1) = i - 1 /\ t[i] = b[k]
      BY <1>1, <1>2, <2>2
    <3> HIDE DEF k
    <3> QED
      BY <1>2, <3>1, <3>2
  <2> QED
    BY <1>3, <2>1, <2>2
<1>5. InTurn(t)
  BY <1>1, <1>4 DEF InTurn
<1> QED
  BY <1>1, <1>5 DEF t

\* A delay that is asked for is no command.
LEMMA AskStream ==
  ASSUME NEW v, NEW u \in [Slaves -> Seq(Parts)], NEW s0 \in Slaves
  PROVE  LET n == [u EXCEPT ![s0] = @ \o <<Ask>>]
         IN  \A c \in Nat : /\ Once(v, u, c) => Once(v, n, c)
                            /\ Held(v, n, c) => Held(v, u, c)
<1> DEFINE n == [u EXCEPT ![s0] = @ \o <<Ask>>]
           b == <<Ask>>
           m == Len(u[s0])
<1>1. /\ n[s0] = u[s0] \o b /\ \A s \in Slaves : s # s0 => n[s] = u[s]
      /\ b \in Seq(Parts) /\ Len(b) = 1 /\ b[1] = Ask /\ u[s0] \in Seq(Parts)
  BY DEF Parts, Ask, Torn
<1> HIDE DEF n, b
<1>2. /\ m \in Nat /\ Len(n[s0]) = m + 1
      /\ \A i \in 1..m + 1 : n[s0][i] = IF i <= m THEN u[s0][i] ELSE b[i - m]
  <2>1. /\ m \in Nat /\ Len(u[s0] \o b) = m + Len(b)
        /\ \A i \in 1..m + Len(b) : (u[s0] \o b)[i] = IF i <= m THEN u[s0][i] ELSE b[i - m]
    BY <1>1, ConcatProperties, LenProperties, ZenonT(60)
  <2> QED
    BY <1>1, <2>1
<1> HIDE DEF m
<1>3. ASSUME NEW s \in Slaves, NEW i \in Nat, NEW c \in Nat, BodyAt(n, s, i, c)
      PROVE  BodyAt(u, s, i, c)
  <2>1. CASE s # s0
    BY <1>1, <1>3, <2>1 DEF BodyAt
  <2>2. CASE s = s0
    <3>1. i \in 1..m + 1 /\ n[s0][i].what = "body" /\ n[s0][i].command = c
      BY <1>2, <1>3, <2>2 DEF BodyAt
    <3>2. CASE i <= m
      BY <1>2, <2>2, <3>1, <3>2 DEF BodyAt, m
    <3>3. CASE ~(i <= m)
      <4>1. n[s0][i] = Ask
        BY <1>1, <1>2, <3>1, <3>3
      <4> QED
        BY <3>1, <4>1 DEF Ask
    <3> QED
      BY <3>2, <3>3
  <2> QED
    BY <2>1, <2>2
<1>4. ASSUME NEW c \in Nat, Held(v, n, c) PROVE Held(v, u, c)
  BY <1>3, <1>4 DEF Held
<1>5. ASSUME NEW c \in Nat, Once(v, u, c) PROVE Once(v, n, c)
  BY <1>3, <1>5 DEF Once
<1> QED
  BY <1>4, <1>5 DEF n

\* What becomes of a connection, at either end, leaves the others.
LEMMA SocketUpdate ==
  ASSUME QueueTypeOK, NEW c, NEW r, c \in 1..Len(conn) => r \in Sockets,
         conn' = [conn EXCEPT ![c] = r]
  PROVE  /\ conn' \in Seq(Sockets) /\ Len(conn') = Len(conn)
         /\ \A k \in 1..Len(conn) : conn'[k] = IF k = c THEN r ELSE conn[k]
<1>1. conn \in Seq(Sockets) /\ DOMAIN conn = 1..Len(conn) /\ conn \in [1..Len(conn) -> Sockets]
  BY LenProperties DEF QueueTypeOK
<1>2. CASE c \in 1..Len(conn)
  BY <1>1, <1>2, ExceptSeq
<1>3. CASE c \notin 1..Len(conn)
  <2>1. [conn EXCEPT ![c] = r] = conn
    BY <1>1, <1>3
  <2> QED
    BY <1>1, <1>3, <2>1
<1> QED
  BY <1>2, <1>3

\* What is sent is on its way behind what was.
LEMMA SendChange ==
  ASSUME QueueTypeOK, NEW c, NEW b \in Seq(Parts), Send(c, b)
  PROVE  /\ conn' \in Seq(Sockets) /\ Len(conn') = Len(conn)
         /\ \A k \in 1..Len(conn) :
              conn'[k].requests = IF k = c THEN conn[k].requests \o b ELSE conn[k].requests
<1>0. conn \in Seq(Sockets) /\ \A k \in 1..Len(conn) : conn[k] \in Sockets
  BY ElementOfSeq DEF QueueTypeOK
<1> DEFINE r == [conn[c] EXCEPT !.requests = @ \o b]
<1>1. c \in 1..Len(conn) => r \in Sockets /\ r.requests = conn[c].requests \o b
  <2> SUFFICES ASSUME c \in 1..Len(conn) PROVE r \in Sockets /\ r.requests = conn[c].requests \o b
    OBVIOUS
  <2>1. conn[c] \in Sockets /\ conn[c].requests \in Seq(Parts)
    BY <1>0 DEF Sockets
  <2>2. conn[c].requests \o b \in Seq(Parts)
    BY <2>1, ConcatProperties
  <2> QED
    BY <2>1, <2>2 DEF Sockets
<1>2. conn' = [conn EXCEPT ![c] = r]
  BY DEF Send
<1> HIDE DEF r
<1>3. /\ conn' \in Seq(Sockets) /\ Len(conn') = Len(conn)
      /\ \A k \in 1..Len(conn) : conn'[k] = IF k = c THEN r ELSE conn[k]
  <2>1. c \in 1..Len(conn) => r \in Sockets
    BY <1>1
  <2>2. QueueTypeOK
    OBVIOUS
  <2> QED
    BY ONLY <1>2, <2>1, <2>2, SocketUpdate
<1> QED
  BY <1>1, <1>3

\* The bytes on their way are touched by nothing but sending and reading.
LEMMA SocketChange ==
  ASSUME QueueTypeOK, NEW c,
         \/ CloseAtMaster(c)
         \/ conn' = [conn EXCEPT ![c].delays = Tail(@)] /\ conn[c].delays # <<>>
         \/ \E n \in Nat : conn' = [conn EXCEPT ![c].delays = Append(@, n)]
         \/ conn' = [conn EXCEPT ![c].accepted = TRUE]
         \/ conn' = [conn EXCEPT ![c].slave = FALSE]
         \/ UNCHANGED conn
  PROVE  /\ conn' \in Seq(Sockets) /\ Len(conn') = Len(conn)
         /\ \A k \in 1..Len(conn) : conn'[k].requests = conn[k].requests
<1>0. conn \in Seq(Sockets) /\ \A k \in 1..Len(conn) : conn[k] \in Sockets
  BY ElementOfSeq DEF QueueTypeOK
<1>1. ASSUME NEW r, c \in 1..Len(conn) => r \in Sockets /\ r.requests = conn[c].requests,
             conn' = [conn EXCEPT ![c] = r]
      PROVE  /\ conn' \in Seq(Sockets) /\ Len(conn') = Len(conn)
             /\ \A k \in 1..Len(conn) : conn'[k].requests = conn[k].requests
  <2>1. /\ conn' \in Seq(Sockets) /\ Len(conn') = Len(conn)
        /\ \A k \in 1..Len(conn) : conn'[k] = IF k = c THEN r ELSE conn[k]
    <3>1. c \in 1..Len(conn) => r \in Sockets
      BY <1>1
    <3>2. conn' = [conn EXCEPT ![c] = r]
      BY <1>1
    <3>3. QueueTypeOK
      OBVIOUS
    <3> QED
      BY ONLY <3>1, <3>2, <3>3, SocketUpdate
  <2> QED
    BY <1>1, <2>1
<1>2. CASE CloseAtMaster(c)
  <2> DEFINE r == [conn[c] EXCEPT !.master = FALSE, !.delays = <<>>]
  <2>1. c \in 1..Len(conn) => r \in Sockets /\ r.requests = conn[c].requests
    <3> SUFFICES ASSUME c \in 1..Len(conn) PROVE r \in Sockets /\ r.requests = conn[c].requests
      OBVIOUS
    <3>1. conn[c] \in Sockets /\ <<>> \in Seq(Nat)
      BY <1>0
    <3> QED
      BY <3>1 DEF Sockets
  <2>2. conn' = [conn EXCEPT ![c] = r]
    BY <1>2 DEF CloseAtMaster
  <2> HIDE DEF r
  <2> QED
    BY <1>1, <2>1, <2>2
<1>3. CASE conn' = [conn EXCEPT ![c].delays = Tail(@)] /\ conn[c].delays # <<>>
  <2> DEFINE r == [conn[c] EXCEPT !.delays = Tail(@)]
  <2>1. c \in 1..Len(conn) => r \in Sockets /\ r.requests = conn[c].requests
    <3> SUFFICES ASSUME c \in 1..Len(conn) PROVE r \in Sockets /\ r.requests = conn[c].requests
      OBVIOUS
    <3>1. conn[c] \in Sockets /\ conn[c].delays \in Seq(Nat)
      BY <1>0 DEF Sockets
    <3>2. Tail(conn[c].delays) \in Seq(Nat)
      BY <1>3, <3>1, HeadTailProperties
    <3> QED
      BY <3>1, <3>2 DEF Sockets
  <2> QED
    BY <1>1, <1>3, <2>1
<1>4. ASSUME NEW n \in Nat, conn' = [conn EXCEPT ![c].delays = Append(@, n)]
      PROVE  /\ conn' \in Seq(Sockets) /\ Len(conn') = Len(conn)
             /\ \A k \in 1..Len(conn) : conn'[k].requests = conn[k].requests
  <2> DEFINE r == [conn[c] EXCEPT !.delays = Append(@, n)]
  <2>1. c \in 1..Len(conn) => r \in Sockets /\ r.requests = conn[c].requests
    <3> SUFFICES ASSUME c \in 1..Len(conn) PROVE r \in Sockets /\ r.requests = conn[c].requests
      OBVIOUS
    <3>1. conn[c] \in Sockets /\ conn[c].delays \in Seq(Nat)
      BY <1>0 DEF Sockets
    <3>2. Append(conn[c].delays, n) \in Seq(Nat)
      BY <3>1, AppendProperties
    <3> QED
      BY <3>1, <3>2 DEF Sockets
  <2> QED
    BY <1>1, <1>4, <2>1
<1>5. CASE conn' = [conn EXCEPT ![c].accepted = TRUE]
  <2> DEFINE r == [conn[c] EXCEPT !.accepted = TRUE]
  <2>1. c \in 1..Len(conn) => r \in Sockets /\ r.requests = conn[c].requests
    BY <1>0 DEF Sockets
  <2> QED
    BY <1>1, <1>5, <2>1
<1>6. CASE conn' = [conn EXCEPT ![c].slave = FALSE]
  <2> DEFINE r == [conn[c] EXCEPT !.slave = FALSE]
  <2>1. c \in 1..Len(conn) => r \in Sockets /\ r.requests = conn[c].requests
    BY <1>0 DEF Sockets
  <2> QED
    BY <1>1, <1>6, <2>1
<1> QED
  BY <1>0, <1>2, <1>3, <1>4, <1>5, <1>6

StreamOf(s) == IF mainSocket[s] = NoConn THEN packetBuf[s]
               ELSE packetBuf[s] \o conn[mainSocket[s]].requests

LEMMA StreamTypes ==
  ASSUME QueueTypeOK
  PROVE  /\ Streams \in [Slaves -> Seq(Parts)]
         /\ \A s \in Slaves : /\ Streams[s] = StreamOf(s)
                              /\ packetBuf[s] \in Seq(Parts)
                              /\ mainSocket[s] # NoConn =>
                                   /\ mainSocket[s] \in 1..Len(conn)
                                   /\ conn[mainSocket[s]].requests \in Seq(Parts)
<1>0. /\ Streams = [s \in Slaves |-> StreamOf(s)]
      /\ \A s \in Slaves : Streams[s] = StreamOf(s)
  BY DEF Streams, StreamOf
<1>1. ASSUME NEW s \in Slaves
      PROVE  /\ StreamOf(s) \in Seq(Parts) /\ packetBuf[s] \in Seq(Parts)
             /\ mainSocket[s] # NoConn => /\ mainSocket[s] \in 1..Len(conn)
                                          /\ conn[mainSocket[s]].requests \in Seq(Parts)
  <2>1. packetBuf[s] \in Seq(Parts) /\ mainSocket[s] \in 0..Len(conn) /\ Len(conn) \in Nat
    BY LenProperties DEF QueueTypeOK
  <2>2. ASSUME mainSocket[s] # NoConn
        PROVE  mainSocket[s] \in 1..Len(conn) /\ conn[mainSocket[s]].requests \in Seq(Parts)
    <3>1. mainSocket[s] \in 1..Len(conn)
      BY <2>1, <2>2 DEF NoConn
    <3>2. conn[mainSocket[s]] \in Sockets
      BY <3>1, ElementOfSeq DEF QueueTypeOK
    <3> QED
      BY <3>1, <3>2 DEF Sockets
  <2>3. StreamOf(s) \in Seq(Parts)
    BY <2>1, <2>2, ConcatProperties DEF StreamOf
  <2> QED
    BY <2>1, <2>2, <2>3
<1> QED
  BY <1>0, <1>1

\* As long as nothing is sent, and nothing but a buffer's change, the streams stay.
LEMMA SameStreams ==
  ASSUME QueueTypeOK, UNCHANGED slaves,
         \A k \in 1..Len(conn) : conn'[k].requests = conn[k].requests
  PROVE  Streams' = Streams
<1>1. ASSUME NEW s \in Slaves PROVE StreamOf(s)' = StreamOf(s)
  <2>1. mainSocket[s] # NoConn => mainSocket[s] \in 1..Len(conn)
    BY StreamTypes
  <2> QED
    BY <2>1 DEF StreamOf, slaves
<1> QED
  BY <1>1 DEF Streams, StreamOf

\* What is sent comes at the end of one stream, unless nobody listens any more.
LEMMA SentStreams ==
  ASSUME QueueTypeOK, OwnSocket, UNCHANGED slaves, NEW c, NEW b \in Seq(Parts),
         Send(c, b)
  PROVE  \/ Streams' = Streams /\ ~\E s \in Slaves : mainSocket[s] = c /\ c # NoConn
         \/ \E s \in Slaves : Streams' = [Streams EXCEPT ![s] = @ \o b]
<1>0. /\ Streams \in [Slaves -> Seq(Parts)] /\ \A s \in Slaves : Streams[s] = StreamOf(s)
      /\ Streams' = [s \in Slaves |-> StreamOf(s)']
  BY StreamTypes DEF Streams, StreamOf
<1>1. CASE \E s \in Slaves : mainSocket[s] = c /\ c # NoConn
  <2>1. PICK s0 \in Slaves : mainSocket[s0] = c /\ c # NoConn
    BY <1>1
  <2>2. StreamOf(s0)' = StreamOf(s0) \o b
    <3>1. /\ c \in 1..Len(conn) /\ packetBuf[s0] \in Seq(Parts)
          /\ conn[c].requests \in Seq(Parts)
      BY <2>1, StreamTypes
    <3>2. StreamOf(s0) = packetBuf[s0] \o conn[c].requests
      BY <2>1 DEF StreamOf
    <3>3. conn'[c].requests = conn[c].requests \o b
      BY <3>1, SendChange
    <3>4. StreamOf(s0)' = packetBuf[s0] \o (conn[c].requests \o b)
      BY <2>1, <3>3 DEF StreamOf, slaves
    <3>5. (packetBuf[s0] \o conn[c].requests) \o b = packetBuf[s0] \o (conn[c].requests \o b)
      <4> DEFINE x == packetBuf[s0]
                 y == conn[c].requests
      <4>1. x \in Seq(Parts) /\ y \in Seq(Parts) /\ b \in Seq(Parts)
        BY <3>1
      <4> HIDE DEF x, y
      <4>2. (x \o y) \o b = x \o (y \o b)
        BY ONLY <4>1, ConcatAssociative
      <4> QED
        BY <4>2 DEF x, y
    <3> QED
      BY <3>2, <3>4, <3>5
  <2>3. ASSUME NEW s \in Slaves, s # s0 PROVE StreamOf(s)' = StreamOf(s)
    <3>1. mainSocket[s] # NoConn => mainSocket[s] \in 1..Len(conn) /\ mainSocket[s] # c
      BY <2>1, <2>3, StreamTypes DEF OwnSocket
    <3>2. mainSocket[s] # NoConn =>
            conn'[mainSocket[s]].requests = conn[mainSocket[s]].requests
      BY <3>1, SendChange
    <3> QED
      BY <3>2 DEF StreamOf, slaves
  <2>4. Streams' = [Streams EXCEPT ![s0] = @ \o b]
    BY <1>0, <2>2, <2>3
  <2> QED
    BY <2>4
<1>2. CASE ~\E s \in Slaves : mainSocket[s] = c /\ c # NoConn
  <2>1. ASSUME NEW s \in Slaves PROVE StreamOf(s)' = StreamOf(s)
    <3>1. mainSocket[s] # NoConn => mainSocket[s] \in 1..Len(conn) /\ mainSocket[s] # c
      BY <1>2, StreamTypes
    <3>2. mainSocket[s] # NoConn =>
            conn'[mainSocket[s]].requests = conn[mainSocket[s]].requests
      BY <3>1, SendChange
    <3> QED
      BY <3>2 DEF StreamOf, slaves
  <2>2. Streams' = Streams
    BY <1>0, <2>1
  <2> QED
    BY <1>2, <2>2
<1> QED
  BY <1>1, <1>2

\* The master gives its next command, or is done with the last.
Onward == \/ command' = command /\ (at' # "idle" => at # "idle")
          \/ command' = command + 1

LEMMA DoneOnward == ASSUME QueueTypeOK, Onward, NEW c \in Nat, DoneWith(c) PROVE DoneWith(c)'
<1>1. command \in Nat
  BY QueueAssumption DEF QueueTypeOK
<1> QED
  BY <1>1 DEF DoneWith, Onward

LEMMA Quiet ==
  ASSUME QueueInv, QueueTypeOK', OwnSocket', Streams' = Streams, taken' = taken, Onward
  PROVE  QueueInv' /\ Keeping
BY DoneOnward DEF QueueInv, Keeping

LEMMA QuietSockets ==
  ASSUME QueueInv, Onward, UNCHANGED <<waiting, taken, slaves>>, command' \in 0..MaxCommands,
         at' # "idle" => command' # 0,
         conn' \in Seq(Sockets), Len(conn') = Len(conn),
         \A k \in 1..Len(conn) : conn'[k].requests = conn[k].requests
  PROVE  QueueInv' /\ Keeping
<1>1. QueueTypeOK' /\ OwnSocket'
  BY DEF QueueInv, QueueTypeOK, OwnSocket, slaves
<1>2. Streams' = Streams
  BY SameStreams DEF QueueInv
<1> QED
  BY <1>1, <1>2, Quiet

LEMMA QueueSays ==
  ASSUME QueueTypeOK, NEW p \in Programs, NEW c \in Nat, Queue(p, c)
  PROVE  waiting' \in [Programs -> Seq(Nat)] /\ taken' \in [Programs -> Seq(Nat)]
<1>1. /\ waiting \in [Programs -> Seq(Nat)] /\ taken \in [Programs -> Seq(Nat)]
      /\ Append(waiting[p], c) \in Seq(Nat) /\ Append(taken[p], c) \in Seq(Nat)
  BY AppendProperties DEF QueueTypeOK
<1> QED
  BY <1>1 DEF Queue

\* A program is left what is nowhere else.
LEMMA SaysNew ==
  ASSUME QueueInv, QueueTypeOK', OwnSocket', NEW p \in Programs, NEW c0 \in Nat, Queue(p, c0),
         Streams' = Streams, ~Held(taken, Streams, c0), Onward, DoneWith(c0)'
  PROVE  QueueInv' /\ Keeping /\ Held(taken', Streams', c0)
<1>1. \A c \in Nat : /\ Once(taken', Streams, c)
                     /\ Held(taken', Streams, c) => Held(taken, Streams, c) \/ c = c0
  <2>1. taken \in [Programs -> Seq(Nat)] /\ \A c \in Nat : Once(taken, Streams, c)
    BY DEF QueueInv, QueueTypeOK
  <2>2. taken' = [taken EXCEPT ![p] = Append(@, c0)]
    BY DEF Queue
  <2> QED
    BY <2>1, <2>2, SayNew
<1>2. \A c \in Nat : Held(taken', Streams', c) => DoneWith(c)'
  BY <1>1, DoneOnward DEF QueueInv
<1>3. Held(taken', Streams, c0) /\ \A c \in Nat : Held(taken, Streams, c) => Held(taken', Streams, c)
  <2>1. taken \in [Programs -> Seq(Nat)] /\ taken' = [taken EXCEPT ![p] = Append(@, c0)]
    BY DEF QueueInv, QueueTypeOK, Queue
  <2> QED
    BY <2>1, SayKeeps
<1>4. QueueInv'
  BY <1>1, <1>2 DEF QueueInv
<1> QED
  BY <1>3, <1>4 DEF Keeping

\* A slave has read something from its stream, or begins with an empty one.
LEMMA StreamStep ==
  ASSUME QueueInv, QueueTypeOK', OwnSocket', NEW s \in Slaves, NEW t \in Seq(Parts), NEW d \in Nat,
         Len(Streams[s]) = d + Len(t), \A i \in 1..Len(t) : t[i] = Streams[s][i + d],
         d + 1 \in 1..Len(Streams[s]) => Streams[s][d + 1].what # "body",
         Streams' = [Streams EXCEPT ![s] = t], Onward,
         \/ taken' = taken
         \/ \E i \in 1..d : /\ Streams[s][i].what = "body"
                            /\ Queue(s, Streams[s][i].command)
  PROVE  QueueInv'
<1>0. /\ Streams \in [Slaves -> Seq(Parts)] /\ taken \in [Programs -> Seq(Nat)]
      /\ QueueTypeOK /\ InTurn(Streams[s])
      /\ \A c \in Nat : Once(taken, Streams, c) /\ (Held(taken, Streams, c) => DoneWith(c))
  BY StreamTypes DEF QueueInv, QueueTypeOK
<1>1. \A c \in Nat :
        /\ Held(taken, Streams', c) => Held(taken, Streams, c)
        /\ Once(taken, Streams', c)
        /\ (\E i \in 1..d : BodyAt(Streams, s, i, c)) => ~Held(taken, Streams', c)
  BY <1>0, CutStream
<1>2. \A r \in Slaves : InTurn(Streams'[r])
  <2>1. InTurn(t)
    BY <1>0, CutInTurn
  <2> QED
    BY <1>0, <2>1 DEF QueueInv
<1>3. CASE taken' = taken
  <2>1. \A c \in Nat : Held(taken', Streams', c) => DoneWith(c)'
    BY <1>0, <1>1, <1>3, DoneOnward
  <2> QED
    BY <1>1, <1>2, <1>3, <2>1 DEF QueueInv
<1>4. ASSUME NEW i \in 1..d, Streams[s][i].what = "body", Queue(s, Streams[s][i].command)
      PROVE  QueueInv'
  <2> DEFINE c0 == Streams[s][i].command
  <2>1. i \in 1..Len(Streams[s]) /\ i \in Nat
    BY <1>0, LenProperties
  <2>2. c0 \in Nat
    <3>1. Streams[s] \in Seq(Parts)
      BY <1>0
    <3>2. Streams[s][i] \in Parts
      BY <2>1, <3>1, ElementOfSeq
    <3> QED
      BY <3>2 DEF Parts
  <2>3. BodyAt(Streams, s, i, c0)
    BY <1>4, <2>1 DEF BodyAt
  <2>4. ~Held(taken, Streams', c0) /\ DoneWith(c0)
    BY <1>0, <1>1, <2>1, <2>2, <2>3 DEF Held
  <2>5. taken' = [taken EXCEPT ![s] = Append(@, c0)] /\ s \in Programs
    BY <1>4 DEF Queue, Programs
  <2> HIDE DEF c0
  <2>6. \A c \in Nat : /\ Once(taken', Streams', c)
                       /\ Held(taken', Streams', c) => Held(taken, Streams', c) \/ c = c0
    BY <1>0, <1>1, <2>2, <2>4, <2>5, SayNew
  <2>7. \A c \in Nat : Held(taken', Streams', c) => DoneWith(c)'
    BY <1>0, <1>1, <2>2, <2>4, <2>6, DoneOnward
  <2> QED
    BY <1>2, <2>6, <2>7 DEF QueueInv
<1> QED
  BY <1>3, <1>4

LEMMA QueueInitInv == QueueInit => QueueInv
<1> SUFFICES ASSUME QueueInit PROVE QueueInv
  OBVIOUS
<1>1. /\ \A p \in Programs : taken[p] = <<>> /\ waiting[p] = <<>>
      /\ \A s \in Slaves : packetBuf[s] = <<>> /\ mainSocket[s] = NoConn
      /\ conn = <<>> /\ command = 0 /\ at = "idle"
  BY DEF QueueInit
<1>2. Len(<<>>) = 0 /\ <<>> \in Seq(Nat) /\ <<>> \in Seq(Parts) /\ <<>> \in Seq(Sockets)
  OBVIOUS
<1>3. QueueTypeOK
  BY <1>2, QueueAssumption DEF QueueInit, QueueTypeOK, NoConn
<1>4. \A s \in Slaves : Streams[s] = <<>>
  BY <1>1 DEF Streams
<1>5. \A c : ~Held(taken, Streams, c)
  BY <1>1, <1>2, <1>4 DEF Held, SaidAt, BodyAt
<1>6. \A c : Once(taken, Streams, c)
  BY <1>5 DEF Held, Once
<1>7. \A s \in Slaves : InTurn(Streams[s])
  BY <1>2, <1>4 DEF InTurn
<1> QED
  BY <1>1, <1>3, <1>5, <1>6, <1>7 DEF QueueInv, OwnSocket

\* The master.
LEMMA GiveStep ==
  ASSUME QueueInv, GiveCommand
  PROVE  QueueInv' /\ Keeping /\ (at' = "idle" => Held(taken', Streams', command'))
<1>0. /\ QueueTypeOK /\ OwnSocket /\ command \in 0..MaxCommands /\ command < MaxCommands
      /\ MaxCommands \in Nat /\ command' = command + 1 /\ at = "idle"
      /\ UNCHANGED <<conn, slaves>>
  BY QueueAssumption DEF QueueInv, QueueTypeOK, GiveCommand
<1>1. command' \in 0..MaxCommands /\ command' # 0 /\ Onward /\ command' \in Nat
  BY <1>0 DEF Onward
<1>2. CASE Queue(Master, command') /\ UNCHANGED <<at, todo>>
  <2>1. Master \in Programs
    BY DEF Programs
  <2>2. QueueTypeOK' /\ OwnSocket'
    BY <1>0, <1>1, <1>2, <2>1, QueueSays DEF QueueTypeOK, OwnSocket, slaves
  <2>3. Streams' = Streams
    BY <1>0, SameStreams
  <2>4. PICK c \in Nat : c = command'
    BY <1>1
  <2>5. ~Held(taken, Streams, c)
    <3>1. ~DoneWith(c)
      BY <1>0, <2>4 DEF DoneWith
    <3> QED
      BY <3>1 DEF QueueInv
  <2>6. DoneWith(c)'
    BY <1>0, <1>2, <2>4 DEF DoneWith
  <2>7. Queue(Master, c)
    BY <1>2, <2>4
  <2>8. QueueInv' /\ Keeping /\ Held(taken', Streams', c)
    BY <1>1, <2>1, <2>2, <2>3, <2>5, <2>6, <2>7, SaysNew
  <2> QED
    BY <2>4, <2>8
<1>3. CASE at' = "ask" /\ UNCHANGED outs
  <2>1. conn' \in Seq(Sockets)
    BY <1>0 DEF QueueTypeOK
  <2> QED
    BY <1>0, <1>1, <1>3, <2>1, QuietSockets DEF outs
<1> QED
  BY <1>2, <1>3 DEF GiveCommand

LEMMA AskStep ==
  ASSUME QueueInv, NEW works \in BOOLEAN, AskDelay(works) PROVE QueueInv' /\ Keeping
<1>0. /\ QueueTypeOK /\ OwnSocket /\ UNCHANGED <<waiting, taken, slaves, at, command>>
      /\ Streams \in [Slaves -> Seq(Parts)] /\ Onward
      /\ command' \in 0..MaxCommands /\ (at' # "idle" => command' # 0)
  BY StreamTypes DEF QueueInv, QueueTypeOK, AskDelay, Onward, outs
<1>1. CASE Send(Head(todo), <<Ask>>)
  <2>1. <<Ask>> \in Seq(Parts) /\ InTurn(<<Ask>>)
    <3>1. Ask \in Parts /\ Len(<<Ask>>) = 1 /\ <<Ask>>[1] = Ask
      BY DEF Parts, Ask, Torn
    <3> QED
      BY <3>1 DEF InTurn, Ask
  <2>2. conn' \in Seq(Sockets) /\ Len(conn') = Len(conn)
    BY <1>0, <1>1, <2>1, SendChange
  <2>3. QueueTypeOK' /\ OwnSocket'
    BY <1>0, <2>2 DEF QueueTypeOK, OwnSocket, slaves
  <2>4. \/ Streams' = Streams
        \/ \E s \in Slaves : Streams' = [Streams EXCEPT ![s] = @ \o <<Ask>>]
    BY <1>0, <1>1, <2>1, SentStreams
  <2>5. ASSUME NEW s \in Slaves, Streams' = [Streams EXCEPT ![s] = @ \o <<Ask>>]
        PROVE  QueueInv' /\ Keeping
    <3>1. \A c \in Nat : /\ Once(taken, Streams', c)
                         /\ Held(taken, Streams', c) => DoneWith(c)'
      BY <1>0, <2>5, AskStream, DoneOnward DEF QueueInv
    <3>2. \A r \in Slaves : InTurn(Streams'[r])
      <4>1. Streams[s] \in Seq(Parts) /\ \A r \in Slaves : InTurn(Streams[r])
        BY <1>0 DEF QueueInv
      <4>2. InTurn(Streams[s] \o <<Ask>>)
        BY <2>1, <4>1, ExtendInTurn
      <4> QED
        BY <1>0, <2>5, <4>1, <4>2
    <3>3. \A c \in Nat : Held(taken, Streams, c) => Held(taken, Streams', c)
      BY <1>0, <2>1, <2>5, ExtendKeeps
    <3>4. QueueInv'
      BY <1>0, <2>3, <3>1, <3>2 DEF QueueInv
    <3> QED
      BY <1>0, <3>3, <3>4 DEF Keeping
  <2> QED
    BY <1>0, <2>3, <2>4, <2>5, Quiet
<1>2. CASE CloseAtMaster(Head(todo))
  BY <1>0, <1>2, SocketChange, QuietSockets
<1> QED
  BY <1>1, <1>2 DEF AskDelay

LEMMA ForwardStep ==
  ASSUME QueueInv, Forward
  PROVE  /\ QueueInv' /\ Keeping
         /\ (\E s \in Slaves : mainSocket[s] = best.conn /\ best.conn # NoConn)
              => Held(taken', Streams', command)
<1>0. /\ QueueTypeOK /\ OwnSocket /\ UNCHANGED <<waiting, taken, slaves, command>>
      /\ Streams \in [Slaves -> Seq(Parts)] /\ Onward /\ at # "idle" /\ at' = "idle"
      /\ command \in 1..MaxCommands /\ command \in Nat
      /\ Send(best.conn, <<Header(command), Body(command)>>)
  BY StreamTypes, QueueAssumption DEF QueueInv, QueueTypeOK, Forward, Onward, outs
<1> DEFINE b == <<Header(command), Body(command)>>
<1>1. b \in Seq(Parts) /\ InTurn(b)
  <2>1. /\ Header(command) \in Parts /\ Body(command) \in Parts
        /\ Len(b) = 2 /\ b[1] = Header(command) /\ b[2] = Body(command)
    BY <1>0 DEF Parts, Header, Body
  <2>2. b \in Seq(Parts)
    BY <2>1
  <2> HIDE DEF b
  <2>3. \A i \in 1..2 : i = 1 \/ i = 2
    OBVIOUS
  <2>4. InTurn(b)
    BY <2>1, <2>3 DEF InTurn, Header, Body
  <2> QED
    BY <2>2, <2>4
<1>2. conn' \in Seq(Sockets) /\ Len(conn') = Len(conn)
  BY <1>0, <1>1, SendChange
<1>3. QueueTypeOK' /\ OwnSocket'
  BY <1>0, <1>2 DEF QueueTypeOK, OwnSocket, slaves
<1>4. \/ /\ Streams' = Streams
         /\ ~\E s \in Slaves : mainSocket[s] = best.conn /\ best.conn # NoConn
      \/ \E s \in Slaves : Streams' = [Streams EXCEPT ![s] = @ \o b]
  BY <1>0, <1>1, SentStreams
<1>5. ASSUME NEW s \in Slaves, Streams' = [Streams EXCEPT ![s] = @ \o b]
      PROVE  QueueInv' /\ Keeping /\ Held(taken', Streams', command)
  <2>1. ~Held(taken, Streams, command) /\ \A c \in Nat : Once(taken, Streams, c)
    BY <1>0 DEF QueueInv, DoneWith
  <2>2. \A c \in Nat : /\ Once(taken, Streams', c)
                       /\ Held(taken, Streams', c) => Held(taken, Streams, c) \/ c = command
    BY <1>0, <1>5, <2>1, ExtendStream
  <2>3. DoneWith(command)'
    BY <1>0 DEF DoneWith
  <2>4. \A c \in Nat : Held(taken, Streams', c) => DoneWith(c)'
    BY <1>0, <2>2, <2>3, DoneOnward DEF QueueInv
  <2>5. \A r \in Slaves : InTurn(Streams'[r])
    <3>1. Streams[s] \in Seq(Parts) /\ \A r \in Slaves : InTurn(Streams[r])
      BY <1>0 DEF QueueInv
    <3>2. InTurn(Streams[s] \o b)
      BY <1>1, <3>1, ExtendInTurn
    <3> HIDE DEF b
    <3> QED
      BY <1>0, <1>5, <3>1, <3>2
  <2>6. /\ \A c \in Nat : Held(taken, Streams, c) => Held(taken, Streams', c)
        /\ Held(taken, Streams', command)
    <3>1. \E i \in 1..Len(b) : b[i].what = "body" /\ b[i].command = command
      <4>1. 2 \in 1..Len(b) /\ b[2] = Body(command)
        OBVIOUS
      <4> HIDE DEF b
      <4> QED
        BY <4>1 DEF Body
    <3> HIDE DEF b
    <3> QED
      BY <1>0, <1>1, <1>5, <3>1, ExtendKeeps
  <2>7. QueueInv'
    BY <1>0, <1>3, <2>2, <2>4, <2>5 DEF QueueInv
  <2> QED
    BY <1>0, <2>6, <2>7 DEF Keeping
<1> HIDE DEF b
<1> QED
  BY <1>0, <1>3, <1>4, <1>5, Quiet

LEMMA SayMyselfStep ==
  ASSUME QueueInv, SayMyself PROVE QueueInv' /\ Keeping /\ Held(taken', Streams', command)
<1>0. /\ QueueTypeOK /\ OwnSocket /\ UNCHANGED <<conn, slaves, command>>
      /\ Onward /\ at # "idle" /\ at' = "idle"
      /\ command \in 1..MaxCommands /\ Queue(Master, command)
  BY QueueAssumption DEF QueueInv, QueueTypeOK, SayMyself, Onward
<1>1. PICK c \in Nat : c = command
  BY <1>0, QueueAssumption
<1>2. Master \in Programs /\ Queue(Master, c)
  BY <1>0, <1>1 DEF Programs
<1>3. QueueTypeOK' /\ OwnSocket'
  BY <1>0, <1>2, QueueSays DEF QueueTypeOK, OwnSocket, slaves
<1>4. Streams' = Streams
  BY <1>0, SameStreams
<1>5. ~Held(taken, Streams, c)
  <2>1. ~DoneWith(c)
    BY <1>0, <1>1 DEF DoneWith
  <2> QED
    BY <2>1 DEF QueueInv
<1>6. DoneWith(c)'
  BY <1>0, <1>1, QueueAssumption DEF DoneWith
<1>7. QueueInv' /\ Keeping /\ Held(taken', Streams', c)
  BY <1>0, <1>2, <1>3, <1>4, <1>5, <1>6, SaysNew
<1> QED
  BY <1>1, <1>7

\* What becomes of a program's m_OutPackets without any of the others.
OwnQueue(p) == SayQueued(p) \/ LogOut(p) \/ Reconnect(p) \/ LogIn(p)

\* It moves no command, nor does whatever else the master does.
LEMMA MasterStep ==
  ASSUME QueueInv,
         \/ Comprehended \/ ReadDelay \/ ReadFails \/ LoseCommand \/ Accept
         \/ \E p \in Programs : OwnQueue(p)
  PROVE  QueueInv' /\ Keeping
<1>0. /\ QueueTypeOK /\ command \in 0..MaxCommands /\ (at # "idle" => command # 0)
      /\ conn \in Seq(Sockets)
  BY DEF QueueInv, QueueTypeOK
<1> DEFINE Stays == /\ UNCHANGED <<taken, slaves, command>> /\ (at' # "idle" => at # "idle")
                    /\ conn' \in Seq(Sockets) /\ Len(conn') = Len(conn)
                    /\ \A k \in 1..Len(conn) : conn'[k].requests = conn[k].requests
<1>1. ASSUME Stays, UNCHANGED waiting PROVE QueueInv' /\ Keeping
  BY <1>0, <1>1, QuietSockets DEF Onward
<1>2. CASE Comprehended
  BY <1>0, <1>1, <1>2 DEF Comprehended, outs
<1>3. CASE ReadDelay
  <2>1. /\ conn' = [conn EXCEPT ![Head(todo)].delays = Tail(@)]
        /\ conn[Head(todo)].delays # <<>>
    BY <1>3 DEF ReadDelay
  <2>2. Stays /\ UNCHANGED waiting
    BY <1>0, <1>3, <2>1, SocketChange DEF ReadDelay, outs
  <2> QED
    BY <1>1, <2>2
<1>4. CASE ReadFails
  <2>1. CloseAtMaster(Head(todo))
    BY <1>4 DEF ReadFails
  <2>2. Stays /\ UNCHANGED waiting
    BY <1>0, <1>4, <2>1, SocketChange DEF ReadFails, outs
  <2> QED
    BY <1>1, <2>2
<1>5. CASE LoseCommand
  <2>1. CloseAtMaster(best.conn) \/ UNCHANGED conn
    BY <1>5 DEF LoseCommand
  <2>2. Stays /\ UNCHANGED waiting
    BY <1>0, <1>5, <2>1, SocketChange DEF LoseCommand, outs
  <2> QED
    BY <1>1, <2>2
<1>6. CASE Accept
  <2>1. PICK c \in DOMAIN conn : conn' = [conn EXCEPT ![c].accepted = TRUE]
    BY <1>6 DEF Accept
  <2>2. Stays /\ UNCHANGED waiting
    BY <1>0, <1>6, <2>1, SocketChange DEF Accept, outs
  <2> QED
    BY <1>1, <2>2
<1>7. ASSUME NEW p \in Programs, OwnQueue(p) PROVE QueueInv' /\ Keeping
  <2>1. waiting' \in [Programs -> Seq(Nat)]
    <3>1. waiting \in [Programs -> Seq(Nat)] /\ <<>> \in Seq(Nat)
      BY DEF QueueInv, QueueTypeOK
    <3>2. CASE SayQueued(p)
      <4>1. Tail(waiting[p]) \in Seq(Nat)
        BY <3>1, <3>2, HeadTailProperties DEF SayQueued
      <4> QED
        BY <3>1, <3>2, <4>1 DEF SayQueued
    <3>3. CASE LogOut(p) \/ Reconnect(p) \/ LogIn(p)
      BY <3>1, <3>3 DEF LogOut, Reconnect, LogIn
    <3> QED
      BY <1>7, <3>2, <3>3 DEF OwnQueue
  <2>2. /\ UNCHANGED <<taken, slaves, conn, command, at>>
    BY <1>7 DEF OwnQueue, SayQueued, LogOut, Reconnect, LogIn, master
  <2>3. QueueTypeOK' /\ OwnSocket'
    BY <2>1, <2>2 DEF QueueInv, QueueTypeOK, OwnSocket, slaves
  <2>4. Streams' = Streams /\ Onward
    BY <1>0, <2>2, SameStreams DEF Onward
  <2> QED
    BY <2>2, <2>3, <2>4, Quiet
<1> QED
  BY <1>2, <1>3, <1>4, <1>5, <1>6, <1>7

\* The slaves.  What one has read of the stream is in the buffer still.
LEMMA ReceiveStep ==
  ASSUME QueueInv, NEW s \in Slaves, NEW k, ReadRequests(s, k)
  PROVE  QueueInv' /\ Keeping
<1> DEFINE c == mainSocket[s]
           w == conn[c].requests
           x == packetBuf[s]
           y == SubSeq(w, 1, k)
           z == SubSeq(w, k + 1, Len(w))
           r == [conn[c] EXCEPT !.requests = z]
<1>0. /\ QueueTypeOK /\ OwnSocket /\ UNCHANGED <<waiting, taken, master, mainSocket>>
      /\ Streams \in [Slaves -> Seq(Parts)] /\ Onward
      /\ conn \in Seq(Sockets)
  BY StreamTypes DEF QueueInv, QueueTypeOK, ReadRequests, Onward, master, outs
<1>1. /\ c # NoConn /\ c \in 1..Len(conn) /\ w \in Seq(Parts) /\ x \in Seq(Parts)
      /\ k \in 1..Len(w) /\ conn[c] \in Sockets
  <2>1. mainSocket[s] # NoConn /\ k \in 1..Len(w)
    BY DEF ReadRequests
  <2>2. c \in 1..Len(conn) /\ w \in Seq(Parts) /\ x \in Seq(Parts)
    BY <1>0, <2>1, StreamTypes
  <2> QED
    BY <1>0, <2>1, <2>2, ElementOfSeq
<1>2. /\ packetBuf' = [packetBuf EXCEPT ![s] = x \o y]
      /\ conn' = [conn EXCEPT ![c] = r]
  BY DEF ReadRequests
<1>3. y \in Seq(Parts) /\ z \in Seq(Parts) /\ y \o z = w
  <2> HIDE DEF w
  <2>1. Len(w) \in Nat /\ \A i \in 1..Len(w) : w[i] \in Parts
    BY <1>1, LenProperties, ElementOfSeq
  <2>2. y \in Seq(Parts)
    <3>1. \A i \in 1..k : w[i] \in Parts
      BY <1>1, <2>1
    <3> QED
      BY <1>1, <3>1, SubSeqProperties
  <2>3. z \in Seq(Parts)
    <3>1. k + 1 \in Int /\ Len(w) \in Int /\ \A i \in k + 1..Len(w) : w[i] \in Parts
      BY <1>1, <2>1
    <3> QED
      BY <3>1, SubSeqProperties
  <2>4. y \o z = SubSeq(w, 1, Len(w))
    <3>1. 1 \in 1..Len(w) + 1 /\ k \in 1 - 1..Len(w) /\ Len(w) \in k..Len(w)
      BY <1>1, <2>1
    <3> QED
      BY <1>1, <3>1, ConcatAdjacentSubSeq
  <2>5. SubSeq(w, 1, Len(w)) = w
    BY <1>1, SubSeqFull
  <2> QED
    BY <2>2, <2>3, <2>4, <2>5
<1> HIDE DEF y, z
<1>4. r \in Sockets /\ r.requests = z
  BY <1>1, <1>3 DEF Sockets
<1> HIDE DEF r
<1>5. /\ conn' \in Seq(Sockets) /\ Len(conn') = Len(conn)
      /\ \A j \in 1..Len(conn) : conn'[j] = IF j = c THEN r ELSE conn[j]
  <2>1. c \in 1..Len(conn) => r \in Sockets
    BY <1>4
  <2> HIDE DEF c
  <2> QED
    BY ONLY <1>0, <1>2, <2>1, SocketUpdate
<1>6. x \o y \in Seq(Parts)
  BY <1>1, <1>3, ConcatProperties
<1>7. QueueTypeOK' /\ OwnSocket'
  <2>1. packetBuf' \in [Slaves -> Seq(Parts)]
    BY <1>0, <1>2, <1>6 DEF QueueTypeOK
  <2> QED
    BY <1>0, <1>5, <2>1 DEF QueueTypeOK, OwnSocket, master
<1>8. ASSUME NEW t \in Slaves PROVE StreamOf(t)' = StreamOf(t)
  <2>1. CASE t = s
    <3>1. packetBuf'[s] = x \o y /\ conn'[c].requests = z
      BY <1>0, <1>1, <1>2, <1>4, <1>5 DEF QueueTypeOK
    <3>2. StreamOf(s)' = (x \o y) \o z
      BY <1>0, <1>1, <3>1 DEF StreamOf
    <3>3. StreamOf(s) = x \o w
      BY <1>1 DEF StreamOf
    <3>4. (x \o y) \o z = x \o (y \o z)
      <4>1. x \in Seq(Parts) /\ y \in Seq(Parts) /\ z \in Seq(Parts)
        BY <1>1, <1>3
      <4> HIDE DEF x
      <4> QED
        BY ONLY <4>1, ConcatAssociative
    <3> QED
      BY <1>3, <2>1, <3>2, <3>3, <3>4
  <2>2. CASE t # s
    <3>1. packetBuf'[t] = packetBuf[t]
      BY <1>0, <1>2, <2>2 DEF QueueTypeOK
    <3>2. mainSocket[t] # NoConn => mainSocket[t] \in 1..Len(conn) /\ mainSocket[t] # c
      BY <1>0, <2>2, StreamTypes DEF OwnSocket
    <3>3. mainSocket[t] # NoConn => conn'[mainSocket[t]] = conn[mainSocket[t]]
      BY <1>5, <3>2
    <3> QED
      BY <1>0, <3>1, <3>3 DEF StreamOf
  <2> QED
    BY <2>1, <2>2
<1>9. Streams' = Streams
  BY <1>8 DEF Streams, StreamOf
<1> QED
  BY <1>0, <1>7, <1>9, Quiet

\* A slave that finds its connection closed has read all there was.
LEMMA ClosedStep ==
  ASSUME QueueInv, NEW s \in Slaves, FindClosed(s) PROVE QueueInv' /\ Keeping
<1>0. /\ QueueTypeOK /\ OwnSocket /\ UNCHANGED <<waiting, taken, master, packetBuf>>
      /\ Onward /\ mainSocket[s] # NoConn /\ conn[mainSocket[s]].requests = <<>>
      /\ conn' = [conn EXCEPT ![mainSocket[s]].slave = FALSE]
      /\ mainSocket' = [mainSocket EXCEPT ![s] = NoConn]
  BY DEF QueueInv, FindClosed, Onward, master, outs
<1>1. /\ conn' \in Seq(Sockets) /\ Len(conn') = Len(conn)
      /\ \A k \in 1..Len(conn) : conn'[k].requests = conn[k].requests
  BY <1>0, SocketChange
<1>2. /\ mainSocket \in [Slaves -> 0..Len(conn)] /\ Len(conn) \in Nat
      /\ \A t \in Slaves : t # s => mainSocket'[t] = mainSocket[t]
      /\ mainSocket'[s] = NoConn
  BY <1>0, LenProperties DEF QueueTypeOK
<1>3. QueueTypeOK' /\ OwnSocket'
  <2>1. mainSocket' \in [Slaves -> 0..Len(conn')]
    BY <1>0, <1>1, <1>2 DEF NoConn
  <2>2. OwnSocket'
    BY <1>0, <1>2 DEF OwnSocket
  <2> QED
    BY <1>0, <1>1, <2>1, <2>2 DEF QueueTypeOK, master
<1>4. ASSUME NEW t \in Slaves PROVE StreamOf(t)' = StreamOf(t)
  <2>1. CASE t = s
    <3>1. packetBuf[s] \in Seq(Parts)
      BY <1>0, StreamTypes
    <3>2. StreamOf(s) = packetBuf[s] \o <<>> /\ StreamOf(s)' = packetBuf[s]
      BY <1>0, <1>2 DEF StreamOf
    <3> QED
      BY <2>1, <3>1, <3>2, ConcatEmptySeq
  <2>2. CASE t # s
    <3>1. mainSocket[t] # NoConn => mainSocket[t] \in 1..Len(conn)
      BY <1>0, StreamTypes
    <3> QED
      BY <1>0, <1>1, <1>2, <2>2, <3>1 DEF StreamOf
  <2> QED
    BY <2>1, <2>2
<1>5. Streams' = Streams
  BY <1>4 DEF Streams, StreamOf
<1> QED
  BY <1>0, <1>3, <1>5, Quiet

\* y is x without its first d, and x begins z.
CutBy(x, y, d) == Len(x) = d + Len(y) /\ \A i \in 1..Len(y) : y[i] = x[i + d]
Begins(x, z) == \A i \in 1..Len(x) : i \in 1..Len(z) /\ z[i] = x[i]

\* What is at the front of the stream is at the front of the buffer.
LEMMA FrontOfStream ==
  ASSUME NEW x \in Seq(Parts), NEW w \in Seq(Parts), NEW y \in Seq(Parts), NEW d \in Nat,
         CutBy(x, y, d)
  PROVE  y \o w \in Seq(Parts) /\ CutBy(x \o w, y \o w, d) /\ Begins(x, x \o w)
<1>0. Len(x) = d + Len(y) /\ \A i \in 1..Len(y) : y[i] = x[i + d]
  BY DEF CutBy
<1> DEFINE l == Len(x)
           m == Len(y)
           n == Len(w)
<1>1. /\ l \in Nat /\ m \in Nat /\ n \in Nat /\ l = d + m
      /\ x \o w \in Seq(Parts) /\ Len(x \o w) = l + n
      /\ \A i \in 1..l + n : (x \o w)[i] = IF i <= l THEN x[i] ELSE w[i - l]
      /\ y \o w \in Seq(Parts) /\ Len(y \o w) = m + n
      /\ \A i \in 1..m + n : (y \o w)[i] = IF i <= m THEN y[i] ELSE w[i - m]
  <2>1. /\ x \o w \in Seq(Parts) /\ Len(x \o w) = Len(x) + Len(w)
        /\ \A i \in 1..Len(x) + Len(w) :
             (x \o w)[i] = IF i <= Len(x) THEN x[i] ELSE w[i - Len(x)]
    <3>1. x \in Seq(Parts)
      OBVIOUS
    <3>2. w \in Seq(Parts)
      OBVIOUS
    <3> QED
      BY ONLY <3>1, <3>2, ConcatProperties
  <2>2. /\ y \o w \in Seq(Parts) /\ Len(y \o w) = Len(y) + Len(w)
        /\ \A i \in 1..Len(y) + Len(w) :
             (y \o w)[i] = IF i <= Len(y) THEN y[i] ELSE w[i - Len(y)]
    <3>1. y \in Seq(Parts)
      OBVIOUS
    <3>2. w \in Seq(Parts)
      OBVIOUS
    <3> QED
      BY ONLY <3>1, <3>2, ConcatProperties
  <2>3. l \in Nat /\ m \in Nat /\ n \in Nat /\ l = d + m
    BY <1>0, LenProperties
  <2> QED
    BY <2>1, <2>2, <2>3
<1> HIDE DEF l, m, n
<1>2. ASSUME NEW i \in 1..m + n PROVE (y \o w)[i] = (x \o w)[i + d]
  <2>1. i + d \in 1..l + n
    BY <1>1
  <2>2. CASE i <= m
    <3>1. i \in 1..m /\ i + d <= l
      BY <1>1, <2>2
    <3>2. y[i] = x[i + d]
      BY <1>0, <3>1 DEF m
    <3> QED
      BY <1>1, <2>1, <2>2, <3>1, <3>2
  <2>3. CASE ~(i <= m)
    <3>1. ~(i + d <= l) /\ (i + d) - l = i - m
      BY <1>1, <2>3
    <3> QED
      BY <1>1, <2>1, <2>3, <3>1
  <2> QED
    BY <2>2, <2>3
<1>3. ASSUME NEW i \in 1..l PROVE i \in 1..l + n /\ (x \o w)[i] = x[i]
  <2>1. i \in 1..l + n /\ i <= l
    BY <1>1
  <2> QED
    BY <1>1, <2>1
<1>4. Len(x \o w) = d + Len(y \o w)
  BY <1>1
<1>5. CutBy(x \o w, y \o w, d)
  BY <1>1, <1>2, <1>4 DEF CutBy
<1>6. Begins(x, x \o w)
  BY <1>1, <1>3 DEF Begins, l
<1> QED
  BY <1>1, <1>5, <1>6

LEMMA TakeStep ==
  ASSUME QueueInv, NEW s \in Slaves, NEW y \in Seq(Parts), NEW d \in Nat,
         mainSocket[s] # NoConn, UNCHANGED <<mainSocket, command, at>>,
         packetBuf' = [packetBuf EXCEPT ![s] = y],
         Len(packetBuf[s]) = d + Len(y), \A i \in 1..Len(y) : y[i] = packetBuf[s][i + d],
         d + 1 \in 1..Len(Streams[s]) => Streams[s][d + 1].what # "body",
         conn' \in Seq(Sockets), Len(conn') = Len(conn),
         \A k \in 1..Len(conn) : conn'[k].requests = conn[k].requests,
         \/ UNCHANGED <<taken, waiting>>
         \/ \E i \in 1..d : packetBuf[s][i].what = "body" /\ Queue(s, packetBuf[s][i].command),
         \A i \in 1..d : packetBuf[s][i].what = "body" => Queue(s, packetBuf[s][i].command)
  PROVE  QueueInv' /\ Keeping
<1> DEFINE x == packetBuf[s]
           w == conn[mainSocket[s]].requests
<1>0. /\ QueueTypeOK /\ OwnSocket /\ x \in Seq(Parts) /\ w \in Seq(Parts)
      /\ mainSocket[s] \in 1..Len(conn)
      /\ Streams[s] = x \o w /\ s \in Programs
      /\ Streams \in [Slaves -> Seq(Parts)]
  <2>1. QueueTypeOK /\ OwnSocket
    BY DEF QueueInv
  <2> QED
    BY <2>1, StreamTypes DEF Programs, StreamOf
<1>1. /\ y \o w \in Seq(Parts) /\ Len(Streams[s]) = d + Len(y \o w)
      /\ \A i \in 1..Len(y \o w) : (y \o w)[i] = Streams[s][i + d]
      /\ \A i \in 1..Len(x) : Streams[s][i] = x[i]
  <2>1. Len(x) = d + Len(y) /\ \A i \in 1..Len(y) : y[i] = x[i + d]
    OBVIOUS
  <2> HIDE DEF x, w
  <2>2. x \in Seq(Parts)
    BY <1>0
  <2>3. w \in Seq(Parts)
    BY <1>0
  <2>4. y \in Seq(Parts)
    OBVIOUS
  <2>5. d \in Nat
    OBVIOUS
  <2>6. CutBy(x, y, d)
    BY <2>1 DEF CutBy
  <2>7. y \o w \in Seq(Parts) /\ CutBy(x \o w, y \o w, d) /\ Begins(x, x \o w)
    BY ONLY <2>2, <2>3, <2>4, <2>5, <2>6, FrontOfStream
  <2> QED
    BY <1>0, <2>7 DEF CutBy, Begins
<1>2. Streams' = [Streams EXCEPT ![s] = y \o w]
  <2>1. /\ packetBuf'[s] = y /\ \A t \in Slaves : t # s => packetBuf'[t] = packetBuf[t]
        /\ \A t \in Slaves : mainSocket[t] # NoConn => mainSocket[t] \in 1..Len(conn)
    BY <1>0, StreamTypes, SMTT(30) DEF QueueTypeOK
  <2>2. StreamOf(s)' = y \o w
    BY <1>0, <2>1 DEF StreamOf
  <2>3. \A t \in Slaves : t # s => StreamOf(t)' = StreamOf(t)
    BY <2>1 DEF StreamOf
  <2>4. /\ Streams' = [t \in Slaves |-> StreamOf(t)']
        /\ Streams = [t \in Slaves |-> StreamOf(t)]
    BY DEF Streams, StreamOf
  <2> QED
    BY <2>2, <2>3, <2>4
<1>3. d \in 0..Len(x) /\ \A i \in 1..d : i \in 1..Len(x)
  BY <1>0, LenProperties
<1>4. /\ waiting' \in [Programs -> Seq(Nat)] /\ taken' \in [Programs -> Seq(Nat)]
      /\ taken' = taken \/ \E i \in 1..d : /\ Streams[s][i].what = "body"
                                        /\ Queue(s, Streams[s][i].command)
  <2>1. CASE UNCHANGED <<taken, waiting>>
    BY <1>0, <2>1 DEF QueueTypeOK
  <2>2. ASSUME NEW i \in 1..d, x[i].what = "body", Queue(s, x[i].command)
        PROVE  /\ waiting' \in [Programs -> Seq(Nat)] /\ taken' \in [Programs -> Seq(Nat)]
               /\ Streams[s][i].what = "body" /\ Queue(s, Streams[s][i].command)
    <3>1. x[i] \in Parts /\ Streams[s][i] = x[i]
      BY <1>0, <1>1, <1>3, ElementOfSeq
    <3>2. x[i].command \in Nat
      BY <3>1 DEF Parts
    <3> HIDE DEF x
    <3> QED
      BY <1>0, <2>2, <3>1, <3>2, QueueSays
  <2> QED
    BY <2>1, <2>2
<1>5. QueueTypeOK' /\ OwnSocket' /\ Onward
  <2>1. packetBuf' \in [Slaves -> Seq(Parts)]
    BY <1>0 DEF QueueTypeOK
  <2> QED
    BY <1>0, <1>4, <2>1 DEF QueueTypeOK, OwnSocket, Onward
<1>6. ASSUME NEW c \in Nat, Held(taken, Streams, c) PROVE Held(taken', Streams', c)
  <2>1. CASE \E i \in 1..d : BodyAt(Streams, s, i, c)
    <3>1. PICK i \in 1..d : BodyAt(Streams, s, i, c)
      BY <2>1
    <3>2. x[i].what = "body" /\ x[i].command = c
      BY <1>1, <1>3, <3>1 DEF BodyAt
    <3>3. Queue(s, c)
      BY <3>2
    <3>4. taken' = [taken EXCEPT ![s] = Append(@, c)] /\ taken \in [Programs -> Seq(Nat)]
      BY <1>0, <3>3 DEF Queue, QueueTypeOK
    <3> QED
      BY <1>0, <3>4, SayKeeps
  <2>2. CASE \A i \in 1..d : ~BodyAt(Streams, s, i, c)
    <3> HIDE DEF x, w
    <3>1. Held(taken, Streams', c)
      BY <1>0, <1>1, <1>2, <1>6, <2>2, CutKeeps
    <3>2. CASE taken' = taken
      BY <3>1, <3>2
    <3>3. ASSUME NEW i \in 1..d, x[i].what = "body", Queue(s, x[i].command)
          PROVE  Held(taken', Streams', c)
      <4>1. x[i] \in Parts
        BY <1>0, <1>3, ElementOfSeq
      <4>2. x[i].command \in Nat
        BY <4>1 DEF Parts
      <4>3. /\ taken' = [taken EXCEPT ![s] = Append(@, x[i].command)]
            /\ taken \in [Programs -> Seq(Nat)]
        BY <1>0, <3>3 DEF Queue, QueueTypeOK
      <4> QED
        BY <1>0, <3>1, <4>2, <4>3, SayKeeps
    <3> QED
      BY <3>2, <3>3 DEF x
  <2> QED
    BY <2>1, <2>2
<1> HIDE DEF x, w
<1>7. QueueInv'
  BY <1>1, <1>2, <1>4, <1>5, StreamStep
<1> QED
  BY <1>6, <1>7 DEF Keeping

LEMMA ToldIsNat == ASSUME QueueTypeOK, NEW s \in Slaves PROVE DelayTold(s) \in Nat
<1>1. waiting[s] \in Seq(Nat)
  BY DEF QueueTypeOK, Programs
<1>2. Len(waiting[s]) \in Nat
  BY <1>1, LenProperties
<1> QED
  BY <1>2, QueueAssumption DEF DelayTold, Delay, LoggedOutDelay

LEMMA AnswerDelayStep ==
  ASSUME QueueInv, NEW s \in Slaves, AnswerDelay(s) PROVE QueueInv' /\ Keeping
<1> DEFINE x == packetBuf[s]
           y == Tail(x)
<1>1. /\ QueueTypeOK /\ mainSocket[s] # NoConn /\ x # <<>> /\ Head(x).what = "ask"
      /\ packetBuf' = [packetBuf EXCEPT ![s] = y]
      /\ UNCHANGED <<waiting, taken, mainSocket, command, at>> /\ InTurn(Streams[s])
      /\ Len(waiting[s]) \in Nat
  <2>1. QueueTypeOK /\ s \in Programs
    BY DEF QueueInv, Programs
  <2>2. waiting[s] \in Seq(Nat)
    BY <2>1 DEF QueueTypeOK
  <2> QED
    BY <2>1, <2>2, LenProperties DEF AnswerDelay, master, outs, QueueInv
<1>2. /\ x \in Seq(Parts) /\ y \in Seq(Parts) /\ Len(x) = 1 + Len(y)
      /\ \A i \in 1..Len(y) : y[i] = x[i + 1]
      /\ x[1].what = "ask" /\ 1 \in 1..Len(x)
  <2>1. x \in Seq(Parts)
    BY <1>1, StreamTypes
  <2> HIDE DEF x
  <2>2. Len(x) \in Nat \ {0} /\ Head(x) = x[1]
    BY <1>1, <2>1, EmptySeq
  <2>3. /\ y \in Seq(Parts) /\ Len(y) = Len(x) - 1
        /\ \A i \in 1..Len(y) : y[i] = x[i + 1]
    BY <1>1, <2>1, HeadTailProperties
  <2> QED
    BY <1>1, <2>1, <2>2, <2>3
<1>3. Streams[s][1].what = "ask"
  <2>1. /\ Streams[s] = x \o conn[mainSocket[s]].requests
        /\ conn[mainSocket[s]].requests \in Seq(Parts)
    BY <1>1, StreamTypes DEF StreamOf
  <2> HIDE DEF x, y
  <2>2. CutBy(x, y, 1)
    BY <1>2 DEF CutBy
  <2>3. Begins(x, Streams[s])
    BY <1>2, <2>1, <2>2, FrontOfStream
  <2> QED
    BY <1>2, <2>3 DEF Begins
<1>4. ASSUME 1 + 1 \in 1..Len(Streams[s]) PROVE Streams[s][1 + 1].what # "body"
  <2>1. Streams[s][1 + 1].what = "body" => Streams[s][(1 + 1) - 1].what = "header"
    BY <1>1, <1>4 DEF InTurn
  <2>2. (1 + 1) - 1 = 1
    OBVIOUS
  <2> QED
    BY <1>3, <2>1, <2>2
<1>5. /\ conn' \in Seq(Sockets) /\ Len(conn') = Len(conn)
      /\ \A k \in 1..Len(conn) : conn'[k].requests = conn[k].requests
  <2>1. \/ UNCHANGED conn
        \/ \E n \in Nat : conn' = [conn EXCEPT ![mainSocket[s]].delays = Append(@, n)]
    BY <1>1, ToldIsNat DEF AnswerDelay
  <2> QED
    BY <1>1, <2>1, SocketChange
<1>6. \A i \in 1..1 : x[i].what # "body"
  BY <1>2
<1> HIDE DEF y
<1> QED
  BY <1>1, <1>2, <1>4, <1>5, <1>6, TakeStep

\* Two parts are a header and its body.
LEMMA TakeCommandStep ==
  ASSUME QueueInv, NEW s \in Slaves, TakeCommand(s) PROVE QueueInv' /\ Keeping
<1> DEFINE x == packetBuf[s]
           y == SubSeq(x, 3, Len(x))
           u == Streams[s]
<1>1. /\ QueueTypeOK /\ mainSocket[s] # NoConn /\ x \in Seq(Parts) /\ Len(x) \in Nat
      /\ Len(x) >= 2 /\ Head(x).what # "ask"
      /\ packetBuf' = [packetBuf EXCEPT ![s] = y]
      /\ Queue(s, IF x[2].what = "body" THEN x[2].command ELSE Torn)
      /\ UNCHANGED <<conn, mainSocket, command, at>> /\ InTurn(u)
  <2>1. QueueTypeOK
    BY DEF QueueInv
  <2>2. x \in Seq(Parts)
    BY <2>1, StreamTypes
  <2> QED
    BY <2>1, <2>2, LenProperties DEF TakeCommand, master, QueueInv
<1>2. /\ y \in Seq(Parts) /\ Len(x) = 2 + Len(y)
      /\ \A i \in 1..Len(y) : y[i] = x[i + 2]
  <2> HIDE DEF x
  <2>1. 3 \in Int /\ Len(x) \in Int /\ \A i \in 3..Len(x) : x[i] \in Parts
    BY <1>1, ElementOfSeq
  <2>2. /\ y \in Seq(Parts) /\ Len(y) = IF 3 <= Len(x) THEN Len(x) - 3 + 1 ELSE 0
        /\ \A i \in 1..Len(x) - 3 + 1 : y[i] = x[3 + i - 1]
    BY <2>1, SubSeqProperties
  <2> HIDE DEF y
  <2>3. Len(x) = 2 + Len(y) /\ Len(x) - 3 + 1 = Len(y)
    <3> DEFINE n == Len(x)
    <3>1. n \in Nat /\ n >= 2
      BY <1>1
    <3>2. Len(y) = IF 3 <= n THEN n - 3 + 1 ELSE 0
      BY <2>2
    <3> HIDE DEF n
    <3>3. n = 2 + Len(y) /\ n - 3 + 1 = Len(y)
      <4>1. CASE 3 <= n
        BY <3>1, <3>2, <4>1
      <4>2. CASE ~(3 <= n)
        BY <3>1, <3>2, <4>2
      <4> QED
        BY <4>1, <4>2
    <3> QED
      BY <3>3 DEF n
  <2>4. \A i \in 1..Len(y) : y[i] = x[i + 2]
    <3>1. \A i \in 1..Len(y) : 3 + i - 1 = i + 2
      OBVIOUS
    <3> QED
      BY <2>2, <2>3, <3>1
  <2> QED
    BY <2>2, <2>3, <2>4
<1>3. /\ 1 \in 1..Len(u) /\ 2 \in 1..Len(u) /\ u[1] = x[1] /\ u[2] = x[2]
      /\ x[1] \in Parts /\ x[1].what # "ask"
  <2>1. /\ u = x \o conn[mainSocket[s]].requests
        /\ conn[mainSocket[s]].requests \in Seq(Parts)
    BY <1>1, StreamTypes DEF StreamOf
  <2> HIDE DEF x, y, u
  <2>2. 1 \in 1..Len(x) /\ 2 \in 1..Len(x) /\ Head(x) = x[1]
    BY <1>1
  <2>3. \A i \in 1..Len(x) : i \in 1..Len(u) /\ u[i] = x[i]
    <3>1. CutBy(x, y, 2)
      BY <1>2 DEF CutBy
    <3>2. Begins(x, u)
      BY <1>1, <1>2, <2>1, <3>1, FrontOfStream
    <3> QED
      BY <3>2 DEF Begins
  <2>4. x[1] \in Parts
    BY <1>1, <2>2, ElementOfSeq
  <2> QED
    BY <1>1, <2>2, <2>3, <2>4
<1>4. u[1].what = "header" /\ u[2] = Body(u[1].command)
  <2>1. u[1].what \in {"header", "body"}
    BY <1>3 DEF Parts
  <2>2. u[1].what # "body"
    <3>1. u[1].what = "body" => 1 - 1 \in 1..Len(u)
      BY <1>1, <1>3 DEF InTurn
    <3> QED
      BY <3>1
  <2>3. u[1].what = "header" => u[1 + 1] = Body(u[1].command)
    BY <1>1, <1>3 DEF InTurn
  <2> QED
    BY <2>1, <2>2, <2>3
<1>5. x[2].what = "body" /\ Queue(s, x[2].command)
  <2>1. x[2].what = "body"
    BY <1>3, <1>4 DEF Body
  <2> QED
    BY <1>1, <2>1
<1>6. ASSUME 2 + 1 \in 1..Len(u) PROVE u[2 + 1].what # "body"
  <2>1. u[2 + 1].what = "body" => u[(2 + 1) - 1].what = "header"
    BY <1>1, <1>6 DEF InTurn
  <2>2. u[(2 + 1) - 1].what = "body"
    BY <1>3, <1>5
  <2> QED
    BY <2>1, <2>2
<1>7. /\ conn' \in Seq(Sockets) /\ Len(conn') = Len(conn)
      /\ \A k \in 1..Len(conn) : conn'[k].requests = conn[k].requests
  BY <1>1 DEF QueueTypeOK
<1>8. \E i \in 1..2 : x[i].what = "body" /\ Queue(s, x[i].command)
  BY <1>5
<1>9. \A i \in 1..2 : x[i].what = "body" => Queue(s, x[i].command)
  <2>1. x[1].what # "body"
    BY <1>3, <1>4
  <2>2. \A i \in 1..2 : i = 1 \/ i = 2
    OBVIOUS
  <2> QED
    BY <1>5, <2>1, <2>2
<1> HIDE DEF y
<1> QED
  BY <1>1, <1>2, <1>6, <1>7, <1>8, <1>9, TakeStep

\* A slave that is started again begins with an empty buffer.
LEMMA RestartStep == ASSUME QueueInv, NEW s \in Slaves, RestartSlave(s) PROVE QueueInv'
<1>0. /\ QueueTypeOK /\ OwnSocket /\ UNCHANGED <<taken, command, at>>
      /\ mainSocket[s] # NoConn /\ Onward
      /\ conn' = [conn EXCEPT ![mainSocket[s]].slave = FALSE]
      /\ mainSocket' = [mainSocket EXCEPT ![s] = NoConn]
      /\ packetBuf' = [packetBuf EXCEPT ![s] = <<>>]
      /\ waiting' = [waiting EXCEPT ![s] = <<>>]
  BY DEF QueueInv, RestartSlave, Onward, master
<1>1. /\ conn' \in Seq(Sockets) /\ Len(conn') = Len(conn)
      /\ \A k \in 1..Len(conn) : conn'[k].requests = conn[k].requests
  BY <1>0, SocketChange
<1>2. /\ mainSocket \in [Slaves -> 0..Len(conn)] /\ Len(conn) \in Nat
      /\ \A t \in Slaves : t # s => /\ mainSocket'[t] = mainSocket[t]
                                   /\ packetBuf'[t] = packetBuf[t]
      /\ mainSocket'[s] = NoConn /\ packetBuf'[s] = <<>>
      /\ <<>> \in Seq(Parts) /\ <<>> \in Seq(Nat)
  BY <1>0, LenProperties DEF QueueTypeOK
<1>3. QueueTypeOK' /\ OwnSocket'
  <2>1. mainSocket' \in [Slaves -> 0..Len(conn')]
    BY <1>0, <1>1, <1>2 DEF NoConn
  <2>2. packetBuf' \in [Slaves -> Seq(Parts)] /\ waiting' \in [Programs -> Seq(Nat)]
    BY <1>0, <1>2 DEF QueueTypeOK
  <2>3. OwnSocket'
    BY <1>0, <1>2 DEF OwnSocket
  <2> QED
    BY <1>0, <1>1, <2>1, <2>2, <2>3 DEF QueueTypeOK
<1>4. Streams' = [Streams EXCEPT ![s] = <<>>]
  <2>1. StreamOf(s)' = <<>>
    BY <1>2 DEF StreamOf
  <2>2. ASSUME NEW t \in Slaves, t # s PROVE StreamOf(t)' = StreamOf(t)
    <3>1. mainSocket[t] # NoConn => mainSocket[t] \in 1..Len(conn)
      BY <1>0, StreamTypes
    <3> QED
      BY <1>1, <1>2, <2>2, <3>1 DEF StreamOf
  <2>3. /\ Streams' = [t \in Slaves |-> StreamOf(t)']
        /\ Streams = [t \in Slaves |-> StreamOf(t)]
    BY DEF Streams, StreamOf
  <2> QED
    BY <2>1, <2>2, <2>3
<1>5. Streams[s] \in Seq(Parts) /\ Len(Streams[s]) \in Nat
  BY <1>0, StreamTypes, LenProperties
<1>6. /\ Len(Streams[s]) = Len(Streams[s]) + Len(<<>>)
      /\ \A i \in 1..Len(<<>>) : <<>>[i] = Streams[s][i + Len(Streams[s])]
      /\ Len(Streams[s]) + 1 \notin 1..Len(Streams[s])
  BY <1>5
<1> QED
  BY <1>0, <1>2, <1>3, <1>4, <1>5, <1>6, StreamStep

\* A slave connects, with what it has in its buffer.
LEMMA ConnectStep ==
  ASSUME QueueInv, NEW s \in Slaves, ConnectSlave(s) PROVE QueueInv' /\ Keeping
<1> DEFINE r == [of |-> s, master |-> TRUE, slave |-> TRUE, accepted |-> FALSE,
                 requests |-> <<>>, delays |-> <<>>]
<1>0. /\ QueueTypeOK /\ OwnSocket /\ UNCHANGED <<waiting, taken, master, packetBuf>>
      /\ Onward /\ mainSocket[s] = NoConn /\ conn' = Append(conn, r)
      /\ mainSocket' = [mainSocket EXCEPT ![s] = Len(conn')]
  BY DEF QueueInv, ConnectSlave, Onward, master, outs
<1>1. r \in Sockets /\ r.requests = <<>>
  <2>1. <<>> \in Seq(Parts) /\ <<>> \in Seq(Nat)
    OBVIOUS
  <2> QED
    BY <2>1 DEF Sockets
<1> HIDE DEF r
<1>2. /\ conn' \in Seq(Sockets) /\ Len(conn) \in Nat /\ Len(conn') = Len(conn) + 1
      /\ \A k \in 1..Len(conn) : conn'[k] = conn[k]
      /\ conn'[Len(conn) + 1] = r
  <2>1. conn \in Seq(Sockets)
    BY <1>0 DEF QueueTypeOK
  <2> QED
    BY <1>0, <1>1, <2>1, AppendProperties, LenProperties
<1>3. /\ mainSocket \in [Slaves -> 0..Len(conn)]
      /\ \A t \in Slaves : t # s => mainSocket'[t] = mainSocket[t]
      /\ mainSocket'[s] = Len(conn) + 1
  BY <1>0, <1>2 DEF QueueTypeOK
<1>4. QueueTypeOK' /\ OwnSocket'
  <2>1. mainSocket' \in [Slaves -> 0..Len(conn')]
    <3>1. \A t \in Slaves : mainSocket'[t] \in 0..Len(conn) + 1
      BY <1>2, <1>3
    <3> QED
      BY <1>0, <1>2, <1>3, <3>1
  <2>2. \A t \in Slaves : mainSocket[t] # Len(conn) + 1
    BY <1>2, <1>3
  <2>3. OwnSocket'
    BY <1>0, <1>3, <2>2 DEF OwnSocket
  <2> QED
    BY <1>0, <1>2, <2>1, <2>3 DEF QueueTypeOK, master
<1>5. ASSUME NEW t \in Slaves PROVE StreamOf(t)' = StreamOf(t)
  <2>1. CASE t = s
    <3>1. packetBuf[s] \in Seq(Parts)
      BY <1>0, StreamTypes
    <3>2. mainSocket'[s] # NoConn /\ conn'[mainSocket'[s]].requests = <<>>
      BY <1>1, <1>2, <1>3 DEF NoConn
    <3>3. StreamOf(s)' = packetBuf[s] \o <<>> /\ StreamOf(s) = packetBuf[s]
      BY <1>0, <3>2 DEF StreamOf
    <3> QED
      BY <2>1, <3>1, <3>3, ConcatEmptySeq
  <2>2. CASE t # s
    <3>1. mainSocket[t] # NoConn => mainSocket[t] \in 1..Len(conn)
      BY <1>0, StreamTypes
    <3> QED
      BY <1>0, <1>2, <1>3, <2>2, <3>1 DEF StreamOf
  <2> QED
    BY <2>1, <2>2
<1>6. Streams' = Streams
  BY <1>5 DEF Streams, StreamOf
<1> QED
  BY <1>0, <1>4, <1>6, Quiet

LEMMA MasterAndSlaves == QueueInv /\ [QueueNext]_queueVars => QueueInv'
<1> SUFFICES ASSUME QueueInv, [QueueNext]_queueVars PROVE QueueInv'
  OBVIOUS
<1>1. CASE GiveCommand
  BY <1>1, GiveStep
<1>2. CASE OnQueue \/ Accept
  BY <1>2, AskStep, MasterStep, ForwardStep, SayMyselfStep DEF OnQueue
<1>3. ASSUME NEW s \in Slaves, ConnectSlave(s) \/ SlaveUpdate(s) \/ RestartSlave(s)
      PROVE  QueueInv'
  <2>1. CASE ConnectSlave(s)
    BY <2>1, ConnectStep
  <2>2. CASE FindClosed(s)
    BY <2>2, ClosedStep
  <2>3. CASE AnswerDelay(s)
    BY <2>3, AnswerDelayStep
  <2>4. CASE TakeCommand(s)
    BY <2>4, TakeCommandStep
  <2>5. ASSUME NEW k \in 1..2 * MaxCommands, ReadRequests(s, k) PROVE QueueInv'
    BY <2>5, ReceiveStep
  <2>6. CASE RestartSlave(s)
    BY <2>6, RestartStep
  <2> QED
    BY <1>3, <2>1, <2>2, <2>3, <2>4, <2>5, <2>6 DEF SlaveUpdate
<1>4. ASSUME NEW p \in Programs, OwnQueue(p) PROVE QueueInv'
  BY <1>4, MasterStep
<1>5. CASE UNCHANGED queueVars
  <2>1. /\ UNCHANGED <<waiting, taken, command, at, packetBuf, mainSocket, conn>>
    BY <1>5 DEF queueVars
  <2>2. Streams' = Streams
    BY <2>1 DEF Streams
  <2> QED
    BY <2>1, <2>2 DEF QueueInv, QueueTypeOK, OwnSocket, DoneWith
<1> QED
  BY <1>1, <1>2, <1>3, <1>4, <1>5 DEF QueueNext, OwnQueue

\* Where a command is said or discarded is one place, and torn bytes are neither.
LEMMA QueueInvGood == QueueInv => SaidOnce
<1> SUFFICES ASSUME QueueInv PROVE SaidOnce
  OBVIOUS
<1>1. \A p \in Programs : taken[p] \in Seq(Nat) /\ DOMAIN taken[p] = 1..Len(taken[p])
  BY LenProperties DEF QueueInv, QueueTypeOK
<1>2. ASSUME NEW c \in Nat, NEW g \in Takings(c)
      PROVE  /\ g \in Programs \X Nat /\ g[1] \in Programs /\ g[2] \in Nat
             /\ g = <<g[1], g[2]>> /\ SaidAt(taken, g[1], g[2], c)
  <2>1. /\ g \in Programs \X Commands /\ g[2] \in DOMAIN taken[g[1]] /\ taken[g[1]][g[2]] = c
    BY DEF Takings
  <2>2. Commands \subseteq Nat
    BY QueueAssumption DEF Commands
  <2> QED
    BY <1>1, <2>1, <2>2 DEF SaidAt
<1>3. ASSUME NEW c \in Nat PROVE Cardinality(Takings(c)) <= 1
  <2>1. ASSUME NEW g \in Takings(c), NEW h \in Takings(c) PROVE g = h
    <3>1. Once(taken, Streams, c)
      BY DEF QueueInv
    <3>2. g[1] = h[1] /\ g[2] = h[2]
      BY <1>2, <3>1 DEF Once
    <3> QED
      BY <1>2, <3>2
  <2>2. CASE Takings(c) = {}
    BY <2>2, FS_EmptySet
  <2>3. ASSUME NEW g \in Takings(c) PROVE Cardinality(Takings(c)) <= 1
    <3>1. Takings(c) = {g}
      BY <2>1, <2>3
    <3>2. Cardinality({g}) = 1
      BY FS_Singleton
    <3> QED
      BY <3>1, <3>2
  <2> QED
    BY <2>2, <2>3
<1>4. Takings(Torn) = {}
  <2> SUFFICES ASSUME NEW g \in Takings(Torn) PROVE FALSE
    OBVIOUS
  <2>1. Torn \in Nat
    BY DEF Torn
  <2>2. Held(taken, Streams, Torn)
    BY <1>2, <2>1 DEF Held
  <2>3. Torn \in 1..command
    BY <2>1, <2>2 DEF QueueInv, DoneWith
  <2> QED
    BY <2>3 DEF Torn
<1>5. \A c \in Commands : c \in Nat
  BY QueueAssumption DEF Commands
<1> QED
  BY <1>3, <1>4, <1>5 DEF SaidOnce

\* queue.py:127-149, 151-215: whatever the slaves' delays, timeouts, broken connections and
\* restarts, a command is left to one program at most, and once, and nothing is said that
\* was not a whole command: what a slave has buffered, then what is on its wire, is always
\* a sequence of whole messages, in the order the master wrote them.
THEOREM CommandsSaidOnce == QueueInit /\ [][QueueNext]_queueVars => []SaidOnce
BY QueueInitInv, MasterAndSlaves, QueueInvGood, PTL

\* What the master goes through are connections, and if one of them is the best it has read
\* from one.
InRange ==
  /\ queueFaults \in Nat
  /\ connections \in Seq(1..Len(conn)) /\ todo \in Seq(1..Len(conn))
  /\ kept \in Seq(1..Len(conn))
  /\ latest \in 0..Len(conn) /\ best.conn \in 0..Len(conn)
  /\ best.conn # NoConn => latest # NoConn

\* Without a fault each is open at both ends, and its slave listens to it,
AllOpen == queueFaults = 0 =>
  \A k \in 1..Len(conn) : conn[k].master /\ conn[k].slave /\ mainSocket[conn[k].of] = k

\* and what the master has done with is in one of the places.
AllHeld == queueFaults = 0 => \A c \in Nat : DoneWith(c) => Held(taken, Streams, c)

\* The lists of connections keep to those there are.
LEMMA ListSteps ==
  ASSUME NEW S, NEW s \in Seq(S), NEW t \in Seq(S), s # <<>>
  PROVE  Head(s) \in S /\ Tail(s) \in Seq(S) /\ Append(t, Head(s)) \in Seq(S)
<1>1. Head(s) \in S /\ Tail(s) \in Seq(S)
  BY HeadTailProperties
<1> QED
  BY <1>1, AppendProperties

\* There may be more of them.
LEMMA ListWidens ==
  ASSUME NEW m \in Nat, NEW n \in Nat, m <= n, NEW s \in Seq(1..m)
  PROVE  s \in Seq(1..n)
<1>1. /\ Len(s) \in Nat /\ s \in [1..Len(s) -> 1..m]
  BY LenProperties
<1>2. \A i \in 1..Len(s) : s[i] \in 1..n
  BY <1>1
<1>3. s \in [1..Len(s) -> 1..n]
  BY <1>1, <1>2
<1> QED
  BY <1>1, <1>3

\* Every step keeps InRange.
LEMMA RangeStep == ASSUME QueueInv, QueueInv', InRange, [QueueNext]_queueVars PROVE InRange'
<1>0. /\ Len(conn) \in Nat /\ QueueTypeOK
      /\ queueFaults' \in Nat
  <2>1. QueueTypeOK
    BY DEF QueueInv
  <2>2. queueFaults' = queueFaults \/ queueFaults' = queueFaults + 1
    BY DEF QueueNext, GiveCommand, OnQueue, AskDelay, Comprehended, ReadDelay, ReadFails, Forward,
       LoseCommand, SayMyself, Accept, ConnectSlave, SlaveUpdate, FindClosed, AnswerDelay,
       TakeCommand, ReadRequests, RestartSlave, SayQueued, LogOut, Reconnect, LogIn, QueueFault,
       queueVars
  <2> QED
    BY <2>1, <2>2, LenProperties DEF InRange, QueueTypeOK
<1> DEFINE S == 1..Len(conn)
<1>1. CASE Len(conn') = Len(conn) /\ UNCHANGED master
  BY <1>0, <1>1 DEF InRange, master
<1>2. CASE GiveCommand
  <2>1. /\ <<>> \in Seq(S) /\ best' = NoBest /\ kept' = <<>> /\ NoBest.conn = NoConn
        /\ todo' \in {todo, connections} /\ UNCHANGED <<conn, connections, latest>>
    BY <1>2 DEF GiveCommand, NoBest
  <2> HIDE DEF S
  <2>2. NoConn \in 0..Len(conn)
    BY <1>0 DEF NoConn
  <2> QED
    BY <1>0, <2>1, <2>2 DEF InRange, S
<1>3. ASSUME NEW works \in BOOLEAN, AskDelay(works) PROVE InRange'
  <2>1. /\ todo # <<>> /\ latest' = Head(todo) /\ todo' = Tail(todo)
        /\ kept' \in {kept, Append(kept, Head(todo))}
        /\ UNCHANGED <<connections, best>>
        /\ Send(Head(todo), <<Ask>>) \/ CloseAtMaster(Head(todo))
    BY <1>3 DEF AskDelay
  <2>2. Len(conn') = Len(conn)
    <3>1. <<Ask>> \in Seq(Parts)
      BY DEF Parts, Ask, Torn
    <3> QED
      BY <1>0, <2>1, <3>1, SendChange, SocketChange
  <2>3. Head(todo) \in S /\ Tail(todo) \in Seq(S) /\ Append(kept, Head(todo)) \in Seq(S)
    BY <2>1, ListSteps DEF InRange
  <2>4. latest' # NoConn /\ latest' \in 0..Len(conn)
    BY <1>0, <2>1, <2>3 DEF NoConn
  <2> HIDE DEF S
  <2> QED
    BY <1>0, <2>1, <2>2, <2>3, <2>4 DEF InRange, S
<1>4. CASE Comprehended
  <2>1. /\ connections' = kept /\ todo' \in {todo, kept} /\ kept' \in {kept, <<>>}
        /\ UNCHANGED <<conn, best, latest>> /\ <<>> \in Seq(S)
    BY <1>4 DEF Comprehended
  <2> HIDE DEF S
  <2> QED
    BY <1>0, <2>1 DEF InRange, S
<1>5. CASE ReadDelay \/ ReadFails
  <2>1. /\ todo # <<>> /\ latest' = Head(todo) /\ todo' = Tail(todo)
        /\ kept' \in {kept, Append(kept, Head(todo))}
        /\ UNCHANGED connections /\ best'.conn \in {best.conn, Head(todo)}
        /\ \/ CloseAtMaster(Head(todo))
           \/ /\ conn' = [conn EXCEPT ![Head(todo)].delays = Tail(@)]
              /\ conn[Head(todo)].delays # <<>>
    BY <1>5 DEF ReadDelay, ReadFails
  <2>2. Len(conn') = Len(conn)
    BY <1>0, <2>1, SocketChange
  <2>3. Head(todo) \in S /\ Tail(todo) \in Seq(S) /\ Append(kept, Head(todo)) \in Seq(S)
    BY <2>1, ListSteps DEF InRange
  <2>4. latest' # NoConn /\ latest' \in 0..Len(conn)
    BY <1>0, <2>1, <2>3 DEF NoConn
  <2>5. best'.conn \in 0..Len(conn)
    <3>1. best.conn \in 0..Len(conn) /\ Head(todo) \in 0..Len(conn)
      BY <1>0, <2>3 DEF InRange
    <3> HIDE DEF S
    <3> QED
      BY <2>1, <3>1
  <2> HIDE DEF S
  <2> QED
    BY <1>0, <2>1, <2>2, <2>3, <2>4, <2>5 DEF InRange, S
<1>6. CASE Forward \/ LoseCommand \/ SayMyself
  <2>1. Len(conn') = Len(conn)
    <3>1. CASE Forward
      <4>1. Send(best.conn, <<Header(command), Body(command)>>)
        BY <3>1 DEF Forward
      <4>2. Header(command) \in Parts /\ Body(command) \in Parts
        BY <1>0, QueueAssumption DEF Header, Body, Parts, QueueTypeOK
      <4>3. <<Header(command), Body(command)>> \in Seq(Parts)
        BY <4>2
      <4> QED
        BY <1>0, <4>1, <4>3, SendChange
    <3>2. CASE LoseCommand \/ SayMyself
      <4>1. CloseAtMaster(best.conn) \/ UNCHANGED conn
        BY <3>2 DEF LoseCommand, SayMyself
      <4> QED
        BY <1>0, <4>1, SocketChange
    <3> QED
      BY <1>6, <3>1, <3>2
  <2>2. UNCHANGED <<connections, todo, kept, best, latest>>
    BY <1>6 DEF Forward, LoseCommand, SayMyself
  <2> QED
    BY <1>0, <2>1, <2>2 DEF InRange
<1>7. CASE Accept
  <2>1. PICK c \in DOMAIN conn : /\ connections' = Append(connections, c)
                                /\ conn' = [conn EXCEPT ![c].accepted = TRUE]
    BY <1>7 DEF Accept
  <2>2. Len(conn') = Len(conn) /\ DOMAIN conn = S
    BY <1>0, <2>1, SocketChange, LenProperties DEF QueueTypeOK
  <2>3. Append(connections, c) \in Seq(S)
    BY <2>2, AppendProperties DEF InRange
  <2>4. UNCHANGED <<todo, kept, best, latest>>
    BY <1>7 DEF Accept
  <2> HIDE DEF S
  <2> QED
    BY <1>0, <2>1, <2>2, <2>3, <2>4 DEF InRange, S
<1>8. ASSUME NEW s \in Slaves, ConnectSlave(s) PROVE InRange'
  <2>1. Len(conn') = Len(conn) + 1
    <3>1. \E r : conn' = Append(conn, r)
      BY <1>8 DEF ConnectSlave
    <3> QED
      BY <1>0, <3>1, AppendProperties DEF QueueTypeOK
  <2>2. UNCHANGED <<connections, todo, kept, best, latest>>
    BY <1>8 DEF ConnectSlave, master
  <2>3. \A t \in Seq(S) : t \in Seq(1..Len(conn'))
    <3>1. Len(conn') \in Nat /\ Len(conn) <= Len(conn')
      BY <1>0, <2>1
    <3> QED
      BY <1>0, <3>1, ListWidens
  <2>4. 0..Len(conn) \subseteq 0..Len(conn')
    BY <1>0, <2>1
  <2> HIDE DEF S
  <2> QED
    BY <1>0, <2>2, <2>3, <2>4 DEF InRange, S
<1>9. ASSUME NEW s \in Slaves, SlaveUpdate(s) \/ RestartSlave(s)
      PROVE  Len(conn') = Len(conn) /\ UNCHANGED master
  <2>1. CASE \E k \in 1..2 * MaxCommands : ReadRequests(s, k)
    <3>1. PICK k : ReadRequests(s, k)
      BY <2>1
    <3>2. PICK r : conn' = [conn EXCEPT ![mainSocket[s]] = r]
      BY <3>1 DEF ReadRequests
    <3> QED
      BY <1>0, <3>1, <3>2, LenProperties DEF ReadRequests, QueueTypeOK
  <2>2. CASE FindClosed(s) \/ AnswerDelay(s) \/ TakeCommand(s) \/ RestartSlave(s)
    <3>1. DelayTold(s) \in Nat
      BY <1>0, ToldIsNat
    <3>2. \/ conn' = [conn EXCEPT ![mainSocket[s]].slave = FALSE]
          \/ \E n \in Nat : conn' = [conn EXCEPT ![mainSocket[s]].delays = Append(@, n)]
          \/ UNCHANGED conn
      BY <2>2, <3>1 DEF FindClosed, AnswerDelay, TakeCommand, RestartSlave
    <3>3. UNCHANGED master
      BY <2>2 DEF FindClosed, AnswerDelay, TakeCommand, RestartSlave
    <3> QED
      BY <1>0, <3>2, <3>3, SocketChange
  <2> QED
    BY <1>9, <2>1, <2>2 DEF SlaveUpdate
<1>10. CASE UNCHANGED queueVars \/ \E p \in Programs : OwnQueue(p)
  BY <1>1, <1>10 DEF queueVars, OwnQueue, SayQueued, LogOut, Reconnect, LogIn, master
<1> QED
  BY <1>1, <1>2, <1>3, <1>4, <1>5, <1>6, <1>7, <1>8, <1>9, <1>10 DEF QueueNext, OnQueue, OwnQueue

\* While nothing has failed nothing is closed, and nobody connects twice.
LEMMA OpenStep ==
  ASSUME QueueInv, QueueInv', InRange, AllOpen, [QueueNext]_queueVars, queueFaults' = 0
  PROVE  queueFaults = 0 /\ AllOpen'
<1>0. /\ QueueTypeOK /\ conn \in Seq(Sockets) /\ Len(conn) \in Nat
      /\ DOMAIN conn = 1..Len(conn) /\ queueFaults \in Nat
  BY LenProperties DEF QueueInv, QueueTypeOK, InRange
<1>1. ~QueueFault /\ queueFaults = 0 /\ \A s \in Slaves : ~RestartSlave(s)
  <2>1. ~QueueFault
    BY <1>0 DEF QueueFault
  <2>2. \A s \in Slaves : ~RestartSlave(s)
    BY <2>1 DEF RestartSlave
  <2>3. queueFaults' = queueFaults
    BY <2>1, <2>2 DEF QueueNext, GiveCommand, OnQueue, AskDelay, Comprehended, ReadDelay, ReadFails,
       Forward, LoseCommand, SayMyself, Accept, ConnectSlave, SlaveUpdate, FindClosed,
       AnswerDelay, TakeCommand, ReadRequests, SayQueued, LogOut, Reconnect, LogIn, queueVars
  <2> QED
    BY <2>1, <2>2, <2>3
<1>2. \A k \in 1..Len(conn) : conn[k].master /\ conn[k].slave /\ mainSocket[conn[k].of] = k
  BY <1>1 DEF AllOpen
<1> DEFINE Same == /\ Len(conn') = Len(conn) /\ UNCHANGED mainSocket
                   /\ \A k \in 1..Len(conn) : /\ conn'[k].master = conn[k].master
                                              /\ conn'[k].slave = conn[k].slave
                                              /\ conn'[k].of = conn[k].of
<1>3. ASSUME NEW c, NEW r, conn' = [conn EXCEPT ![c] = r], UNCHANGED mainSocket,
             c \in 1..Len(conn) =>
               r.master = conn[c].master /\ r.slave = conn[c].slave /\ r.of = conn[c].of
      PROVE  Same
  <2>1. Len(conn') = Len(conn)
    BY <1>0, <1>3, LenProperties DEF QueueInv, QueueTypeOK
  <2>2. \A k \in 1..Len(conn) : conn'[k] = IF k = c THEN r ELSE conn[k]
    BY <1>0, <1>3
  <2> QED
    BY <1>3, <2>1, <2>2
<1>4. CASE Same
  <2>1. \A k \in 1..Len(conn) : conn'[k].master /\ conn'[k].slave /\ mainSocket'[conn'[k].of] = k
    BY <1>2, <1>4
  <2> QED
    BY <1>1, <1>4, <2>1 DEF AllOpen
<1>5. ASSUME NEW c, NEW b, Send(c, b), UNCHANGED mainSocket PROVE Same
  <2> DEFINE r == [conn[c] EXCEPT !.requests = @ \o b]
  <2>1. conn' = [conn EXCEPT ![c] = r]
    BY <1>5 DEF Send
  <2>2. c \in 1..Len(conn) =>
          r.master = conn[c].master /\ r.slave = conn[c].slave /\ r.of = conn[c].of
    <3>1. c \in 1..Len(conn) => conn[c] \in Sockets
      BY <1>0, ElementOfSeq
    <3> QED
      BY <3>1 DEF Sockets
  <2> HIDE DEF r, Same
  <2> QED
    BY <1>3, <1>5, <2>1, <2>2
<1> HIDE DEF Same
<1>6. CASE GiveCommand \/ Comprehended \/ SayMyself \/ UNCHANGED queueVars
  <2>1. UNCHANGED <<conn, mainSocket>>
    BY <1>6 DEF GiveCommand, Comprehended, SayMyself, queueVars, slaves
  <2> QED
    BY <1>4, <2>1 DEF Same
<1>7. ASSUME NEW works \in BOOLEAN, AskDelay(works) PROVE AllOpen'
  <2>1. todo # <<>> /\ UNCHANGED mainSocket
    BY <1>7 DEF AskDelay, slaves
  <2>2. Head(todo) \in 1..Len(conn)
    BY <2>1, HeadTailProperties DEF InRange
  <2>3. Send(Head(todo), <<Ask>>)
    BY <1>2, <1>7, <2>2 DEF AskDelay
  <2> QED
    BY <1>4, <1>5, <2>1, <2>3
<1>8. CASE ReadDelay
  <2> DEFINE c == Head(todo)
             r == [conn[c] EXCEPT !.delays = Tail(@)]
  <2>1. conn' = [conn EXCEPT ![c] = r] /\ UNCHANGED mainSocket
    BY <1>8 DEF ReadDelay, slaves
  <2>2. c \in 1..Len(conn) =>
          r.master = conn[c].master /\ r.slave = conn[c].slave /\ r.of = conn[c].of
    <3>1. c \in 1..Len(conn) => conn[c] \in Sockets
      BY <1>0, ElementOfSeq
    <3> HIDE DEF c
    <3> QED
      BY <3>1 DEF Sockets
  <2> HIDE DEF c, r
  <2> QED
    BY <1>3, <1>4, <2>1, <2>2
<1>9. ~ReadFails
  <2> SUFFICES ASSUME ReadFails PROVE FALSE
    OBVIOUS
  <2>1. todo # <<>> /\ ~conn[Head(todo)].slave
    BY <1>1 DEF ReadFails
  <2>2. Head(todo) \in 1..Len(conn)
    BY <2>1, HeadTailProperties DEF InRange
  <2> QED
    BY <1>2, <2>1, <2>2
<1>10. CASE Forward
  <2>1. Send(best.conn, <<Header(command), Body(command)>>) /\ UNCHANGED mainSocket
    BY <1>10 DEF Forward, slaves
  <2> QED
    BY <1>4, <1>5, <2>1
<1>11. ~LoseCommand
  <2> SUFFICES ASSUME LoseCommand PROVE FALSE
    OBVIOUS
  <2>1. /\ best.conn # NoConn
        /\ ~conn[latest].master \/ ~conn[best.conn].slave \/ ~conn[latest].slave
    BY DEF LoseCommand, Quicker
  <2>2. best.conn \in 1..Len(conn) /\ latest \in 1..Len(conn)
    BY <1>0, <2>1 DEF InRange, NoConn
  <2> QED
    BY <1>2, <2>1, <2>2
<1>12. CASE Accept
  <2>1. PICK c \in 1..Len(conn) : conn' = [conn EXCEPT ![c].accepted = TRUE]
    BY <1>0, <1>12 DEF Accept
  <2> DEFINE r == [conn[c] EXCEPT !.accepted = TRUE]
  <2>2. conn' = [conn EXCEPT ![c] = r] /\ UNCHANGED mainSocket
    BY <1>12, <2>1 DEF Accept, slaves
  <2>3. r.master = conn[c].master /\ r.slave = conn[c].slave /\ r.of = conn[c].of
    <3>1. conn[c] \in Sockets
      BY <1>0, ElementOfSeq
    <3> QED
      BY <3>1 DEF Sockets
  <2> HIDE DEF r
  <2> QED
    BY <1>3, <1>4, <2>2, <2>3
<1>13. ASSUME NEW s \in Slaves, ConnectSlave(s) PROVE AllOpen'
  <2> DEFINE r == [of |-> s, master |-> TRUE, slave |-> TRUE, accepted |-> FALSE,
                   requests |-> <<>>, delays |-> <<>>]
             n == Len(conn) + 1
  <2>1. /\ mainSocket[s] = NoConn /\ conn' = Append(conn, r)
        /\ mainSocket' = [mainSocket EXCEPT ![s] = Len(conn')]
        /\ r.of = s /\ r.master /\ r.slave
    BY <1>13 DEF ConnectSlave
  <2> HIDE DEF r
  <2>2. /\ Len(conn') = n /\ conn'[n] = r /\ \A k \in 1..Len(conn) : conn'[k] = conn[k]
        /\ \A k \in 1..n : k = n \/ k \in 1..Len(conn)
    BY <1>0, <2>1, AppendProperties
  <2>3. /\ mainSocket'[s] = n
        /\ \A t \in Slaves : t # s => mainSocket'[t] = mainSocket[t]
    BY <1>0, <2>1, <2>2 DEF QueueTypeOK
  <2>4. \A k \in 1..Len(conn) : conn[k].of \in Slaves /\ conn[k].of # s
    <3>1. ASSUME NEW k \in 1..Len(conn) PROVE conn[k].of \in Slaves
      <4>1. conn[k] \in Sockets
        BY <1>0, ElementOfSeq
      <4> QED
        BY <4>1 DEF Sockets
    <3>2. \A k \in 1..Len(conn) : k # NoConn
      BY <1>0 DEF NoConn
    <3> QED
      BY <1>2, <2>1, <3>1, <3>2
  <2> HIDE DEF n
  <2> QED
    BY <1>2, <2>1, <2>2, <2>3, <2>4 DEF AllOpen
<1>14. ASSUME NEW s \in Slaves, SlaveUpdate(s) PROVE AllOpen'
  <2> DEFINE c == mainSocket[s]
  <2>0. c # NoConn => c \in 1..Len(conn)
    BY <1>0, StreamTypes
  <2>1. CASE \E k \in 1..2 * MaxCommands : ReadRequests(s, k)
    <3>1. PICK k : ReadRequests(s, k)
      BY <2>1
    <3> DEFINE r == [conn[c] EXCEPT !.requests = SubSeq(@, k + 1, Len(@))]
    <3>2. conn' = [conn EXCEPT ![c] = r] /\ UNCHANGED mainSocket
      BY <3>1 DEF ReadRequests
    <3>3. c \in 1..Len(conn) =>
            r.master = conn[c].master /\ r.slave = conn[c].slave /\ r.of = conn[c].of
      <4>1. c \in 1..Len(conn) => conn[c] \in Sockets
        BY <1>0, ElementOfSeq
      <4> HIDE DEF c
      <4> QED
        BY <4>1 DEF Sockets
    <3> HIDE DEF c, r
    <3> QED
      BY <1>3, <1>4, <3>2, <3>3
  <2>2. ~FindClosed(s)
    BY <1>2, <2>0 DEF FindClosed
  <2>3. CASE AnswerDelay(s)
    <3> DEFINE r == [conn[c] EXCEPT !.delays = Append(@, DelayTold(s))]
    <3>1. /\ conn' = [conn EXCEPT ![c] = r] \/ UNCHANGED conn
          /\ UNCHANGED mainSocket
      BY <2>3 DEF AnswerDelay
    <3>2. c \in 1..Len(conn) =>
            r.master = conn[c].master /\ r.slave = conn[c].slave /\ r.of = conn[c].of
      <4>1. c \in 1..Len(conn) => conn[c] \in Sockets
        BY <1>0, ElementOfSeq
      <4> HIDE DEF c
      <4> QED
        BY <4>1 DEF Sockets
    <3> HIDE DEF c, r
    <3>3. CASE UNCHANGED conn
      BY <1>4, <3>1, <3>3 DEF Same
    <3> QED
      BY <1>3, <1>4, <3>1, <3>2, <3>3
  <2>4. CASE TakeCommand(s)
    BY <1>4, <2>4 DEF TakeCommand, Same
  <2> QED
    BY <1>14, <2>1, <2>2, <2>3, <2>4 DEF SlaveUpdate
<1>15. ASSUME NEW p \in Programs, OwnQueue(p) PROVE AllOpen'
  BY <1>4, <1>15 DEF OwnQueue, SayQueued, LogOut, Reconnect, LogIn, slaves, Same
<1> QED
  BY <1>1, <1>6, <1>7, <1>8, <1>9, <1>10, <1>11, <1>12, <1>13, <1>14, <1>15
     DEF QueueNext, OnQueue, OwnQueue

\* No step loses a command, and the master is done with one when it is left to a program or
\* sent to a slave that listens.
LEMMA AllHeldStep ==
  ASSUME QueueInv, QueueInv', InRange, AllOpen, AllHeld, [QueueNext]_queueVars
  PROVE  AllHeld'
<1> SUFFICES ASSUME queueFaults' = 0, NEW c \in Nat, DoneWith(c)' PROVE Held(taken', Streams', c)
  BY DEF AllHeld
<1>0. /\ QueueTypeOK /\ Len(conn) \in Nat /\ queueFaults = 0 /\ command \in Nat
      /\ \A d \in Nat : DoneWith(d) => Held(taken, Streams, d)
  BY OpenStep, LenProperties, QueueAssumption DEF QueueInv, QueueTypeOK, AllHeld
<1>1. ASSUME Keeping, command' = command, at' = "idle" => at = "idle"
      PROVE  Held(taken', Streams', c)
  <2>1. DoneWith(c)
    BY <1>1 DEF DoneWith
  <2> QED
    BY <1>0, <1>1, <2>1 DEF Keeping
<1>2. ASSUME Keeping, command' = command, Held(taken', Streams', command)
      PROVE  Held(taken', Streams', c)
  <2>1. CASE c = command
    BY <1>2, <2>1
  <2>2. CASE c # command
    <3>1. DoneWith(c)
      BY <1>2, <2>2 DEF DoneWith
    <3> QED
      BY <1>0, <1>2, <3>1 DEF Keeping
  <2> QED
    BY <2>1, <2>2
<1>3. CASE GiveCommand
  <2>1. /\ Keeping /\ (at' = "idle" => Held(taken', Streams', command'))
        /\ command' = command + 1 /\ at = "idle"
    BY <1>3, GiveStep DEF GiveCommand
  <2>2. CASE c = command'
    BY <2>1, <2>2 DEF DoneWith
  <2>3. CASE c # command'
    <3>1. DoneWith(c)
      BY <1>0, <2>1, <2>3 DEF DoneWith
    <3> QED
      BY <1>0, <2>1, <3>1 DEF Keeping
  <2> QED
    BY <2>2, <2>3
<1>4. ASSUME NEW works \in BOOLEAN, AskDelay(works) PROVE Held(taken', Streams', c)
  BY <1>1, <1>4, AskStep DEF AskDelay
<1>5. CASE Comprehended \/ ReadDelay \/ ReadFails \/ Accept \/ \E p \in Programs : OwnQueue(p)
  <2>1. Keeping
    BY <1>5, MasterStep
  <2>2. command' = command /\ (at' = "idle" => at = "idle")
    BY <1>5 DEF Comprehended, ReadDelay, ReadFails, Accept, OwnQueue, SayQueued, LogOut, Reconnect,
       LogIn, master
  <2> QED
    BY <1>1, <2>1, <2>2
<1>6. CASE Forward
  <2>1. best.conn # NoConn /\ best.conn \in 1..Len(conn)
    BY <1>0, <1>6 DEF Forward, Quicker, InRange, NoConn
  <2>2. conn[best.conn].of \in Slaves /\ mainSocket[conn[best.conn].of] = best.conn
    <3>1. conn[best.conn] \in Sockets
      BY <1>0, <2>1, ElementOfSeq DEF QueueTypeOK
    <3> QED
      BY <1>0, <2>1, <3>1 DEF Sockets, AllOpen
  <2>3. Keeping /\ Held(taken', Streams', command)
    BY <1>6, <2>1, <2>2, ForwardStep
  <2>4. command' = command
    BY <1>6 DEF Forward
  <2> QED
    BY <1>2, <2>3, <2>4
<1>7. ~LoseCommand
  <2> SUFFICES ASSUME LoseCommand PROVE FALSE
    OBVIOUS
  <2>1. /\ best.conn # NoConn
        /\ ~conn[latest].master \/ ~conn[best.conn].slave \/ ~conn[latest].slave
    BY DEF LoseCommand, Quicker
  <2>2. best.conn \in 1..Len(conn) /\ latest \in 1..Len(conn)
    BY <1>0, <2>1 DEF InRange, NoConn
  <2> QED
    BY <1>0, <2>1, <2>2 DEF AllOpen
<1>8. CASE SayMyself
  <2>1. Keeping /\ Held(taken', Streams', command)
    BY <1>8, SayMyselfStep
  <2> QED
    BY <1>2, <1>8, <2>1 DEF SayMyself
<1>9. ASSUME NEW s \in Slaves, ConnectSlave(s) \/ SlaveUpdate(s)
      PROVE  Held(taken', Streams', c)
  <2>1. Keeping
    BY <1>9, ConnectStep, ClosedStep, AnswerDelayStep, TakeCommandStep, ReceiveStep
       DEF SlaveUpdate
  <2>2. command' = command /\ at' = at
    BY <1>9 DEF ConnectSlave, SlaveUpdate, FindClosed, AnswerDelay, TakeCommand, ReadRequests,
       master
  <2> QED
    BY <1>1, <2>1, <2>2
<1>10. ~\E s \in Slaves : RestartSlave(s)
  BY <1>0 DEF RestartSlave, QueueFault
<1>11. CASE UNCHANGED queueVars
  <2>1. UNCHANGED <<taken, command, at, packetBuf, mainSocket, conn>>
    BY <1>11 DEF queueVars
  <2>2. Streams' = Streams
    BY <2>1 DEF Streams
  <2> QED
    BY <1>1, <2>1, <2>2 DEF Keeping
<1> QED
  BY <1>3, <1>4, <1>5, <1>6, <1>7, <1>8, <1>9, <1>10, <1>11 DEF QueueNext, OnQueue, OwnQueue

\* What is in a slave's stream has been received or is on its way.
LEMMA HeldIsKept ==
  ASSUME QueueInv, AllHeld PROVE CommandsKept
<1> SUFFICES ASSUME queueFaults = 0, NEW c \in 1..command PROVE Underway(c) \/ IsSaid(c) \/ c \in discarded
  BY DEF CommandsKept
<1>0. QueueTypeOK /\ c \in Nat
  BY QueueAssumption DEF QueueInv, QueueTypeOK
<1>1. CASE ~DoneWith(c)
  BY <1>0, <1>1 DEF DoneWith, Underway
<1>2. ASSUME NEW p \in Programs, NEW i \in Nat, SaidAt(taken, p, i, c)
      PROVE  IsSaid(c) \/ c \in discarded
  <2>1. DOMAIN taken[p] = 1..Len(taken[p])
    BY <1>0, LenProperties DEF QueueTypeOK
  <2> QED
    BY <1>2, <2>1 DEF SaidAt, IsSaid
<1>3. ASSUME NEW s \in Slaves, NEW i \in Nat, BodyAt(Streams, s, i, c) PROVE Underway(c)
  <2> DEFINE x == packetBuf[s]
             w == conn[mainSocket[s]].requests
  <2>1. x \in Seq(Parts) /\ DOMAIN x = 1..Len(x) /\ Len(x) \in Nat
    BY <1>0, StreamTypes, LenProperties
  <2>2. CASE mainSocket[s] = NoConn
    <3>1. Streams[s] = x
      BY <1>0, <2>2, StreamTypes DEF StreamOf
    <3> QED
      BY <1>3, <2>1, <3>1 DEF BodyAt, Underway, Carried
  <2>3. CASE mainSocket[s] # NoConn
    <3>1. Streams[s] = x \o w /\ w \in Seq(Parts)
      BY <1>0, <2>3, StreamTypes DEF StreamOf
    <3>2. DOMAIN w = 1..Len(w) /\ Len(w) \in Nat
      BY <3>1, LenProperties
    <3> HIDE DEF x, w
    <3>3. /\ Len(x \o w) = Len(x) + Len(w)
          /\ \A j \in 1..Len(x) + Len(w) :
               (x \o w)[j] = IF j <= Len(x) THEN x[j] ELSE w[j - Len(x)]
      BY <2>1, <3>1, ConcatProperties
    <3>4. i \in 1..Len(x) + Len(w) /\ (x \o w)[i].what = "body" /\ (x \o w)[i].command = c
      BY <1>3, <3>1, <3>3 DEF BodyAt
    <3>5. CASE i <= Len(x)
      <4>1. i \in DOMAIN x /\ x[i] = (x \o w)[i]
        BY <2>1, <3>2, <3>3, <3>4, <3>5
      <4> QED
        BY <3>4, <4>1 DEF Underway, Carried, x
    <3>6. CASE ~(i <= Len(x))
      <4>1. i - Len(x) \in DOMAIN w /\ w[i - Len(x)] = (x \o w)[i]
        BY <2>1, <3>2, <3>3, <3>4, <3>6
      <4>2. Carried(w, c)
        BY <3>4, <4>1 DEF Carried
      <4> QED
        BY <2>3, <4>2 DEF Underway, w
    <3> QED
      BY <3>5, <3>6
  <2> QED
    BY <2>2, <2>3
<1>4. CASE DoneWith(c)
  BY <1>0, <1>2, <1>3, <1>4 DEF AllHeld, Held
<1> QED
  BY <1>1, <1>4

\* queue.py:127-149, 151-215, bnet.cpp:1374-1389: if no slave was restarted or late, a command
\* that was given is queued to be said, or discarded by a program that was not logged in or
\* had too much queued, or the master is busy with it, or it is between the master and a
\* slave that reads it: none is lost on the way, taken for what it is not, or sent where
\* nobody listens.
THEOREM NoCommandIsLost == QueueInit /\ [][QueueNext]_queueVars => []CommandsKept
<1>1. QueueInit => InRange /\ AllOpen /\ AllHeld
  <2> SUFFICES ASSUME QueueInit PROVE InRange /\ AllOpen /\ AllHeld
    OBVIOUS
  <2>1. /\ Len(conn) = 0 /\ command = 0 /\ queueFaults = 0 /\ latest = NoConn
        /\ best.conn = NoConn /\ connections = <<>> /\ todo = <<>> /\ kept = <<>>
    BY DEF QueueInit, NoBest
  <2>2. \A S : <<>> \in Seq(S)
    OBVIOUS
  <2>3. InRange
    BY <2>1, <2>2 DEF InRange, NoConn
  <2>4. AllOpen /\ AllHeld
    BY <2>1 DEF AllOpen, AllHeld, DoneWith
  <2> QED
    BY <2>3, <2>4
<1>2. QueueInv /\ QueueInv' /\ InRange /\ AllOpen /\ AllHeld /\ [QueueNext]_queueVars
        => InRange' /\ AllOpen' /\ AllHeld'
  <2> SUFFICES ASSUME QueueInv, QueueInv', InRange, AllOpen, AllHeld, [QueueNext]_queueVars
               PROVE  InRange' /\ AllOpen' /\ AllHeld'
    OBVIOUS
  <2>1. AllOpen'
    <3>1. CASE queueFaults' = 0
      BY <3>1, OpenStep
    <3>2. CASE queueFaults' # 0
      BY <3>2 DEF AllOpen
    <3> QED
      BY <3>1, <3>2
  <2> QED
    BY <2>1, RangeStep, AllHeldStep
<1> QED
  BY <1>1, <1>2, QueueInitInv, MasterAndSlaves, HeldIsKept, PTL

-----------------------------------------------------------------------------
(* AntiSpam.  As long as its size was not reduced below what it holds, the *)
(* cache holds the last lines that were said.                              *)

LEMMA LastOfProperties ==
  ASSUME NEW S, NEW s \in Seq(S), NEW n \in Nat
  PROVE  /\ LastOf(s, n) \in Seq(S)
         /\ Len(LastOf(s, n)) = IF Len(s) > n THEN n ELSE Len(s)
         /\ \A i \in 1..Len(LastOf(s, n)) : LastOf(s, n)[i] = s[Len(s) - Len(LastOf(s, n)) + i]
<1>0. Len(s) \in Nat
  BY LenProperties
<1> DEFINE m == IF Len(s) > n THEN Len(s) - n + 1 ELSE 1
<1>1. m \in Int /\ Len(s) \in Int /\ \A i \in m..Len(s) : s[i] \in S
  <2>1. m \in Int /\ m >= 1
    BY <1>0
  <2> HIDE DEF m
  <2>2. \A i \in m..Len(s) : i \in 1..Len(s)
    BY <1>0, <2>1
  <2> QED
    BY <1>0, <2>1, <2>2, ElementOfSeq
<1>2. LastOf(s, n) = SubSeq(s, m, Len(s))
  BY DEF LastOf
<1> HIDE DEF m
<1>3. /\ SubSeq(s, m, Len(s)) \in Seq(S)
      /\ Len(SubSeq(s, m, Len(s))) = IF m <= Len(s) THEN Len(s) - m + 1 ELSE 0
      /\ \A i \in 1..Len(s) - m + 1 : SubSeq(s, m, Len(s))[i] = s[m + i - 1]
  BY <1>1, SubSeqProperties
<1> DEFINE k == Len(s)
           t == SubSeq(s, m, Len(s))
<1>4. /\ k \in Nat /\ m = IF k > n THEN k - n + 1 ELSE 1
      /\ t \in Seq(S) /\ Len(t) = IF m <= k THEN k - m + 1 ELSE 0
      /\ \A i \in 1..k - m + 1 : t[i] = s[m + i - 1]
  BY <1>0, <1>3 DEF m
<1> HIDE DEF k, t
<1>5. Len(t) = (IF k > n THEN n ELSE k) /\ k - m + 1 = Len(t)
  BY <1>4
<1>6. ASSUME NEW i \in 1..Len(t) PROVE t[i] = s[k - Len(t) + i]
  <2>1. i \in 1..k - m + 1 /\ m + i - 1 = k - Len(t) + i
    BY <1>4, <1>5
  <2> QED
    BY <1>4, <2>1
<1> QED
  BY <1>2, <1>4, <1>5, <1>6 DEF k, t

\* The last lines after another one: the oldest makes room if there are enough.
LEMMA LastOfAppend ==
  ASSUME NEW S, NEW s \in Seq(S), NEW e \in S, NEW n \in Nat \ {0}
  PROVE  LastOf(Append(s, e), n) =
           Append(IF Len(LastOf(s, n)) = n THEN Tail(LastOf(s, n)) ELSE LastOf(s, n), e)
<1> DEFINE t == LastOf(s, n)
           a == Append(s, e)
           w == LastOf(a, n)
           cut == IF Len(t) = n THEN Tail(t) ELSE t
           b == Append(cut, e)
<1>1. /\ t \in Seq(S) /\ Len(s) \in Nat /\ Len(t) = IF Len(s) > n THEN n ELSE Len(s)
      /\ \A i \in 1..Len(t) : t[i] = s[Len(s) - Len(t) + i]
  BY LastOfProperties, LenProperties
<1>2. /\ a \in Seq(S) /\ Len(a) = Len(s) + 1
      /\ \A i \in 1..Len(s) : a[i] = s[i]
      /\ a[Len(s) + 1] = e
  BY AppendProperties
<1> HIDE DEF a, t
<1>3. /\ w \in Seq(S) /\ Len(w) = IF Len(a) > n THEN n ELSE Len(a)
      /\ \A i \in 1..Len(w) : w[i] = a[Len(a) - Len(w) + i]
  BY <1>2, LastOfProperties
<1>4. /\ cut \in Seq(S) /\ Len(cut) \in Nat
      /\ Len(s) >= n => Len(cut) = n - 1
      /\ ~(Len(s) >= n) => Len(cut) = Len(s)
      /\ \A i \in 1..Len(cut) : cut[i] = s[Len(s) - Len(cut) + i]
  <2>1. CASE Len(t) = n
    <3>1. Len(t) # 0
      BY <2>1
    <3>2. t # <<>>
      BY <3>1, EmptySeq
    <3>3. /\ Tail(t) \in Seq(S) /\ Len(Tail(t)) = Len(t) - 1
          /\ \A i \in 1..Len(Tail(t)) : Tail(t)[i] = t[i + 1]
      BY <1>1, <3>2, HeadTailProperties
    <3>4. cut = Tail(t)
      BY <2>1
    <3> HIDE DEF cut
    <3>5. Len(cut) = n - 1 /\ Len(s) >= n
      BY <1>1, <2>1, <3>3, <3>4
    <3>6. ASSUME NEW i \in 1..Len(cut) PROVE cut[i] = s[Len(s) - Len(cut) + i]
      <4>1. i + 1 \in 1..Len(t) /\ Len(s) - Len(t) + (i + 1) = Len(s) - Len(cut) + i
        BY <1>1, <2>1, <3>5
      <4>2. cut[i] = t[i + 1]
        BY <3>3, <3>4
      <4> QED
        BY <1>1, <4>1, <4>2
    <3>7. cut \in Seq(S) /\ Len(cut) \in Nat
      BY <3>3, <3>4, <3>5
    <3> QED
      BY <3>5, <3>6, <3>7
  <2>2. CASE Len(t) # n
    <3>1. cut = t
      BY <2>2
    <3>2. ~(Len(s) >= n) /\ Len(t) = Len(s)
      BY <1>1, <2>2
    <3> HIDE DEF cut
    <3> QED
      BY <1>1, <3>1, <3>2
  <2> QED
    BY <2>1, <2>2
<1> HIDE DEF cut
<1>5. /\ b \in Seq(S) /\ Len(b) = Len(cut) + 1
      /\ \A i \in 1..Len(cut) : b[i] = cut[i]
      /\ b[Len(cut) + 1] = e
  BY <1>4, AppendProperties
<1> HIDE DEF w, b
<1>6. Len(w) = Len(b)
  BY <1>1, <1>2, <1>3, <1>4, <1>5
<1>7. ASSUME NEW i \in 1..Len(w) PROVE w[i] = b[i]
  <2>1. CASE i = Len(w)
    <3>1. Len(a) - Len(w) + i = Len(s) + 1
      BY <1>1, <1>2, <1>3, <2>1
    <3>2. i = Len(cut) + 1
      BY <1>5, <1>6, <2>1
    <3> QED
      BY <1>2, <1>3, <1>5, <3>1, <3>2
  <2>2. CASE i # Len(w)
    <3>1. i \in 1..Len(cut)
      BY <1>4, <1>5, <1>6, <2>2
    <3>2. /\ Len(a) - Len(w) + i = Len(s) - Len(cut) + i
          /\ Len(s) - Len(cut) + i \in 1..Len(s)
      BY <1>1, <1>2, <1>4, <1>5, <1>6, <3>1
    <3>3. w[i] = s[Len(s) - Len(cut) + i]
      BY <1>2, <1>3, <3>2
    <3> QED
      BY <1>4, <1>5, <3>1, <3>3
  <2> QED
    BY <2>1, <2>2
<1>8. w = b
  BY <1>3, <1>5, <1>6, <1>7, SeqEqual
<1> QED
  BY <1>8 DEF w, a, b, cut, t

\* The last of the last lines are the last lines.
LEMMA LastOfLast ==
  ASSUME NEW S, NEW s \in Seq(S), NEW m \in Nat, NEW n \in Nat, n <= m
  PROVE  LastOf(LastOf(s, m), n) = LastOf(s, n)
<1> DEFINE t == LastOf(s, m)
           u == LastOf(t, n)
           w == LastOf(s, n)
<1>1. /\ t \in Seq(S) /\ Len(s) \in Nat /\ Len(t) = IF Len(s) > m THEN m ELSE Len(s)
      /\ \A i \in 1..Len(t) : t[i] = s[Len(s) - Len(t) + i]
  BY LastOfProperties, LenProperties
<1> HIDE DEF t
<1>2. /\ u \in Seq(S) /\ Len(u) = IF Len(t) > n THEN n ELSE Len(t)
      /\ \A i \in 1..Len(u) : u[i] = t[Len(t) - Len(u) + i]
  BY <1>1, LastOfProperties
<1>3. /\ w \in Seq(S) /\ Len(w) = IF Len(s) > n THEN n ELSE Len(s)
      /\ \A i \in 1..Len(w) : w[i] = s[Len(s) - Len(w) + i]
  BY LastOfProperties
<1> HIDE DEF u, w
<1>4. Len(u) = Len(w)
  BY <1>1, <1>2, <1>3
<1>5. ASSUME NEW i \in 1..Len(u) PROVE u[i] = w[i]
  <2> DEFINE ls == Len(s)
             lt == Len(t)
             lu == Len(u)
  <2>0. ls \in Nat /\ lt \in Nat /\ lu \in Nat /\ lu <= lt /\ i \in 1..lu /\ Len(w) = lu
    BY <1>1, <1>2, <1>4
  <2>1. lt - lu + i \in 1..lt /\ ls - lt + (lt - lu + i) = ls - Len(w) + i
    <3> HIDE DEF ls, lt, lu
    <3> QED
      BY <2>0
  <2>2. u[i] = s[Len(s) - Len(t) + (Len(t) - Len(u) + i)]
    BY <1>1, <1>2, <2>1
  <2> QED
    BY <1>3, <1>4, <2>1, <2>2
<1>6. u = w
  BY <1>2, <1>3, <1>4, <1>5, SeqEqual
<1> QED
  BY <1>6 DEF u, w, t

LEMMA LongestIsLongest == LongestCache \in CacheSizes /\ \A n \in CacheSizes : n <= LongestCache
BY ChatAssumption DEF LongestCache

SpokenLines == Speakers \X Texts

\* What AntiSpam compares a line with is what it is to be compared with.
CacheInv ==
  /\ spamCacheSize \in CacheSizes
  /\ heard \in Seq(SpokenLines)
  /\ ~shrunk => spamCache = LastOf(heard, spamCacheSize)
  /\ SpamIsRepetition

LEMMA CacheInitInv == ChatInit => CacheInv
<1> SUFFICES ASSUME ChatInit PROVE CacheInv
  OBVIOUS
<1>1. heard = <<>> /\ heard \in Seq(SpokenLines) /\ spamCacheSize \in CacheSizes /\ spamCacheSize \in Nat
  BY ChatAssumption DEF ChatInit
<1>2. Len(LastOf(heard, spamCacheSize)) = 0 /\ LastOf(heard, spamCacheSize) \in Seq(SpokenLines)
  <2>1. Len(heard) = 0 /\ ~(0 > spamCacheSize)
    BY <1>1
  <2> QED
    BY <1>1, <2>1, LastOfProperties
<1>3. LastOf(heard, spamCacheSize) = <<>>
  BY <1>2, EmptySeq
<1> QED
  BY <1>1, <1>3 DEF ChatInit, CacheInv, SpamIsRepetition, Nothing

LEMMA SayInv ==
  ASSUME CacheInv, NEW u \in Speakers, NEW t \in Texts, Say(u, t)
  PROVE  CacheInv'
<1> DEFINE line == <<u, t>>
           n == spamCacheSize
<1>1. /\ n \in Nat \ {0} /\ heard \in Seq(SpokenLines) /\ line \in SpokenLines /\ n' = n
      /\ LongestCache \in Nat /\ n <= LongestCache
      /\ n \in CacheSizes /\ shrunk' = shrunk /\ UNCHANGED settings
  BY ChatAssumption, LongestIsLongest DEF CacheInv, Say, SpokenLines
<1> HIDE DEF line, n
<1>2. Append(heard, line) \in Seq(SpokenLines)
  BY <1>1, AppendProperties
<1>3. LastOf(Append(heard, line), LongestCache) \in Seq(SpokenLines)
  BY <1>1, <1>2, LastOfProperties
<1>4. heard' = IF settings.antiSpam THEN LastOf(Append(heard, line), LongestCache) ELSE heard
  BY DEF Say, line
<1>5. spamCache' = IF settings.antiSpam THEN CacheWith(line) ELSE spamCache
  BY DEF Say, line
<1>6. ASSUME ~shrunk PROVE CacheWith(line) = LastOf(LastOf(Append(heard, line), LongestCache), n)
  <2>1. spamCache = LastOf(heard, n)
    BY <1>6 DEF CacheInv, n
  <2>2. CacheWith(line) = LastOf(Append(heard, line), n)
    BY <1>1, <2>1, LastOfAppend DEF CacheWith, n
  <2>3. LastOf(LastOf(Append(heard, line), LongestCache), n) = LastOf(Append(heard, line), n)
    BY <1>1, <1>2, LastOfLast
  <2> QED
    BY <2>2, <2>3
<1>7. ~shrunk => spamCache' = LastOf(heard', n)
  BY <1>4, <1>5, <1>6 DEF CacheInv, n
<1>8. ~shrunk => lastInput'.spam = lastInput'.repeated
  <2> SUFFICES ASSUME ~shrunk PROVE lastInput'.spam = lastInput'.repeated
    OBVIOUS
  <2>1. AccessOf[u] \in Nat
    BY ChatAssumption
  <2>2. /\ lastInput'.spam = (KickFor(u, t) = "spam")
        /\ lastInput'.repeated = (settings.antiSpam /\ AccessOf[u] = 0
                                  /\ Times(line, LastOf(heard', n)) > 1)
    BY DEF Say, Input, Nothing, line, n
  <2>3. (KickFor(u, t) = "spam") =
          (AccessOf[u] = 0 /\ settings.antiSpam /\ Times(line, CacheWith(line)) > 1)
    BY <2>1 DEF KickFor, line
  <2>4. settings.antiSpam => Times(line, CacheWith(line)) = Times(line, LastOf(heard', n))
    BY <1>4, <1>6
  <2> QED
    BY <2>2, <2>3, <2>4
<1> QED
  BY <1>1, <1>3, <1>4, <1>7, <1>8 DEF CacheInv, SpamIsRepetition, n

LEMMA SetSizeInv ==
  ASSUME CacheInv, NEW n \in CacheSizes, SetCacheSize(n)
  PROVE  CacheInv'
<1>1. /\ n \in Nat /\ spamCacheSize \in Nat /\ heard \in Seq(SpokenLines)
      /\ heard' = LastOf(heard, spamCacheSize) /\ spamCacheSize' = n /\ spamCache' = spamCache
  BY ChatAssumption DEF CacheInv, SetCacheSize
<1>2. heard' \in Seq(SpokenLines)
  BY <1>1, LastOfProperties
<1>3. ASSUME ~shrunk' PROVE spamCache' = LastOf(heard', n)
  <2>1. spamCache = heard' /\ ~(Len(spamCache) > n)
    BY <1>1, <1>3 DEF CacheInv, SetCacheSize
  <2>2. /\ LastOf(heard', n) \in Seq(SpokenLines) /\ Len(LastOf(heard', n)) = Len(heard')
        /\ \A i \in 1..Len(heard') :
             LastOf(heard', n)[i] = heard'[Len(heard') - Len(heard') + i]
    BY <1>1, <1>2, <2>1, LastOfProperties
  <2>3. \A i \in 1..Len(heard') : Len(heard') - Len(heard') + i = i
    BY <1>2, LenProperties
  <2>4. LastOf(heard', n) = heard'
    BY <1>2, <2>2, <2>3, SeqEqual
  <2> QED
    BY <1>1, <2>1, <2>4
<1>4. lastInput'.kind = "none"
  BY DEF SetCacheSize, Nothing
<1> QED
  BY <1>1, <1>2, <1>3, <1>4 DEF CacheInv, SpamIsRepetition

LEMMA CacheStep == CacheInv /\ [ChatNext]_chatVars => CacheInv'
<1> SUFFICES ASSUME CacheInv, [ChatNext]_chatVars PROVE CacheInv'
  OBVIOUS
<1> DEFINE Elsewhere == /\ UNCHANGED <<spamCacheSize, spamCache, shrunk, heard>>
                        /\ lastInput' = lastInput \/ lastInput'.kind # "line"
<1>1. CASE Elsewhere
  BY <1>1 DEF CacheInv, SpamIsRepetition
<1>2. CASE UNCHANGED chatVars
  BY <1>1, <1>2 DEF chatVars
<1>3. ASSUME NEW u \in Speakers, NEW c \in DOMAIN CommandAccess, NEW w \in BOOLEAN, Command(u, c, w)
      PROVE  CacheInv'
  BY <1>1, <1>3 DEF Command, Input, Nothing
<1>4. ASSUME NEW u \in Speakers, AskTrigger(u) PROVE CacheInv'
  BY <1>1, <1>4 DEF AskTrigger, Input, Nothing
<1>5. CASE SayAnswer \/ SendPacket
  BY <1>1, <1>5 DEF SayAnswer, SendPacket, Nothing
<1> QED
  BY <1>2, <1>3, <1>4, <1>5, SayInv, SetSizeInv DEF ChatNext

\* For any users, any sizes and any order of lines, commands and changes of the size, who
\* is kicked for spam has repeated a line, and who repeats one is (bnet.cpp:1256-1277).
THEOREM SpamIsRepeated == ChatInit /\ [][ChatNext]_chatVars => []SpamIsRepetition
<1>1. CacheInv => SpamIsRepetition
  BY DEF CacheInv
<1> QED
  BY <1>1, CacheInitInv, CacheStep, PTL
=============================================================================
