-------------------------- MODULE LiveUpdatesProofs --------------------------
(***************************************************************************)
(* For any number of clients, rows, edits, failures and drops: types, that *)
(* whoever has looked at the file as it is has its metadata, and that a    *)
(* lone subscriber of an orderly writer misses no row.                     *)
(***************************************************************************)
EXTENDS LiveUpdates, FiniteSetTheorems, WellFoundedInduction, TLAPS

\* A set of numbers that is not empty has a least one.
LEMMA Least ==
    ASSUME NEW S \in SUBSET Nat, S # {}
    PROVE  \E x \in S : \A y \in S : x <= y
  <1>1. PICK x \in S : \A y \in S : ~ (<<y, x>> \in OpToRel(<, Nat))
    BY NatLessThanWellFounded, WFMin
  <1>2. \A y \in S : ~(y < x)
    BY <1>1, Zenon DEF OpToRel
  <1> QED
    BY <1>2

\* What Max picks from a bounded set of naturals.
LEMMA MaxOfBounded ==
    ASSUME NEW n \in Nat, NEW S \in SUBSET (0..n), S # {}
    PROVE  Max(S) \in S /\ \A y \in S : y <= Max(S)
  <1> DEFINE T == {n - x : x \in S}
  <1>1. T \subseteq Nat
    OBVIOUS
  <1>2. T # {}
    <2>1. PICK x \in S : TRUE
      OBVIOUS
    <2> QED
      BY <2>1, n - x \in T
  <1>3. PICK t \in T : \A u \in T : t <= u
    BY <1>1, <1>2, Least
  <1>4. PICK x \in S : t = n - x
    BY <1>3
  <1>5. \A y \in S : x >= y
    <2> TAKE y \in S
    <2>1. t <= n - y
      BY <1>3
    <2> QED
      BY <2>1, <1>4
  <1>6. \E m \in S : \A y \in S : m >= y
    BY <1>4, <1>5
  <1>7. Max(S) \in S /\ \A y \in S : Max(S) >= y
    BY <1>6, Zenon DEF Max
  <1> QED
    BY <1>7

\* What a scene holds.
LEMMA LimitsAreNumbers ==
    ASSUME NEW s \in Scenes
    PROVE  /\ s.limits["rows"] \in Nat /\ s.limits["edits"] \in Nat
           /\ s.limits["drops"] \in Nat /\ s.clients \subseteq Clients /\ s.table \in BOOLEAN
  BY SceneConstants DEF Limits

\* The newest of some stamps is one of them, or 0 if there are none.
LEMMA NewestOfStamps ==
    ASSUME scene \in Scenes, NEW S \in SUBSET Stamps
    PROVE  /\ Newest(S) \in Nat /\ Newest(S) \in S \cup {0}
           /\ \A r \in S : r <= Newest(S)
  <1> DEFINE n == scene.limits["rows"]
  <1>1. n \in Nat
    BY LimitsAreNumbers
  <1>2. S \cup {0} \in SUBSET (0..n) /\ S \cup {0} # {}
    BY <1>1 DEF Stamps
  <1> HIDE DEF n
  <1>3. Max(S \cup {0}) \in S \cup {0} /\ \A y \in S \cup {0} : y <= Max(S \cup {0})
    BY <1>1, <1>2, MaxOfBounded
  <1> QED
    BY <1>2, <1>3, <1>1 DEF Newest
-----------------------------------------------------------------------------
(* Types *)

\* Stamps and versions of the tags are handed out by the limits' counters.
Counted ==
    /\ \A what \in Limits : used[what] <= scene.limits[what]
    /\ \A r \in rows \cup stamped : r <= used["rows"]
    /\ tags <= used["edits"]
Typed == TypeOK /\ Counted

\* A use counts one of the limits up and leaves the others.
LEMMA UseTyped ==
    ASSUME Typed, NEW what \in Limits, Use(what)
    PROVE  /\ used' \in [Limits -> Nat]
           /\ \A other \in Limits : used'[other] = IF other = what THEN used[what] + 1
                                                  ELSE used[other]
           /\ used[what] < scene.limits[what]
  BY SceneConstants DEF Typed, TypeOK, Counted, Use

\* Types and counts hold at first.
LEMMA TypedInit == Init => Typed
  <1> SUFFICES ASSUME Init PROVE Typed
    OBVIOUS
  <1> USE DEF Init
  <1>1. scene \in Scenes
    OBVIOUS
  <1>2. Cardinality({}) = 0
    BY FS_EmptySet
  <1>3. NoMeta \in Metas
    BY <1>1, LimitsAreNumbers DEF NoMeta, Metas, Unknown
  <1>4. \A what \in Limits : 0 <= scene.limits[what]
    BY <1>1, SceneConstants
  <1> QED
    BY <1>1, <1>2, <1>3, <1>4, LimitsAreNumbers DEF Typed, TypeOK, Counted, NoPoll, Unknown, Limits

\* A scene is chosen once.
LEMMA SceneStays == [Next]_vars => scene' = scene
  BY DEF Next, vars, Write, Poll, CreateTable, StampRow, CommitRow, EditTags, PollStat, NoTable,
         SeedMark, ReadRows, ReadTags, ReadRuns, FinishPoll, Finish, PollFails, ExpirePoll,
         ExpireMeta, Open, Subscribe, Tick, Deliver, Drop

\* What a finished poll leaves behind is a snapshot.
LEMMA FinishTyped ==
    ASSUME Typed, NEW snapshot \in Snapshots, Finish(snapshot), scene' = scene
    PROVE  /\ at' = "idle" /\ poll' \in [mtime : Nat, rows : SUBSET Stamps, meta : Metas]
           /\ cached' \subseteq Snapshots /\ Cardinality(cached') <= 1
           /\ pc' \in [Clients -> {"away", "opened", "sleep", "await", "deliver"}]
           /\ inbox' \in [Clients -> SUBSET Snapshots]
           /\ \A c \in Clients : (inbox'[c] # {}) <=> (pc'[c] = "deliver")
           /\ UNCHANGED <<since, lastMtime, lastMeta, received>>
  <1>1. NoMeta \in Metas /\ NoPoll \in [mtime : Nat, rows : SUBSET Stamps, meta : Metas]
    BY LimitsAreNumbers DEF NoMeta, NoPoll, Metas, Unknown, Typed, TypeOK
  <1>2. Cardinality({snapshot}) = 1
    BY FS_Singleton
  <1> QED
    BY <1>1, <1>2 DEF Finish, Typed, TypeOK

\* Every step keeps types and counts.
LEMMA TypedStep == Typed /\ [Next]_vars => Typed'
  <1> SUFFICES ASSUME Typed, [Next]_vars PROVE Typed'
    OBVIOUS
  <1>s. scene' = scene /\ Stamps' = Stamps /\ Metas' = Metas /\ Snapshots' = Snapshots
    BY SceneStays DEF Stamps, Metas, Snapshots
  <1>l. scene \in Scenes /\ scene.limits["rows"] \in Nat /\ scene.limits["edits"] \in Nat
    BY LimitsAreNumbers DEF Typed, TypeOK
  <1>k. {"rows", "edits", "failures", "drops"} = Limits
    BY DEF Limits
  <1>m. NoMeta \in Metas /\ NoPoll \in [mtime : Nat, rows : SUBSET Stamps, meta : Metas]
    BY <1>l DEF NoMeta, NoPoll, Metas, Unknown
  <1>r. Metadata \in Metas
    BY <1>l, <1>k DEF Metadata, Metas, Typed, TypeOK, Counted
  <1>e. Cardinality({}) = 0 /\ \A x : Cardinality({x}) = 1
    BY FS_EmptySet, FS_Singleton
  <1> USE DEF file, server, client
  <1>1. ASSUME CreateTable PROVE Typed'
    BY <1>1, <1>s DEF CreateTable, Typed, TypeOK, Counted
  <1>2. ASSUME StampRow PROVE Typed'
    <2>1. /\ used' \in [Limits -> Nat] /\ used["rows"] < scene.limits["rows"]
          /\ used'["rows"] = used["rows"] + 1 /\ used'["edits"] = used["edits"]
          /\ used["rows"] \in Nat
          /\ \A what \in Limits : used'[what] <= scene.limits[what]
      BY <1>2, <1>k, UseTyped, SceneConstants DEF StampRow, Typed, TypeOK, Counted
    <2> DEFINE new == used["rows"] + 1
    <2>4. new \in Stamps /\ new \notin rows
      BY <2>1, <1>l DEF Typed, TypeOK, Counted, Stamps
    <2>5. stamped' = stamped \cup {new} /\ rows' = rows
      BY <1>2 DEF StampRow
    <2> HIDE DEF new
    <2>2. stamped' \subseteq Stamps' \ rows'
      BY <2>4, <2>5, <1>s DEF Typed, TypeOK
    <2>3. Counted'
      BY <2>1, <1>2, <1>s, <1>l DEF StampRow, Typed, TypeOK, Counted, Stamps
    <2> QED
      BY <2>1, <2>2, <2>3, <1>2, <1>s DEF StampRow, Typed, TypeOK
  <1>3. ASSUME NEW r \in stamped, CommitRow(r) PROVE Typed'
    BY <1>3, <1>s DEF CommitRow, Typed, TypeOK, Counted
  <1>4. ASSUME EditTags PROVE Typed'
    <2>1. /\ used' \in [Limits -> Nat]
          /\ used'["edits"] = used["edits"] + 1 /\ used'["rows"] = used["rows"]
          /\ used["edits"] \in Nat /\ \A what \in Limits : used'[what] <= scene.limits[what]
      BY <1>4, <1>k, UseTyped, SceneConstants DEF EditTags, Typed, TypeOK, Counted
    <2> QED
      BY <2>1, <1>4, <1>s DEF EditTags, Typed, TypeOK, Counted
  <1>5. ASSUME PollStat PROVE Typed'
    BY <1>5, <1>s, <1>m DEF PollStat, Typed, TypeOK, Counted
  <1>6. ASSUME NoTable PROVE Typed'
    <2>1. Snapshot(FALSE, poll, 0) \in Snapshots
      BY DEF Snapshot, Snapshots, Typed, TypeOK
    <2> HIDE DEF client
    <2> QED
      BY <2>1, <1>6, <1>s, FinishTyped DEF NoTable, Typed, TypeOK, Counted
  <1>7. ASSUME SeedMark PROVE Typed'
    <2>1. Newest(rows) \in Nat
      BY NewestOfStamps DEF Typed, TypeOK
    <2> QED
      BY <2>1, <1>7, <1>s DEF SeedMark, Typed, TypeOK, Counted
  <1>8. ASSUME ReadRows PROVE Typed'
    <2>1. {r \in rows : r > mark} \subseteq Stamps
      BY DEF Typed, TypeOK
    <2> QED
      BY <2>1, <1>8, <1>s, <1>e DEF ReadRows, Typed, TypeOK, Counted
  <1>9. ASSUME ReadTags PROVE Typed'
    <2>1. poll' \in [mtime : Nat, rows : SUBSET Stamps, meta : Metas]
      <3>1. CASE metaCache = {}
        <4>1. [poll.meta EXCEPT !.tags = tags] \in Metas
          BY <1>l, <1>k DEF Metas, Typed, TypeOK, Counted
        <4> QED
          BY <4>1, <3>1, <1>9 DEF ReadTags, Typed, TypeOK
      <3>2. CASE metaCache # {}
        BY <3>2, <1>9 DEF ReadTags, Typed, TypeOK
      <3> QED
        BY <3>1, <3>2
    <2>2. at' \in {"info", "runs"}
      BY <1>9 DEF ReadTags
    <2> QED
      BY <2>1, <2>2, <1>9, <1>s DEF ReadTags, Typed, TypeOK, Counted
  <1>10. ASSUME ReadRuns PROVE Typed'
    <2>1. [poll.meta EXCEPT !.runs = rows] \in Metas
      BY DEF Metas, Typed, TypeOK
    <2>2. /\ poll' \in [mtime : Nat, rows : SUBSET Stamps, meta : Metas]
          /\ poll'.meta = [poll.meta EXCEPT !.runs = rows]
      BY <2>1, <1>10 DEF ReadRuns, Typed, TypeOK
    <2>3. Cardinality(metaCache') = 1 /\ metaCache' \subseteq Metas
      <3>1. metaCache' = {poll'.meta} /\ poll'.meta \in Metas
        BY <2>1, <2>2, <1>10 DEF ReadRuns
      <3> QED
        BY <3>1, <1>e, Zenon
    <2> QED
      BY <2>2, <2>3, <1>10, <1>s DEF ReadRuns, Typed, TypeOK, Counted
  <1>11. ASSUME FinishPoll PROVE Typed'
    <2>1. mark' \in Nat \cup {Unknown}
      BY <1>11, NewestOfStamps DEF FinishPoll, Typed, TypeOK
    <2>2. Snapshot(TRUE, poll, mark') \in Snapshots
      BY <2>1 DEF Snapshot, Snapshots, Typed, TypeOK
    <2> HIDE DEF client
    <2> QED
      BY <2>1, <2>2, <1>11, <1>s, FinishTyped DEF FinishPoll, Typed, TypeOK, Counted
  <1>12. ASSUME PollFails PROVE Typed'
    <2>1. /\ used' \in [Limits -> Nat]
          /\ used'["edits"] = used["edits"] /\ used'["rows"] = used["rows"]
          /\ \A what \in Limits : used'[what] <= scene.limits[what]
      BY <1>12, <1>k, UseTyped, SceneConstants DEF PollFails, Typed, TypeOK, Counted
    <2> QED
      BY <2>1, <1>12, <1>s, <1>m DEF PollFails, Typed, TypeOK, Counted
  <1>13. ASSUME ExpirePoll PROVE Typed'
    BY <1>13, <1>s, <1>e DEF ExpirePoll, Typed, TypeOK, Counted
  <1>14. ASSUME ExpireMeta PROVE Typed'
    BY <1>14, <1>s, <1>e DEF ExpireMeta, Typed, TypeOK, Counted
  <1>15. ASSUME NEW c \in Clients, Open(c) PROVE Typed'
    <2>1. PICK meta \in IF metaCache = {} THEN {Metadata} ELSE metaCache :
             since' = [since EXCEPT ![c] = Newest(meta.runs)] /\ metaCache' = {meta}
      BY <1>15 DEF Open
    <2>2. meta \in Metas
      BY <2>1, <1>r DEF Typed, TypeOK
    <2>3. Newest(meta.runs) \in Nat
      BY <2>2, NewestOfStamps DEF Metas, Typed, TypeOK
    <2>4. Cardinality(metaCache') = 1 /\ metaCache' \subseteq Metas
      BY <2>1, <2>2, <1>e, Zenon
    <2> QED
      BY <2>1, <2>3, <2>4, <1>15, <1>s DEF Open, Typed, TypeOK, Counted
  <1>16. ASSUME NEW c \in Clients, Subscribe(c) PROVE Typed'
    BY <1>16, <1>s DEF Subscribe, Typed, TypeOK, Counted
  <1>17. ASSUME NEW c \in Clients, Tick(c) PROVE Typed'
    BY <1>17, <1>s DEF Tick, Typed, TypeOK, Counted
  <1>18. ASSUME NEW c \in Clients, Deliver(c) PROVE Typed'
    <2>1. PICK snapshot \in inbox[c] :
            IF snapshot.found
            THEN /\ lastMtime' = [lastMtime EXCEPT ![c] = snapshot.mtime]
                 /\ lastMeta' = [lastMeta EXCEPT ![c] = snapshot.meta]
                 /\ received' = [received EXCEPT ![c] =
                                   @ \cup {r \in snapshot.rows : r > since[c]}]
            ELSE UNCHANGED <<lastMtime, lastMeta, received>>
      BY <1>18 DEF Deliver
    <2>2. snapshot \in Snapshots
      BY <2>1 DEF Typed, TypeOK
    <2>3. /\ lastMtime' \in [Clients -> Nat] /\ lastMeta' \in [Clients -> Metas]
          /\ received' \in [Clients -> SUBSET Stamps]
      BY <2>1, <2>2 DEF Snapshots, Typed, TypeOK
    <2> QED
      BY <2>3, <1>18, <1>s DEF Deliver, Typed, TypeOK, Counted
  <1>19. ASSUME NEW c \in Clients, Drop(c) PROVE Typed'
    <2>1. /\ used' \in [Limits -> Nat]
          /\ used'["edits"] = used["edits"] /\ used'["rows"] = used["rows"]
          /\ \A what \in Limits : used'[what] <= scene.limits[what]
      BY <1>19, <1>k, UseTyped, SceneConstants DEF Drop, Typed, TypeOK, Counted
    <2> QED
      BY <2>1, <1>19, <1>s, <1>m DEF Drop, Typed, TypeOK, Counted
  <1>20. CASE UNCHANGED vars
    BY <1>20 DEF vars, Typed, TypeOK, Counted, Stamps, Metas, Snapshots
  <1> QED
    BY <1>1, <1>2, <1>3, <1>4, <1>5, <1>6, <1>7, <1>8, <1>9, <1>10, <1>11, <1>12, <1>13, <1>14,
       <1>15, <1>16, <1>17, <1>18, <1>19, <1>20 DEF Next, Write, Poll

\* The types hold, whatever the scene.
THEOREM TypeCorrect == Spec => []TypeOK
  <1>1. Typed => TypeOK
    BY DEF Typed
  <1> QED
    BY <1>1, TypedInit, TypedStep, PTL DEF Spec
-----------------------------------------------------------------------------
(* The metadata *)

\* Nothing is dated later than the file, and what is dated as the file is shows it.
PollIsFresh ==
    /\ poll.mtime <= mtime
    /\ poll.mtime = mtime =>
         /\ at = "tags" => \A meta \in metaCache : meta = Metadata
         /\ at = "runs" => poll.meta.tags = tags
         /\ at = "info" => poll.meta = Metadata
IsFresh(s) == s.mtime <= mtime /\ (s.found /\ s.mtime = mtime => s.meta = Metadata)
ClientIsFresh(c) ==
    lastMtime[c] <= mtime /\ (mtime # 0 /\ lastMtime[c] = mtime => lastMeta[c] = Metadata)
Fresh ==
    /\ PollIsFresh
    /\ \A s \in cached : IsFresh(s)
    /\ \A c \in Clients : ClientIsFresh(c) /\ \A s \in inbox[c] : IsFresh(s)

\* A commit makes everything older than the file.
LEMMA WriteKeepsFresh ==
    ASSUME Typed, Fresh, mtime' = mtime + 1, UNCHANGED <<server, client>>
    PROVE  Fresh'
  BY DEF Typed, TypeOK, Fresh, PollIsFresh, IsFresh, ClientIsFresh, Snapshots, server, client

\* What a finished poll hands out is as fresh as the poll.
LEMMA FinishKeepsFresh ==
    ASSUME Typed, Fresh, NEW snapshot, IsFresh(snapshot), Finish(snapshot), UNCHANGED file
    PROVE  Fresh'
  <1>1. IsFresh(snapshot)' /\ \A s : IsFresh(s) => IsFresh(s)'
    BY DEF IsFresh, Metadata, file
  <1>2. PollIsFresh'
    BY DEF Finish, PollIsFresh, NoPoll, file, Typed, TypeOK
  <1>3. \A s \in cached' : IsFresh(s)'
    BY <1>1 DEF Finish
  <1>4. ASSUME NEW c \in Clients PROVE ClientIsFresh(c)' /\ \A s \in inbox'[c] : IsFresh(s)'
    <2>1. inbox'[c] = {snapshot} \/ inbox'[c] = inbox[c]
      BY DEF Finish
    <2> QED
      BY <2>1, <1>1 DEF Finish, Fresh, ClientIsFresh, Metadata, file
  <1> QED
    BY <1>2, <1>3, <1>4 DEF Fresh

\* Nothing is dated at first.
LEMMA FreshInit == Init => Fresh
  BY SceneConstants DEF Init, Fresh, PollIsFresh, IsFresh, ClientIsFresh, NoPoll

\* Every step keeps what is dated as the file is as the file is.
LEMMA FreshStep == Typed /\ Fresh /\ [Next]_vars => Fresh'
  <1> SUFFICES ASSUME Typed, Fresh, [Next]_vars PROVE Fresh'
    OBVIOUS
  <1> USE DEF file, server, client
  <1>t. TypeOK
    BY DEF Typed
  <1>k. (UNCHANGED <<mtime, rows, tags>>) => \A s : IsFresh(s) => IsFresh(s)'
    BY DEF IsFresh, Metadata
  <1>c. ASSUME UNCHANGED <<mtime, rows, tags, cached, inbox, lastMtime, lastMeta>>, PollIsFresh'
        PROVE  Fresh'
    BY <1>c, <1>k DEF Fresh, ClientIsFresh, Metadata
  <1>1. CASE CreateTable
    BY <1>1, WriteKeepsFresh DEF CreateTable
  <1>2. CASE StampRow
    BY <1>2, <1>c DEF StampRow, Fresh, PollIsFresh, Metadata
  <1>3. ASSUME NEW r \in stamped, CommitRow(r) PROVE Fresh'
    BY <1>3, WriteKeepsFresh DEF CommitRow
  <1>4. CASE EditTags
    BY <1>4, WriteKeepsFresh DEF EditTags
  <1>5. CASE PollStat
    BY <1>5, <1>c, <1>t DEF PollStat, Fresh, PollIsFresh, NoPoll, TypeOK
  <1>6. CASE NoTable
    <2>1. IsFresh(Snapshot(FALSE, poll, 0))
      BY DEF IsFresh, Snapshot, Fresh, PollIsFresh
    <2> HIDE DEF client, file
    <2> QED
      BY <2>1, <1>6, FinishKeepsFresh DEF NoTable
  <1>7. CASE SeedMark
    BY <1>7, <1>c DEF SeedMark, Fresh, PollIsFresh
  <1>8. CASE ReadRows
    BY <1>8, <1>c, <1>t DEF ReadRows, Fresh, PollIsFresh, TypeOK
  <1>9. CASE ReadTags
    BY <1>9, <1>c, <1>t DEF ReadTags, Fresh, PollIsFresh, TypeOK, Metas, Metadata
  <1>10. CASE ReadRuns
    <2>1. /\ poll'.mtime = poll.mtime /\ at' = "info"
          /\ poll'.meta = [tags |-> poll.meta.tags, runs |-> rows]
      BY <1>10, <1>t DEF ReadRuns, TypeOK, Metas
    <2> QED
      BY <2>1, <1>10, <1>c DEF ReadRuns, Fresh, PollIsFresh, Metadata
  <1>11. CASE FinishPoll
    <2>1. IsFresh(Snapshot(TRUE, poll, mark'))
      BY <1>11 DEF FinishPoll, IsFresh, Snapshot, Fresh, PollIsFresh
    <2> HIDE DEF client, file
    <2>2. Finish(Snapshot(TRUE, poll, mark')) /\ UNCHANGED file
      BY <1>11 DEF FinishPoll
    <2> DEFINE snapshot == Snapshot(TRUE, poll, mark')
    <2> HIDE DEF snapshot
    <2> QED
      BY <2>1, <2>2, FinishKeepsFresh DEF snapshot
  <1>12. CASE PollFails
    BY <1>12, <1>c, <1>t DEF PollFails, Fresh, PollIsFresh, NoPoll, TypeOK
  <1>13. CASE ExpirePoll
    BY <1>13, <1>k DEF ExpirePoll, Fresh, PollIsFresh, ClientIsFresh, Metadata
  <1>14. CASE ExpireMeta
    BY <1>14, <1>c DEF ExpireMeta, Fresh, PollIsFresh, Metadata
  <1>15. ASSUME NEW c \in Clients, Open(c) PROVE Fresh'
    BY <1>15, <1>c DEF Open, Fresh, PollIsFresh, Metadata
  <1>16. ASSUME NEW c \in Clients, Subscribe(c) PROVE Fresh'
    BY <1>16, <1>c DEF Subscribe, Fresh, PollIsFresh, Metadata
  <1>17. ASSUME NEW c \in Clients, Tick(c) PROVE Fresh'
    <2>1. PollIsFresh'
      BY <1>17 DEF Tick, Fresh, PollIsFresh, Metadata
    <2>2. \A d \in Clients : inbox'[d] \subseteq inbox[d] \cup cached
      BY <1>17, <1>t DEF Tick, TypeOK
    <2> QED
      BY <2>1, <2>2, <1>17, <1>k DEF Tick, Fresh, ClientIsFresh, Metadata
  <1>18. ASSUME NEW c \in Clients, Deliver(c) PROVE Fresh'
    <2>1. PollIsFresh'
      BY <1>18 DEF Deliver, Fresh, PollIsFresh, Metadata
    <2>2. \A d \in Clients : inbox'[d] \subseteq inbox[d]
      BY <1>18, <1>t DEF Deliver, TypeOK
    <2>3. PICK snapshot \in inbox[c] :
            IF snapshot.found
            THEN /\ lastMtime' = [lastMtime EXCEPT ![c] = snapshot.mtime]
                 /\ lastMeta' = [lastMeta EXCEPT ![c] = snapshot.meta]
            ELSE UNCHANGED <<lastMtime, lastMeta>>
      BY <1>18 DEF Deliver
    <2>4. ASSUME NEW d \in Clients PROVE ClientIsFresh(d)'
      <3>1. UNCHANGED <<mtime, rows, tags>> /\ IsFresh(snapshot) /\ ClientIsFresh(d)
        BY <2>3, <1>18 DEF Deliver, Fresh
      <3> QED
        BY <3>1, <2>3, <1>t DEF ClientIsFresh, IsFresh, Metadata, TypeOK
    <2> QED
      BY <2>1, <2>2, <2>4, <1>18, <1>k DEF Deliver, Fresh
  <1>19. ASSUME NEW c \in Clients, Drop(c) PROVE Fresh'
    <2>1. PollIsFresh'
      BY <1>19 DEF Drop, Fresh, PollIsFresh, Metadata
    <2>2. \A d \in Clients : inbox'[d] \subseteq inbox[d]
      BY <1>19, <1>t DEF Drop, TypeOK
    <2>3. \A d \in Clients : ClientIsFresh(d)'
      BY <1>19, <1>t DEF Drop, Fresh, ClientIsFresh, Metadata, TypeOK
    <2> QED
      BY <2>1, <2>2, <2>3, <1>19, <1>k DEF Drop, Fresh
  <1>20. CASE UNCHANGED vars
    BY <1>20, <1>k, <1>c DEF vars, Fresh, PollIsFresh, Metadata
  <1> QED
    BY <1>1, <1>2, <1>3, <1>4, <1>5, <1>6, <1>7, <1>8, <1>9, <1>10, <1>11, <1>12, <1>13, <1>14,
       <1>15, <1>16, <1>17, <1>18, <1>19, <1>20 DEF Next, Write, Poll

\* A subscriber that has looked at the file as it is was sent its metadata: with
\* any number of subscribers, whatever polls fail and sockets drop.
THEOREM MetadataStaysCurrent == Spec => []MetadataIsCurrent
  <1>1. Fresh => MetadataIsCurrent
    BY DEF Fresh, ClientIsFresh, MetadataIsCurrent, UpToDate
  <1>2. Init => Typed /\ Fresh
    BY TypedInit, FreshInit
  <1>3. Typed /\ Fresh /\ [Next]_vars => (Typed /\ Fresh)'
    BY TypedStep, FreshStep
  <1> QED
    BY <1>1, <1>2, <1>3, PTL DEF Spec
-----------------------------------------------------------------------------
(* A lone subscriber *)

\* Rows come in the order of their stamps, no other client ever opens, and there
\* is one snapshot at a time.
Orderly(c) ==
    /\ \A s, other \in cached : s = other
    /\ \A s, other \in inbox[c] : s = other
    /\ \A r \in rows, s \in stamped : r < s
    /\ \A d \in Clients \ {c} : pc[d] = "away"
    /\ at # "idle" => pc[c] = "await"
MarkIsARow ==
    /\ mark \in rows \cup {0, Unknown}
    /\ (mark = Unknown) <=> (seed = Unknown)
    /\ at \in {"rows", "tags", "runs", "info"} => mark # Unknown
\* The cursor is a row or 0, and what is below it was on the page.
CursorIsARow(c) ==
    /\ \A meta \in metaCache : meta.runs \subseteq rows
    /\ since[c] \in rows \cup {0}
    /\ \A r \in rows : r <= since[c] => r \in received[c]
\* The poll has a first part of the rows above the mark; all of them, unless the
\* file has changed since it began.
PollReadsUp ==
    /\ at \in {"idle", "stat", "table", "rows"} => poll.rows = {}
    /\ at \in {"tags", "runs", "info"} =>
         /\ \A r \in poll.rows : r \in rows /\ r > mark
         /\ \A r \in rows, p \in poll.rows : r <= p /\ r > mark => r \in poll.rows
         /\ poll.mtime = mtime => \A r \in rows : r > mark => r \in poll.rows
\* What the mark has passed was sent, or is about to be.
Passed(c) ==
    mark # Unknown =>
      \A r \in rows : seed < r /\ r <= mark => r \in received[c] \/ \E s \in inbox[c] : r \in s.rows
NoneAbove == mark # Unknown /\ \A r \in rows : r <= mark
ShowsAll(s) == (s.found /\ s.mtime = mtime => NoneAbove) /\ (~s.found => s.rows = {})
SeesAll(c) ==
    /\ \A s \in cached \cup inbox[c] : ShowsAll(s)
    /\ mtime # 0 /\ lastMtime[c] = mtime => NoneAbove
LoneParts(c) ==
    Orderly(c) /\ MarkIsARow /\ CursorIsARow(c) /\ PollReadsUp /\ Passed(c) /\ SeesAll(c)
Lone(c) == Alone(c) => LoneParts(c)

\* A lone subscriber starts with nothing missed.
LEMMA LoneInit ==
    ASSUME Init, NEW c \in Clients
    PROVE  Lone(c)
  BY SceneConstants DEF Init, Lone, LoneParts, Orderly, MarkIsARow, CursorIsARow, PollReadsUp, Passed,
     SeesAll, ShowsAll, NoPoll

\* A finished poll hands a lone subscriber what it read up to the new mark.
LEMMA LoneFinish ==
    ASSUME Typed, Fresh, NEW c \in Clients, LoneParts(c), at # "idle",
           NEW s \in Snapshots, Finish(s), UNCHANGED <<scene, file, seed, metaCache>>,
           s.mtime = poll.mtime,
           \/ s.found /\ at = "info" /\ s.rows = poll.rows
              /\ mark' = IF poll.rows = {} THEN mark ELSE Newest(poll.rows)
           \/ ~s.found /\ s.rows = {} /\ mark' = mark
    PROVE  LoneParts(c)'
  <1>t. TypeOK /\ rows \subseteq Nat /\ 0 \notin rows /\ poll.rows \subseteq Stamps
    BY LimitsAreNumbers DEF Typed, TypeOK, Stamps
  <1>f. /\ at' = "idle" /\ poll' = NoPoll /\ cached' = {s} /\ pc[c] = "await"
        /\ inbox[c] = {} /\ inbox'[c] = {s} /\ UNCHANGED <<since, lastMtime, received>>
        /\ UNCHANGED <<mtime, rows, stamped, seed, metaCache>>
    BY <1>t DEF Finish, LoneParts, Orderly, file, TypeOK
  <1>i. mark \in Int /\ Unknown = -1 /\ (mark # Unknown => mark \in Nat)
        /\ mark \in rows \cup {0, Unknown} /\ (at = "info" => mark # Unknown)
    <2>1. mark \in rows \cup {0, Unknown} /\ (at = "info" => mark # Unknown)
      BY DEF LoneParts, MarkIsARow
    <2>2. rows \subseteq Nat
      BY <1>t
    <2> QED
      BY <2>1, <2>2 DEF Unknown
  <1>p. at = "info" =>
          /\ \A r \in poll.rows : r \in rows /\ r > mark
          /\ \A r \in rows, p \in poll.rows : r <= p /\ r > mark => r \in poll.rows
          /\ poll.mtime = mtime => \A r \in rows : r > mark => r \in poll.rows
    BY DEF LoneParts, PollReadsUp
  <1>m. /\ mark' \in rows \cup {0, Unknown}
        /\ mark # Unknown => mark' # Unknown /\ mark <= mark'
        /\ mark = Unknown => mark' = Unknown
        /\ \A r \in rows : mark < r /\ r <= mark' => s.found /\ r \in s.rows
        /\ s.found /\ mtime = s.mtime => mark' # Unknown /\ \A r \in rows : r <= mark'
    <2>1. CASE poll.rows = {} \/ ~s.found
      <3>1. mark' = mark
        BY <2>1
      <3>2. ASSUME s.found, mtime = s.mtime, NEW r \in rows PROVE mark # Unknown /\ r <= mark
        BY <3>2, <2>1, <1>i, <1>p, <1>t
      <3>3. \A r \in rows : ~(mark < r /\ r <= mark)
        BY <1>i, <1>t
      <3>4. s.found => mark # Unknown
        BY <1>i
      <3> QED
        BY <3>1, <3>2, <3>3, <3>4, <1>i
    <2>2. CASE poll.rows # {} /\ s.found
      <3>1. /\ mark' = Newest(poll.rows) /\ mark' \in poll.rows \cup {0}
            /\ \A r \in poll.rows : r <= mark'
        BY <2>2, <1>t, NewestOfStamps DEF TypeOK
      <3>2. mark' \in poll.rows
        BY <3>1, <2>2, <1>t DEF Stamps
      <3>3. at = "info" /\ s.rows = poll.rows /\ mark # Unknown
        BY <2>2 DEF LoneParts, MarkIsARow
      <3>4. mark' \in rows /\ mark' > mark /\ mark \in Nat /\ mark' \in Nat
        BY <3>2, <3>3, <1>t, <1>i, <1>p
      <3>5. ASSUME NEW r \in rows, mark < r, r <= mark' PROVE r \in s.rows
        BY <3>5, <3>2, <3>3 DEF LoneParts, PollReadsUp
      <3>6. ASSUME mtime = s.mtime, NEW r \in rows PROVE r <= mark'
        <4>1. r > mark => r \in poll.rows
          BY <3>6, <3>3 DEF LoneParts, PollReadsUp
        <4>2. r \in Nat
          BY <1>t
        <4> QED
          BY <4>1, <4>2, <3>1, <3>4
      <3> QED
        BY <3>4, <3>5, <3>6, <2>2, <1>t, <3>3 DEF Unknown
    <2> QED
      BY <2>1, <2>2
  <1>1. Orderly(c)'
    BY <1>f, <1>t DEF Finish, LoneParts, Orderly, TypeOK
  <1>2. MarkIsARow'
    BY <1>f, <1>m DEF LoneParts, MarkIsARow
  <1>3. CursorIsARow(c)'
    BY <1>f DEF LoneParts, CursorIsARow
  <1>4. PollReadsUp'
    BY <1>f DEF PollReadsUp, NoPoll
  <1>5. Passed(c)'
    <2>1. SUFFICES ASSUME mark' # Unknown, NEW r \in rows, seed < r, r <= mark'
                   PROVE  r \in received[c] \/ r \in s.rows
      BY <1>f DEF Passed
    <2>2. mark # Unknown /\ mark \in Nat /\ r \in Nat
      BY <2>1, <1>m, <1>t DEF LoneParts, MarkIsARow
    <2>3. CASE r <= mark
      BY <2>3, <2>2, <1>f, <2>1 DEF LoneParts, Passed
    <2>4. CASE mark < r
      BY <2>4, <2>1, <1>m
    <2> QED
      BY <2>2, <2>3, <2>4
  <1>6. SeesAll(c)'
    <2>1. \A r \in rows : mark # Unknown /\ r <= mark => r <= mark'
      BY <1>m, <1>t DEF LoneParts, MarkIsARow, Unknown
    <2>2. NoneAbove => NoneAbove'
      BY <2>1, <1>f, <1>m DEF NoneAbove
    <2>3. ShowsAll(s)'
      BY <1>m, <1>f DEF ShowsAll, NoneAbove
    <2> QED
      BY <2>2, <2>3, <1>f DEF LoneParts, SeesAll
  <1> QED
    BY <1>1, <1>2, <1>3, <1>4, <1>5, <1>6 DEF LoneParts

\* Every step keeps a lone subscriber complete.
LEMMA LoneStep ==
    ASSUME Typed, Fresh, [Next]_vars, NEW c \in Clients, Lone(c)
    PROVE  Lone(c)'
  <1> SUFFICES ASSUME Alone(c), LoneParts(c) PROVE LoneParts(c)'
    BY SceneStays DEF Alone, Lone
  <1>t. TypeOK /\ rows \subseteq Nat /\ 0 \notin rows /\ stamped \subseteq Nat
    BY LimitsAreNumbers DEF Typed, TypeOK, Stamps
  <1>a. scene.clients = {c} /\ scene.ordered /\ scene.limits["drops"] = 0
    BY DEF Alone
  <1> USE DEF file, server, client, LoneParts
  <1>w. ASSUME mtime' = mtime + 1, UNCHANGED <<server, client>>, rows \subseteq rows',
               \A r \in rows', s \in stamped' : r < s,
               \A r \in rows', q \in rows : r \in rows \/ q < r,
               \A r \in rows' : r \in rows \/ r > 0, rows' \subseteq Nat
        PROVE  LoneParts(c)'
    <2>1. Orderly(c)' /\ MarkIsARow'
      BY <1>w DEF Orderly, MarkIsARow
    <2>2. CursorIsARow(c)'
      <3>1. since' = since /\ received' = received /\ metaCache' = metaCache
        BY <1>w
      <3>2. \A r \in rows' : r \in rows \/ since[c] < r
        BY <1>w, <1>t DEF CursorIsARow
      <3>3. since[c] \in Nat
        BY <1>t DEF TypeOK
      <3>4. \A r \in rows' : r <= since[c] => r \in received[c]
        <4> TAKE r \in rows'
        <4>1. r \in Nat /\ (r \in rows \/ since[c] < r)
          BY <3>2, <1>w
        <4> QED
          BY <4>1, <3>3 DEF CursorIsARow
      <3>5. since[c] \in rows' \cup {0} /\ \A meta \in metaCache : meta.runs \subseteq rows'
        BY <1>w DEF CursorIsARow
      <3> QED
        BY <3>1, <3>4, <3>5 DEF CursorIsARow
    <2>3. PollReadsUp'
      <3>1. poll.mtime <= mtime /\ poll.mtime \in Nat /\ mtime \in Nat
        BY <1>t DEF Fresh, PollIsFresh, TypeOK
      <3>2. at' = at /\ poll' = poll /\ mark' = mark
        BY <1>w
      <3>3. poll'.mtime # mtime'
        BY <3>1, <3>2, <1>w
      <3>4. ASSUME at \in {"tags", "runs", "info"}, NEW r \in rows', NEW p \in poll.rows,
                   r <= p, r > mark
            PROVE  r \in poll.rows
        <4>1. p \in rows
          BY <3>4 DEF PollReadsUp
        <4>2. r \in rows
          BY <4>1, <3>4, <1>w, <1>t
        <4> QED
          BY <4>2, <3>4 DEF PollReadsUp
      <3> QED
        BY <3>2, <3>3, <3>4, <1>w DEF PollReadsUp
    <2>4. Passed(c)'
      BY <1>w, <1>t DEF Passed, MarkIsARow
    <2>5. SeesAll(c)'
      <3>1. mtime \in Nat /\ lastMtime[c] <= mtime /\ lastMtime[c] \in Nat
        BY <1>t DEF Fresh, ClientIsFresh, TypeOK
      <3>2. \A s \in cached \cup inbox[c] : s.mtime <= mtime /\ s.mtime \in Nat
        BY <1>t DEF Fresh, IsFresh, TypeOK, Snapshots
      <3> QED
        BY <3>1, <3>2, <1>w DEF SeesAll, ShowsAll
    <2> QED
      BY <2>1, <2>2, <2>3, <2>4, <2>5
  <1>1. CASE CreateTable
    BY <1>1, <1>w, <1>t DEF CreateTable, Orderly
  <1>2. CASE StampRow
    <2>1. \A r \in rows : r < used["rows"] + 1
      BY <1>t DEF Typed, Counted, TypeOK, Limits
    <2> QED
      BY <1>2, <2>1 DEF StampRow, Orderly, MarkIsARow, CursorIsARow, PollReadsUp, Passed, SeesAll,
         ShowsAll, NoneAbove
  <1>3. ASSUME NEW r \in stamped, CommitRow(r) PROVE LoneParts(c)'
    <2>1. rows' = rows \cup {r} /\ stamped' = stamped \ {r} /\ \A s \in stamped : r <= s
      BY <1>3, <1>a DEF CommitRow
    <2>2. \A q \in rows : q < r
      BY DEF Orderly
    <2>3. r > 0 /\ r \in Nat
      BY LimitsAreNumbers DEF Typed, TypeOK, Stamps
    <2>4. \A q \in rows', s \in stamped' : q < s
      <3> TAKE q \in rows', s \in stamped'
      <3>1. s \in stamped /\ s # r /\ s \in Nat /\ q \in rows \cup {r} /\ r <= s
        BY <2>1, <1>t
      <3>2. CASE q = r
        BY <3>1, <3>2, <2>3
      <3>3. CASE q \in rows
        BY <3>1, <3>3 DEF Orderly
      <3> QED
        BY <3>1, <3>2, <3>3
    <2> QED
      BY <2>1, <2>2, <2>3, <2>4, <1>t, <1>3, <1>w DEF CommitRow
  <1>4. CASE EditTags
    BY <1>4, <1>w, <1>t DEF EditTags, Orderly
  <1>5. CASE PollStat
    BY <1>5 DEF PollStat, Orderly, MarkIsARow, CursorIsARow, PollReadsUp, Passed, SeesAll, ShowsAll,
       NoneAbove, NoPoll
  <1>6. CASE NoTable
    <2>1. /\ Snapshot(FALSE, poll, 0) \in Snapshots /\ poll.rows = {}
          /\ Snapshot(FALSE, poll, 0).found = FALSE /\ Snapshot(FALSE, poll, 0).rows = poll.rows
          /\ Snapshot(FALSE, poll, 0).mtime = poll.mtime
      BY <1>6, <1>t DEF NoTable, Snapshot, Snapshots, TypeOK, PollReadsUp
    <2>2. Finish(Snapshot(FALSE, poll, 0)) /\ mark' = mark /\ at # "idle"
          /\ UNCHANGED <<scene, file, seed, metaCache>>
      BY <1>6 DEF NoTable
    <2> DEFINE s == Snapshot(FALSE, poll, 0)
    <2> HIDE DEF s, LoneParts
    <2> QED
      BY <2>1, <2>2, LoneFinish DEF s
  <1>7. CASE SeedMark
    <2>1. Newest(rows) \in rows \cup {0} /\ Newest(rows) \in Nat
      BY <1>t, NewestOfStamps DEF TypeOK
    <2>2. CASE mark = Unknown
      <3>1. mark' = Newest(rows) /\ seed' = Newest(rows) /\ at' = "rows" /\ at = "table"
            /\ UNCHANGED <<file, poll, cached, metaCache, client>>
        BY <2>2, <1>7 DEF SeedMark
      <3>2. Orderly(c)' /\ CursorIsARow(c)' /\ PollReadsUp'
        BY <3>1 DEF Orderly, CursorIsARow, PollReadsUp
      <3>3. MarkIsARow'
        BY <3>1, <2>1 DEF MarkIsARow, Unknown
      <3>4. Passed(c)'
        BY <3>1, <2>1, <1>t DEF Passed
      <3>5. SeesAll(c)'
        <4>1. ~NoneAbove
          BY <2>2 DEF NoneAbove
        <4> QED
          BY <4>1, <3>1 DEF SeesAll, ShowsAll
      <3> QED
        BY <3>2, <3>3, <3>4, <3>5
    <2>3. CASE mark # Unknown
      BY <2>1, <2>3, <1>7, <1>t DEF SeedMark, Orderly, MarkIsARow, CursorIsARow, PollReadsUp, Passed,
         SeesAll, ShowsAll, NoneAbove, Unknown
    <2> QED
      BY <2>2, <2>3
  <1>8. CASE ReadRows
    <2>1. poll' = [poll EXCEPT !.rows = {r \in rows : r > mark}]
      BY <1>8 DEF ReadRows
    <2>2. poll'.rows = {r \in rows : r > mark} /\ poll'.mtime = poll.mtime
      BY <2>1, <1>t DEF TypeOK
    <2> QED
      BY <2>2, <1>8 DEF ReadRows, Orderly, MarkIsARow, CursorIsARow, PollReadsUp, Passed, SeesAll, ShowsAll,
         NoneAbove
  <1>9. CASE ReadTags
    <2>1. poll'.rows = poll.rows /\ poll'.mtime = poll.mtime /\ at' \in {"runs", "info"}
      BY <1>9, <1>t DEF ReadTags, TypeOK
    <2> QED
      BY <2>1, <1>9 DEF ReadTags, Orderly, MarkIsARow, CursorIsARow, PollReadsUp, Passed, SeesAll, ShowsAll,
         NoneAbove
  <1>10. CASE ReadRuns
    <2>1. poll'.rows = poll.rows /\ poll'.mtime = poll.mtime /\ poll'.meta.runs = rows
      BY <1>10, <1>t DEF ReadRuns, TypeOK, Metas
    <2> QED
      BY <2>1, <1>10 DEF ReadRuns, Orderly, MarkIsARow, CursorIsARow, PollReadsUp, Passed, SeesAll, ShowsAll,
         NoneAbove
  <1>11. CASE FinishPoll
    <2>0. mark' \in Nat \cup {Unknown}
      BY <1>11, <1>t, NewestOfStamps DEF FinishPoll, TypeOK
    <2>1. /\ Snapshot(TRUE, poll, mark') \in Snapshots
          /\ Snapshot(TRUE, poll, mark').found = TRUE
          /\ Snapshot(TRUE, poll, mark').rows = poll.rows
          /\ Snapshot(TRUE, poll, mark').mtime = poll.mtime
      BY <2>0, <1>t DEF Snapshot, Snapshots, TypeOK
    <2>2. /\ Finish(Snapshot(TRUE, poll, mark')) /\ at = "info"
          /\ mark' = IF poll.rows = {} THEN mark ELSE Newest(poll.rows)
          /\ UNCHANGED <<scene, file, seed, metaCache>>
      BY <1>11 DEF FinishPoll
    <2> DEFINE s == Snapshot(TRUE, poll, mark')
    <2> HIDE DEF s, LoneParts
    <2> QED
      BY <2>1, <2>2, LoneFinish DEF s
  <1>12. CASE PollFails
    BY <1>12, <1>t DEF PollFails, Orderly, MarkIsARow, CursorIsARow, PollReadsUp, Passed, SeesAll, ShowsAll,
       NoneAbove, NoPoll, TypeOK
  <1>13. CASE ExpirePoll
    BY <1>13 DEF ExpirePoll, Orderly, MarkIsARow, CursorIsARow, PollReadsUp, Passed, SeesAll, ShowsAll,
       NoneAbove
  <1>14. CASE ExpireMeta
    BY <1>14 DEF ExpireMeta, Orderly, MarkIsARow, CursorIsARow, PollReadsUp, Passed, SeesAll, ShowsAll,
       NoneAbove
  <1>15. ASSUME NEW d \in Clients, Open(d) PROVE LoneParts(c)'
    <2>1. d = c
      BY <1>15, <1>a DEF Open
    <2>2. PICK meta \in IF metaCache = {} THEN {Metadata} ELSE metaCache :
             since' = [since EXCEPT ![c] = Newest(meta.runs)] /\ metaCache' = {meta}
      BY <1>15, <2>1 DEF Open
    <2>3. meta.runs \subseteq rows
      BY <2>2 DEF CursorIsARow, Metadata
    <2>4. Newest(meta.runs) \in rows \cup {0}
      <3>1. Newest(meta.runs) \in meta.runs \cup {0}
        BY <2>3, <1>t, NewestOfStamps DEF TypeOK
      <3> QED
        BY <3>1, <2>3
    <2>5. since'[c] = Newest(meta.runs) /\ received'[c] = rows /\ pc[c] = "away" /\ pc'[c] = "opened"
      BY <2>1, <2>2, <1>15, <1>t DEF Open, TypeOK
    <2> QED
      BY <2>1, <2>2, <2>3, <2>4, <2>5, <1>15, <1>t DEF Open, Orderly, MarkIsARow, CursorIsARow,
         PollReadsUp, Passed, SeesAll, ShowsAll, NoneAbove, TypeOK
  <1>16. ASSUME NEW d \in Clients, Subscribe(d) PROVE LoneParts(c)'
    BY <1>16, <1>t DEF Subscribe, Orderly, MarkIsARow, CursorIsARow, PollReadsUp, Passed, SeesAll, ShowsAll,
       NoneAbove, TypeOK
  <1>17. ASSUME NEW d \in Clients, Tick(d) PROVE LoneParts(c)'
    <2>1. d = c /\ pc[c] = "sleep" /\ inbox[c] = {} /\ at = "idle"
      BY <1>17, <1>t DEF Tick, Orderly, TypeOK
    <2>2. inbox'[c] = {} \/ inbox'[c] = cached
      BY <2>1, <1>17, <1>t DEF Tick, TypeOK
    <2>3. Orderly(c)'
      BY <2>1, <1>17, <1>t DEF Tick, Orderly, TypeOK
    <2>4. at' \in {"idle", "stat"} /\ (at' = "stat" => poll'.rows = {})
      BY <2>1, <1>17 DEF Tick, PollReadsUp
    <2> QED
      BY <2>1, <2>2, <2>3, <2>4, <1>17, <1>t DEF Tick, MarkIsARow, CursorIsARow, PollReadsUp, Passed,
         SeesAll, ShowsAll, NoneAbove
  <1>18. ASSUME NEW d \in Clients, Deliver(d) PROVE LoneParts(c)'
    <2>1. d = c /\ pc[c] = "deliver"
      BY <1>18 DEF Deliver, Orderly
    <2>2. PICK s \in inbox[c] :
            IF s.found
            THEN /\ lastMtime' = [lastMtime EXCEPT ![c] = s.mtime]
                 /\ received' = [received EXCEPT ![c] = @ \cup {r \in s.rows : r > since[c]}]
            ELSE UNCHANGED <<lastMtime, lastMeta, received>>
      BY <1>18, <2>1 DEF Deliver
    <2>3. /\ inbox'[c] = {} /\ ShowsAll(s)
          /\ UNCHANGED <<cached, mtime, rows, stamped, mark, seed, at, poll, metaCache, since>>
      BY <2>1, <2>2, <1>18, <1>t DEF Deliver, SeesAll, TypeOK
    <2>4. s.found => received'[c] = received[c] \cup {r \in s.rows : r > since[c]}
      BY <2>2, <1>t DEF TypeOK
    <2>5. \A r \in rows : r \in received[c] \/ r \in s.rows => r \in received'[c]
      <3>1. since[c] \in Nat
        BY <1>t DEF TypeOK
      <3>2. CASE s.found
        BY <3>1, <3>2, <2>4, <1>t DEF CursorIsARow
      <3>3. CASE ~s.found
        BY <3>3, <2>2, <2>3 DEF ShowsAll
      <3> QED
        BY <3>2, <3>3
    <2>6. \A x \in inbox[c] : x = s
      BY DEF Orderly
    <2>7. Orderly(c)'
      BY <2>1, <2>3, <1>18, <1>t DEF Deliver, Orderly, TypeOK
    <2>8. CursorIsARow(c)' /\ MarkIsARow' /\ PollReadsUp'
      BY <2>3, <2>5 DEF CursorIsARow, MarkIsARow, PollReadsUp
    <2>9. Passed(c)'
      BY <2>3, <2>5, <2>6 DEF Passed
    <2>10. SeesAll(c)'
      <3>1. lastMtime'[c] = lastMtime[c] \/ (s.found /\ lastMtime'[c] = s.mtime)
        BY <2>2, <1>t DEF TypeOK
      <3> QED
        BY <3>1, <2>3 DEF SeesAll, ShowsAll, NoneAbove
    <2> QED
      BY <2>7, <2>8, <2>9, <2>10
  <1>19. ASSUME NEW d \in Clients, Drop(d) PROVE LoneParts(c)'
    BY <1>19, <1>a, <1>t DEF Drop, Use, TypeOK, Limits
  <1>20. CASE UNCHANGED vars
    BY <1>20 DEF vars, Orderly, MarkIsARow, CursorIsARow, PollReadsUp, Passed, SeesAll, ShowsAll, NoneAbove
  <1> QED
    BY <1>1, <1>2, <1>3, <1>4, <1>5, <1>6, <1>7, <1>8, <1>9, <1>10, <1>11, <1>12, <1>13, <1>14,
       <1>15, <1>16, <1>17, <1>18, <1>19, <1>20 DEF Next, Write, Poll

\* A subscriber alone, of a writer that commits in the order of its stamps, is
\* sent every row newer than the poll it began with, whatever polls fail.
THEOREM AloneStaysComplete == Spec => []AloneGetsAll
  <1> DEFINE All == \A c \in Clients : Lone(c)
  <1>1. Typed /\ All => AloneGetsAll
    BY DEF Typed, TypeOK, Lone, LoneParts, Passed, SeesAll, NoneAbove, AloneGetsAll, UpToDate
  <1>2. Init => Typed /\ Fresh /\ All
    BY TypedInit, FreshInit, LoneInit
  <1>3. Typed /\ Fresh /\ All /\ [Next]_vars => (Typed /\ Fresh /\ All)'
    BY TypedStep, FreshStep, LoneStep
  <1> QED
    BY <1>1, <1>2, <1>3, PTL DEF Spec
=============================================================================
