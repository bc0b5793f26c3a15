--------------------- MODULE ShotContainerProofs ---------------------
(***************************************************************************)
(* Proofs about ShotContainer.                                             *)
(*                                                                         *)
(* Its plan: reading the event table by slices loses and shifts nothing    *)
(* (SlicesJoin), and what an acquisition holds does not depend on the      *)
(* order its events came in (PlanIsOrderFree); both are inductive once it  *)
(* is said what a planned acquisition is made of (Shapes) and that only    *)
(* rows that were read are taken (Read).                                   *)
(*                                                                         *)
(* Its recordings: the frames of a stack stay in their places              *)
(* (FramesInPlace), from what a stack holds of the frames so far           *)
(* (Streaming) and the plan being settled before anything is written.      *)
(*                                                                         *)
(* Its mapping rows: they only add (MappingOnlyAdds), and each stands in   *)
(* the container or is said (RowsAccounted).  A container is Sound when    *)
(* every path names an object by a path of its own; packs keep it so       *)
(* because the only second names they give are those of their plots        *)
(* (Writable), rows because they write at free paths alone (Follows).      *)
(*                                                                         *)
(* Its claims: an application definition stands for one instrument         *)
(* (DefinitionsStandAlone).  Packs claim none (Unclaimed, in Writable),    *)
(* rows none but that of the subentry they fill, wherever they are placed, *)
(* and what is claimed is what the mappings of the detectors kept claim    *)
(* (ClaimsFit).                                                            *)
(*                                                                         *)
(* Its account of detectors (DetectorsAccounted): while packs write, the   *)
(* detectors in the container are those kept and the one being streamed,   *)
(* and every machine is one of theirs (Laid, Roofed); each acquisition is  *)
(* tried once, in order (Tried, InOrder), and a name with a tail is taken  *)
(* only after the plain one (PlainFirst).  That some tail is free is a     *)
(* pigeonhole: there are more tails than acquisitions, and no more         *)
(* detectors than acquisitions tried (RoomLeft, NewPath).                  *)
(***************************************************************************)
EXTENDS ShotContainer, TLAPS, SequenceTheorems, FiniteSetTheorems, WellFoundedInduction

(* The campaign does not change, and the reading stays within its table.   *)
Read ==
    /\ scene \in Scenes
    /\ table \in scene.tables
    /\ start \in 0 .. Cardinality(Rows)
    /\ taken \subseteq rows

(* What a planned acquisition always has: its files and a time. *)
Shapes ==
    \A p \in DOMAIN acquisitions :
        /\ {"files", "when"} \subseteq DOMAIN acquisitions[p]
        /\ acquisitions[p].when \in Nat

(* PlanIsOrderFree, said of each file and each row. *)
RowByRow ==
    /\ \A p : p \in DOMAIN acquisitions <=> \E r \in taken : p \in Places(r)
    /\ \A p \in DOMAIN acquisitions :
          /\ \A q : q \in DOMAIN acquisitions[p].files <=>
                \E r \in taken : p \in Places(r) /\ q \in DOMAIN r.files /\ Place(r, q) = p
          /\ \A r \in taken : p \in Places(r) /\ r.time # 0 =>
                acquisitions[p].when # 0 /\ acquisitions[p].when <= r.time
          /\ acquisitions[p].when # 0 =>
                \E r \in taken : p \in Places(r) /\ r.time = acquisitions[p].when

(* The inductive invariant of the plan. *)
PlanInv == Read /\ SlicesJoin /\ Shapes /\ RowByRow

-----------------------------------------------------------------------------
(* Merging two times keeps one of them, the earlier of those stated. *)
LEMMA EarlierIsEarlier ==
    ASSUME NEW t \in Nat, NEW u \in Nat
    PROVE  /\ Earlier(t, u) \in Nat
           /\ u = 0 => Earlier(t, u) = t
           /\ t = 0 => Earlier(t, u) = u
           /\ u # 0 /\ t # 0 => /\ Earlier(t, u) \in {t, u}
                                /\ Earlier(t, u) <= t /\ Earlier(t, u) <= u
    BY DEF Earlier

(* What joining an event to an acquisition makes of its files and time. *)
LEMMA JoinedHas ==
    ASSUME NEW old, NEW r, NEW p, {"files", "when"} \subseteq DOMAIN old
    PROVE  /\ {"files", "when"} \subseteq DOMAIN Joined(old, r, p)
           /\ DOMAIN Joined(old, r, p).files =
                DOMAIN old.files \cup {q \in DOMAIN r.files : Place(r, q) = p}
           /\ Joined(old, r, p).when = Earlier(old.when, r.time)
    BY DEF Joined

(* A new acquisition starts with no file and no time. *)
LEMMA FoundedIsEmpty ==
    ASSUME NEW r, NEW p
    PROVE  /\ {"files", "when"} \subseteq DOMAIN Founded(r, p)
           /\ DOMAIN Founded(r, p).files = {}
           /\ Founded(r, p).when = 0
    BY DEF Founded

(* A row that was read has the table's time, a number. *)
LEMMA RowsHaveTimes ==
    ASSUME Read, SlicesJoin, NEW r \in rows
    PROVE  r.time \in Nat
<1>1. PICK i \in Rows : r = [table[i] EXCEPT !.at = i]
    BY DEF SlicesJoin
<1>2. RowFields \subseteq DOMAIN table[i] /\ table[i].time \in Nat
    BY ScenesAssumption DEF Read, Rows
<1>3. "time" \in DOMAIN table[i]
    BY <1>2 DEF RowFields
<1> QED BY <1>1, <1>2, <1>3

(* Where a row's files go depends on the campaign only. *)
LEMMA PlacesKept ==
    ASSUME UNCHANGED scene
    PROVE  /\ \A r : Places(r)' = Places(r)
           /\ \A r, q : Place(r, q)' = Place(r, q)
    BY DEF Places, Place, ClaimOf, Claim, InstrumentId, FolderLabel

(* The plan is as it was while neither it nor the campaign changes. *)
LEMMA PlanSame ==
    ASSUME UNCHANGED <<scene, taken, acquisitions>>, RowByRow
    PROVE  RowByRow'
    BY PlacesKept DEF RowByRow

(* Said of each file and each row, the plan is what the events make it. *)
LEMMA RowByRowIsEnough ==
    ASSUME Read, SlicesJoin, RowByRow
    PROVE  PlanIsOrderFree
<1>1. DOMAIN acquisitions = UNION {Places(r) : r \in taken}
  <2>1. ASSUME NEW p PROVE p \in DOMAIN acquisitions <=> p \in UNION {Places(r) : r \in taken}
    BY Zenon DEF RowByRow
  <2> QED BY <2>1
<1>2. ASSUME NEW p \in DOMAIN acquisitions
      PROVE  LET times == {r.time : r \in Feeding(p)} \ {0}
             IN  /\ DOMAIN acquisitions[p].files =
                        UNION {{q \in DOMAIN r.files : Place(r, q) = p} : r \in Feeding(p)}
                 /\ IF times = {} THEN acquisitions[p].when = 0
                    ELSE /\ acquisitions[p].when \in times
                         /\ \A t \in times : acquisitions[p].when <= t
  <2> DEFINE times == {r.time : r \in Feeding(p)} \ {0}
             mine(r) == {q \in DOMAIN r.files : Place(r, q) = p}
  <2>1. ASSUME NEW q
        PROVE  q \in DOMAIN acquisitions[p].files <=> q \in UNION {mine(r) : r \in Feeding(p)}
    <3>1. q \in UNION {mine(r) : r \in Feeding(p)} <=> \E r \in Feeding(p) : q \in mine(r)
        BY Zenon
    <3>2. (\E r \in Feeding(p) : q \in mine(r)) <=>
            \E r \in taken : p \in Places(r) /\ q \in DOMAIN r.files /\ Place(r, q) = p
        BY Zenon DEF Feeding
    <3> HIDE DEF mine
    <3> QED BY <3>1, <3>2 DEF RowByRow
  <2>2. \A t \in times : acquisitions[p].when # 0 /\ acquisitions[p].when <= t
    BY DEF Feeding, RowByRow
  <2>3. acquisitions[p].when # 0 => acquisitions[p].when \in times
    BY DEF Feeding, RowByRow
  <2>4. CASE times = {}
    BY <2>1, <2>3, <2>4
  <2>5. CASE times # {}
    BY <2>1, <2>2, <2>3, <2>5
  <2> QED BY <2>4, <2>5
<1> QED BY <1>1, <1>2, Zenon DEF PlanIsOrderFree

-----------------------------------------------------------------------------
(* Before anything is read nothing is planned. *)
LEMMA InitPlan == PlanInit => PlanInv
<1> SUFFICES ASSUME PlanInit PROVE PlanInv
    OBVIOUS
<1>1. Read
    BY ScenesAssumption DEF PlanInit, Read, Rows
<1>2. SlicesJoin
    BY ScenesAssumption DEF PlanInit, SlicesJoin, Rows
<1>3. Shapes /\ RowByRow
    BY DEF PlanInit, Shapes, RowByRow
<1> QED BY <1>1, <1>2, <1>3 DEF PlanInv

(* A slice adds exactly its own acquisition rows, each with its number. *)
LEMMA SliceStep ==
    ASSUME PlanInv, ReadSlice
    PROVE  PlanInv'
<1> DEFINE n == Cardinality(Rows)
           stop == IF start + READ_SLICE < n THEN start + READ_SLICE ELSE n
           fit == {j \in 0 .. (stop - start - 1) : IsAcquisition(table[start + j + 1])}
           row_at(i) == [table[i] EXCEPT !.at = i]
           new == {row_at(i) : i \in {k \in Rows : start < k /\ k <= stop /\ IsAcquisition(table[k])}}
<1>1. /\ n \in Nat /\ Rows = 1 .. n
      /\ start \in 0 .. n /\ start # n
    BY ScenesAssumption DEF PlanInv, Read, Rows, ReadSlice, AllRead
<1>2. stop \in Nat /\ start < stop /\ stop <= n
    BY <1>1, SliceAssumption
<1>3. /\ rows' = rows \cup {[table[start + i + 1] EXCEPT !.at = start + i + 1] : i \in fit}
      /\ start' = stop
      /\ UNCHANGED <<scene, table, taken, acquisitions>>
    BY DEF ReadSlice
<1>4. {[table[start + i + 1] EXCEPT !.at = start + i + 1] : i \in fit} = new
  <2>1. ASSUME NEW i \in fit
        PROVE  [table[start + i + 1] EXCEPT !.at = start + i + 1] \in new
    <3>1. /\ start + i + 1 \in Rows /\ start < start + i + 1 /\ start + i + 1 <= stop
          /\ IsAcquisition(table[start + i + 1])
        BY <1>1, <1>2
    <3>2. row_at(start + i + 1) \in new
        BY <3>1
    <3> QED BY <3>2
  <2>2. ASSUME NEW k \in Rows, start < k, k <= stop, IsAcquisition(table[k])
        PROVE  row_at(k) \in {[table[start + i + 1] EXCEPT !.at = start + i + 1] : i \in fit}
    <3>1. /\ k - start - 1 \in 0 .. (stop - start - 1)
          /\ start + (k - start - 1) + 1 = k
        BY <1>1, <1>2, <2>2
    <3>2. k - start - 1 \in fit
        BY <3>1, <2>2
    <3>3. row_at(k) = [table[start + (k - start - 1) + 1] EXCEPT !.at = start + (k - start - 1) + 1]
        BY <3>1
    <3> QED BY <3>2, <3>3
  <2> QED BY <2>1, <2>2
<1>5. SlicesJoin'
  <2>1. {k \in Rows : k <= stop /\ IsAcquisition(table[k])} =
          {k \in Rows : k <= start /\ IsAcquisition(table[k])}
          \cup {k \in Rows : start < k /\ k <= stop /\ IsAcquisition(table[k])}
    BY <1>1, <1>2
  <2>2. rows = {row_at(k) : k \in {j \in Rows : j <= start /\ IsAcquisition(table[j])}}
    BY DEF PlanInv, SlicesJoin
  <2>3. rows' = {row_at(k) : k \in {j \in Rows : j <= stop /\ IsAcquisition(table[j])}}
    BY <1>3, <1>4, <2>1, <2>2
  <2> QED BY <1>3, <2>3 DEF SlicesJoin, Rows, IsAcquisition
<1>6. Read' /\ Shapes'
    BY <1>1, <1>2, <1>3 DEF PlanInv, Read, Shapes, Rows
<1>7. RowByRow'
    BY <1>3, PlanSame DEF PlanInv
<1> QED BY <1>5, <1>6, <1>7 DEF PlanInv

(* Taking a row adds its files and its time to the acquisitions they claim. *)
LEMMA TakeStep ==
    ASSUME PlanInv, NEW r \in rows, TakeRow(r)
    PROVE  PlanInv'
<1>1. /\ taken' = taken \cup {r} /\ r \notin taken
      /\ acquisitions' = AddEvent(r)
      /\ UNCHANGED <<scene, table, start, rows>>
    BY DEF TakeRow
<1>2. Read' /\ SlicesJoin'
    BY <1>1 DEF PlanInv, Read, SlicesJoin, Rows, IsAcquisition
<1>3. r.time \in Nat /\ \A s \in taken : s.time \in Nat
    BY RowsHaveTimes DEF PlanInv, Read
<1>4. /\ DOMAIN acquisitions' = DOMAIN acquisitions \cup Places(r)
      /\ \A p \in DOMAIN acquisitions \ Places(r) : acquisitions'[p] = acquisitions[p]
    BY <1>1 DEF AddEvent
<1> DEFINE old(p) == IF p \in DOMAIN acquisitions THEN acquisitions[p] ELSE Founded(r, p)
<1>5. \A p \in Places(r) : acquisitions'[p] = Joined(old(p), r, p)
    BY <1>1 DEF AddEvent
<1>6. ASSUME NEW p
      PROVE  {"files", "when"} \subseteq DOMAIN old(p) /\ old(p).when \in Nat
    BY FoundedIsEmpty DEF PlanInv, Shapes
<1>7. ASSUME NEW p \in Places(r)
      PROVE  /\ {"files", "when"} \subseteq DOMAIN acquisitions'[p]
             /\ DOMAIN acquisitions'[p].files =
                    DOMAIN old(p).files \cup {q \in DOMAIN r.files : Place(r, q) = p}
             /\ acquisitions'[p].when = Earlier(old(p).when, r.time)
  <2>1. {"files", "when"} \subseteq DOMAIN old(p)
    BY <1>6
  <2> HIDE DEF old
  <2> QED BY <1>5, <2>1, JoinedHas
<1>8. Shapes'
  <2>1. ASSUME NEW p \in Places(r)
        PROVE  {"files", "when"} \subseteq DOMAIN acquisitions'[p] /\ acquisitions'[p].when \in Nat
    BY <1>3, <1>6, <1>7, EarlierIsEarlier
  <2> QED BY <1>4, <2>1 DEF PlanInv, Shapes
<1>9. \A p : p \in DOMAIN acquisitions' <=> \E s \in taken' : p \in Places(s)
    BY <1>1, <1>4 DEF PlanInv, RowByRow
<1>10. ASSUME NEW p \in Places(r)
       PROVE  /\ \A q : q \in DOMAIN old(p).files <=>
                    \E s \in taken : p \in Places(s) /\ q \in DOMAIN s.files /\ Place(s, q) = p
              /\ \A s \in taken : p \in Places(s) /\ s.time # 0 =>
                    old(p).when # 0 /\ old(p).when <= s.time
              /\ old(p).when # 0 => \E s \in taken : p \in Places(s) /\ s.time = old(p).when
  <2>1. CASE p \in DOMAIN acquisitions
    BY <2>1 DEF PlanInv, RowByRow
  <2>2. CASE p \notin DOMAIN acquisitions
    <3>1. \A s \in taken : p \notin Places(s)
        BY <2>2 DEF PlanInv, RowByRow
    <3>2. old(p) = Founded(r, p)
        BY <2>2
    <3> HIDE DEF old
    <3> QED BY <3>1, <3>2, FoundedIsEmpty
  <2> QED BY <2>1, <2>2
<1>11. ASSUME NEW p \in Places(r)
       PROVE  /\ \A q : q \in DOMAIN acquisitions'[p].files <=>
                    \E s \in taken' : p \in Places(s) /\ q \in DOMAIN s.files /\ Place(s, q) = p
              /\ \A s \in taken' : p \in Places(s) /\ s.time # 0 =>
                    acquisitions'[p].when # 0 /\ acquisitions'[p].when <= s.time
              /\ acquisitions'[p].when # 0 =>
                    \E s \in taken' : p \in Places(s) /\ s.time = acquisitions'[p].when
  <2>1. old(p).when \in Nat
    BY <1>6
  <2> HIDE DEF old
  <2>2. \A q : q \in DOMAIN acquisitions'[p].files <=>
              \E s \in taken' : p \in Places(s) /\ q \in DOMAIN s.files /\ Place(s, q) = p
    BY <1>1, <1>7, <1>10
  <2> DEFINE was == old(p).when
             now == acquisitions'[p].when
  <2>a. was \in Nat /\ r.time \in Nat /\ now = Earlier(was, r.time)
    BY <1>3, <1>7, <2>1
  <2>b. /\ now \in Nat
        /\ was # 0 => now # 0 /\ now <= was
        /\ r.time # 0 => now # 0 /\ now <= r.time
        /\ now # 0 => now = was \/ now = r.time
    <3> DEFINE t == r.time
    <3>1. was \in Nat /\ t \in Nat /\ now = Earlier(was, t)
        BY <2>a
    <3> HIDE DEF was, now, t
    <3>2. /\ now \in Nat
          /\ was # 0 => now # 0 /\ now <= was
          /\ t # 0 => now # 0 /\ now <= t
          /\ now # 0 => now = was \/ now = t
        BY <3>1 DEF Earlier
    <3> QED BY <3>2 DEF t
  <2>3. ASSUME NEW s \in taken', p \in Places(s), s.time # 0
        PROVE  now # 0 /\ now <= s.time
    <3>1. CASE s = r
        BY <2>b, <2>3, <3>1
    <3>2. CASE s \in taken
        <4>1. was # 0 /\ was <= s.time /\ s.time \in Nat
            BY <1>3, <1>10, <2>3, <3>2
        <4> HIDE DEF was, now
        <4> QED BY <2>a, <2>b, <4>1
    <3> QED BY <1>1, <3>1, <3>2
  <2>4. now # 0 => \E s \in taken' : p \in Places(s) /\ s.time = now
    <3>1. now = was /\ was # 0 => \E s \in taken' : p \in Places(s) /\ s.time = now
        BY <1>1, <1>10
    <3>2. now = r.time => \E s \in taken' : p \in Places(s) /\ s.time = now
        BY <1>1
    <3> HIDE DEF was, now
    <3> QED BY <2>b, <3>1, <3>2
  <2> QED BY <2>2, <2>3, <2>4
<1>12. ASSUME NEW p \in DOMAIN acquisitions \ Places(r)
       PROVE  /\ \A q : q \in DOMAIN acquisitions'[p].files <=>
                    \E s \in taken' : p \in Places(s) /\ q \in DOMAIN s.files /\ Place(s, q) = p
              /\ \A s \in taken' : p \in Places(s) /\ s.time # 0 =>
                    acquisitions'[p].when # 0 /\ acquisitions'[p].when <= s.time
              /\ acquisitions'[p].when # 0 =>
                    \E s \in taken' : p \in Places(s) /\ s.time = acquisitions'[p].when
    BY <1>1, <1>4 DEF PlanInv, RowByRow
<1>13. RowByRow'
    BY <1>1, <1>4, <1>9, <1>11, <1>12, PlacesKept DEF RowByRow
<1> QED BY <1>2, <1>8, <1>13 DEF PlanInv

(* The writing half reads the plan and leaves it alone. *)
LEMMA PlanStep == PlanInv /\ [Next]_vars => PlanInv'
<1> SUFFICES ASSUME PlanInv, [Next]_vars PROVE PlanInv'
    OBVIOUS
<1>1. CASE ReadSlice
    BY <1>1, SliceStep
<1>2. CASE \E r \in rows : TakeRow(r)
    BY <1>2, TakeStep
<1>3. CASE UNCHANGED planVars
  <2>1. UNCHANGED <<scene, table, start, rows, taken, acquisitions>>
    BY <1>3 DEF planVars
  <2>2. Read' /\ SlicesJoin' /\ Shapes'
    BY <2>1 DEF PlanInv, Read, SlicesJoin, Shapes, Rows, IsAcquisition
  <2> QED BY <2>1, <2>2, PlanSame DEF PlanInv
<1>4. CASE Open \/ StreamFrame \/ FinishRecording \/ StartMapping
    BY <1>3, <1>4 DEF Open, StreamFrame, FinishRecording, StartMapping
<1>5. CASE MapRow \/ EndMapping \/ ClaimRaises \/ Close
    BY <1>3, <1>5 DEF MapRow, EndMapping, ClaimRaises, NextMapping, Close
<1>6. CASE \E p \in Planning : WriteAcquisition(p) \/ OpenRecording(p)
    BY <1>3, <1>6 DEF WriteAcquisition, OpenRecording
<1>7. CASE UNCHANGED vars
    BY <1>3, <1>7 DEF vars
<1> QED BY <1>1, <1>2, <1>4, <1>5, <1>6, <1>7 DEF Next, PlanNext

(* Reading by slices loses and shifts no row of the event table. *)
THEOREM SlicesJoinAlways == Spec => []SlicesJoin
<1>1. Init => PlanInv
    BY InitPlan DEF Init
<1> QED BY <1>1, PlanStep, PTL DEF Spec, PlanInv

(* What the acquisitions hold is a function of the events, not their order. *)
THEOREM PlanIsOrderFreeAlways == Spec => []PlanIsOrderFree
<1>1. Init => PlanInv
    BY InitPlan DEF Init
<1>2. PlanInv => PlanIsOrderFree
    BY RowByRowIsEnough DEF PlanInv
<1> QED BY <1>1, <1>2, PlanStep, PTL DEF Spec

-----------------------------------------------------------------------------
(* The stack of a recording. *)

(* What a stack holds of the frames so far: one flag and, once there is a  *)
(* dataset, one place each; its size is that of the first frame that reads.*)
Holding(s, f) ==
    /\ {"length", "made", "frames", "readable", "shape"} \subseteq DOMAIN s
    /\ s.length \in Nat
    /\ s.readable \in Seq(BOOLEAN) /\ Len(s.readable) = s.length
    /\ s.made \in BOOLEAN
    /\ s.made <=> \E i \in 1 .. s.length : f[i].state = "ok"
    /\ s.made =>
          /\ \E i \in 1 .. s.length :
                /\ f[i].state = "ok" /\ s.shape = f[i].shape
                /\ \A j \in 1 .. s.length : f[j].state = "ok" => i <= j
          /\ s.frames = [i \in 1 .. s.length |-> IF s.readable[i] THEN f[i] ELSE None]
    /\ \A i \in 1 .. s.length :
          s.readable[i] <=> f[i].state = "ok" /\ f[i].shape = s.shape

(* A recording starts with no frame held. *)
LEMMA EmptyHolds == ASSUME NEW f PROVE Holding(Packs!EmptyStack, f)
    BY DEF Holding, Packs!EmptyStack

(* One flag more, and the others as they were. *)
LEMMA OneFlagMore ==
    ASSUME NEW flags \in Seq(BOOLEAN), NEW flag \in BOOLEAN, NEW n \in Nat, Len(flags) = n
    PROVE  /\ Append(flags, flag) \in Seq(BOOLEAN) /\ Len(Append(flags, flag)) = n + 1
           /\ \A i \in 1 .. n : Append(flags, flag)[i] <=> flags[i]
           /\ Append(flags, flag)[n + 1] <=> flag
<1>1. /\ Append(flags, flag) \in Seq(BOOLEAN) /\ Len(Append(flags, flag)) = n + 1
      /\ \A i \in 1 .. n : Append(flags, flag)[i] = flags[i]
      /\ Append(flags, flag)[n + 1] = flag
    BY AppendProperties
<1> QED BY <1>1, Zenon

(* A function on the first numbers is a sequence. *)
LEMMA FunctionIsSeq ==
    ASSUME NEW n \in Nat, NEW S, NEW fn \in [1 .. n -> S]
    PROVE  fn \in Seq(S) /\ Len(fn) = n /\ DOMAIN fn = 1 .. n
    OBVIOUS

(* A frame that is skipped leaves its place empty. *)
LEMMA SkipHolds ==
    ASSUME NEW s, NEW f, Holding(s, f),
           f[s.length + 1].state # "ok" \/ (s.made /\ f[s.length + 1].shape # s.shape)
    PROVE  Holding(Packs!Skip(s), f) /\ Packs!Skip(s).length = s.length + 1
<1> DEFINE n == s.length + 1
           t == Packs!Skip(s)
<1>1. /\ s.length \in Nat /\ n \in Nat \ {0} /\ n - 1 = s.length
      /\ 1 .. n = (1 .. s.length) \cup {n} /\ n \notin 1 .. s.length
    BY DEF Holding
<1>2. /\ {"length", "made", "frames", "readable", "shape"} \subseteq DOMAIN t
      /\ t.length = n /\ t.made = s.made /\ t.shape = s.shape
      /\ t.readable = Append(s.readable, FALSE)
      /\ t.frames = IF s.made THEN Packs!Resized(s.frames, n) ELSE s.frames
  <2>1. {"length", "made", "frames", "readable", "shape"} \subseteq DOMAIN s
    BY DEF Holding
  <2>2. t = [s EXCEPT !.length = n,
                      !.frames = IF s.made THEN Packs!Resized(@, n) ELSE @,
                      !.readable = Append(@, FALSE)]
    BY DEF Packs!Skip
  <2> HIDE DEF t, n
  <2> QED BY <2>1, <2>2
<1>3. /\ t.readable \in Seq(BOOLEAN) /\ Len(t.readable) = n
      /\ \A i \in 1 .. s.length : t.readable[i] <=> s.readable[i]
      /\ ~ t.readable[n]
  <2>1. s.readable \in Seq(BOOLEAN) /\ Len(s.readable) = s.length /\ s.length \in Nat
    BY DEF Holding
  <2>2. /\ Append(s.readable, FALSE) \in Seq(BOOLEAN) /\ Len(Append(s.readable, FALSE)) = n
        /\ \A i \in 1 .. s.length : Append(s.readable, FALSE)[i] <=> s.readable[i]
        /\ Append(s.readable, FALSE)[n] <=> FALSE
    BY <2>1, OneFlagMore, Zenon
  <2> HIDE DEF t, n
  <2> QED BY <1>2, <2>2, Zenon
<1>4. s.made => t.frames = [i \in 1 .. n |-> IF t.readable[i] THEN f[i] ELSE None]
  <2> SUFFICES ASSUME s.made PROVE t.frames = [i \in 1 .. n |-> IF t.readable[i] THEN f[i] ELSE None]
    OBVIOUS
  <2>1. s.frames = [i \in 1 .. s.length |-> IF s.readable[i] THEN f[i] ELSE None]
    BY DEF Holding
  <2> DEFINE S == {IF s.readable[i] THEN f[i] ELSE None : i \in 1 .. s.length}
  <2>a. s.frames \in [1 .. s.length -> S]
    BY <2>1, Zenon
  <2> HIDE DEF S, t, n
  <2>2. Len(s.frames) = s.length /\ DOMAIN s.frames = 1 .. s.length
    BY <1>1, <2>a, FunctionIsSeq
  <2>3. t.frames = [i \in 1 .. n |-> IF i <= s.length THEN s.frames[i] ELSE None]
    BY <1>1, <1>2, <2>2 DEF Packs!Resized
  <2>4. ASSUME NEW i \in 1 .. n
        PROVE  (IF i <= s.length THEN s.frames[i] ELSE None) = (IF t.readable[i] THEN f[i] ELSE None)
    <3>1. CASE i = n
        BY <1>1, <1>3, <3>1
    <3>2. CASE i \in 1 .. s.length
        BY <1>1, <1>3, <2>1, <3>2
    <3> QED BY <1>1, <3>1, <3>2
  <2> QED BY <2>3, <2>4
<1>5. s.made <=> \E i \in 1 .. n : f[i].state = "ok"
    BY <1>1 DEF Holding
<1>6. s.made => \E i \in 1 .. n :
          /\ f[i].state = "ok" /\ s.shape = f[i].shape
          /\ \A j \in 1 .. n : f[j].state = "ok" => i <= j
  <2> SUFFICES ASSUME s.made PROVE \E i \in 1 .. n :
          /\ f[i].state = "ok" /\ s.shape = f[i].shape
          /\ \A j \in 1 .. n : f[j].state = "ok" => i <= j
    OBVIOUS
  <2>1. PICK i \in 1 .. s.length : /\ f[i].state = "ok" /\ s.shape = f[i].shape
          /\ \A j \in 1 .. s.length : f[j].state = "ok" => i <= j
    BY DEF Holding
  <2> QED BY <1>1, <2>1
<1>7. \A i \in 1 .. n : t.readable[i] <=> f[i].state = "ok" /\ f[i].shape = s.shape
  <2> TAKE i \in 1 .. n
  <2> HIDE DEF t, n
  <2>1. CASE i = n
    BY <1>3, <2>1 DEF n
  <2>2. CASE i \in 1 .. s.length
    BY <1>3, <2>2 DEF Holding
  <2> QED BY <1>1, <2>1, <2>2
<1> HIDE DEF t, n
<1>8. Holding(t, f)
    BY <1>1, <1>2, <1>3, <1>4, <1>5, <1>6, <1>7 DEF Holding
<1> QED BY <1>2, <1>8 DEF t, n

(* A frame that is written is in its place, and in no other. *)
LEMMA PushHolds ==
    ASSUME NEW s, NEW f, Holding(s, f),
           f[s.length + 1].state = "ok", ~ s.made \/ f[s.length + 1].shape = s.shape
    PROVE  /\ Holding(Packs!Push(s, f[s.length + 1]), f)
           /\ Packs!Push(s, f[s.length + 1]).length = s.length + 1
<1> DEFINE n == s.length + 1
           t == Packs!Push(s, f[n])
           before == IF s.made THEN s.frames ELSE Packs!Resized(<<>>, s.length)
<1>1. /\ s.length \in Nat /\ n \in Nat \ {0} /\ n - 1 = s.length
      /\ 1 .. n = (1 .. s.length) \cup {n} /\ n \notin 1 .. s.length
    BY DEF Holding
<1>2. /\ {"length", "made", "frames", "readable", "shape"} \subseteq DOMAIN t
      /\ t.length = n /\ t.made = TRUE /\ t.shape = f[n].shape
      /\ t.readable = Append(s.readable, TRUE)
      /\ t.frames = [Packs!Resized(before, n) EXCEPT ![n] = f[n]]
    BY Zenon DEF Packs!Push
<1>3. /\ t.readable \in Seq(BOOLEAN) /\ Len(t.readable) = n
      /\ \A i \in 1 .. s.length : t.readable[i] <=> s.readable[i]
      /\ t.readable[n]
  <2>1. s.readable \in Seq(BOOLEAN) /\ Len(s.readable) = s.length /\ s.length \in Nat
    BY DEF Holding
  <2>2. /\ Append(s.readable, TRUE) \in Seq(BOOLEAN) /\ Len(Append(s.readable, TRUE)) = n
        /\ \A i \in 1 .. s.length : Append(s.readable, TRUE)[i] <=> s.readable[i]
        /\ Append(s.readable, TRUE)[n] <=> TRUE
    BY <2>1, OneFlagMore, Zenon
  <2> HIDE DEF t, n
  <2> QED BY <1>2, <2>2, Zenon
<1>4. s.made => s.shape = f[n].shape
    OBVIOUS
<1>5. ~ s.made => \A i \in 1 .. s.length : f[i].state # "ok" /\ ~ s.readable[i]
    BY DEF Holding
<1>6. \A i \in 1 .. n : t.readable[i] <=> f[i].state = "ok" /\ f[i].shape = t.shape
  <2> TAKE i \in 1 .. n
  <2> HIDE DEF t, n, before
  <2>1. CASE i = n
    BY <1>2, <1>3, <2>1 DEF n
  <2>2. CASE i \in 1 .. s.length /\ s.made
    BY <1>2, <1>3, <1>4, <2>2 DEF Holding
  <2>3. CASE i \in 1 .. s.length /\ ~ s.made
    BY <1>3, <1>5, <2>3
  <2> QED BY <1>1, <2>1, <2>2, <2>3
<1>7. before = [i \in 1 .. s.length |-> IF s.readable[i] THEN f[i] ELSE None]
  <2>1. CASE s.made
    BY <2>1 DEF Holding
  <2>2. CASE ~ s.made
    <3>1. before = [i \in 1 .. s.length |-> None]
        BY <1>1, <2>2 DEF Packs!Resized
    <3>2. \A i \in 1 .. s.length : (IF s.readable[i] THEN f[i] ELSE None) = None
        BY <1>5, <2>2, Zenon
    <3> HIDE DEF before
    <3> QED BY <3>1, <3>2
  <2> QED BY <2>1, <2>2
<1>8. t.frames = [i \in 1 .. n |-> IF t.readable[i] THEN f[i] ELSE None]
  <2> DEFINE S == {IF s.readable[i] THEN f[i] ELSE None : i \in 1 .. s.length}
             longer == Packs!Resized(before, n)
  <2>a. before \in [1 .. s.length -> S]
    BY <1>7, Zenon
  <2> HIDE DEF S, t, n, before
  <2>2. Len(before) = s.length /\ DOMAIN before = 1 .. s.length
    BY <1>1, <2>a, FunctionIsSeq
  <2>3. longer = [i \in 1 .. n |-> IF i <= s.length THEN before[i] ELSE None]
    BY <1>1, <2>2 DEF Packs!Resized
  <2>b. t.frames = [longer EXCEPT ![n] = f[n]]
    BY <1>2
  <2> HIDE DEF longer
  <2>c. t.frames = [i \in 1 .. n |-> IF i = n THEN f[n] ELSE longer[i]]
    BY <2>3, <2>b
  <2>d. \A i \in 1 .. n : i # n => longer[i] = before[i]
    BY <1>1, <2>3
  <2>4. t.frames = [i \in 1 .. n |-> IF i = n THEN f[n] ELSE before[i]]
    BY <2>c, <2>d
  <2>5. ASSUME NEW i \in 1 .. n
        PROVE  (IF i = n THEN f[n] ELSE before[i]) = (IF t.readable[i] THEN f[i] ELSE None)
    <3>1. CASE i = n
        BY <1>3, <3>1, Zenon
    <3>2. CASE i \in 1 .. s.length
        BY <1>1, <1>3, <1>7, <3>2
    <3> QED BY <1>1, <3>1, <3>2
  <2> QED BY <2>4, <2>5
<1>9. \E i \in 1 .. n :
          /\ f[i].state = "ok" /\ t.shape = f[i].shape
          /\ \A j \in 1 .. n : f[j].state = "ok" => i <= j
  <2>1. CASE s.made
    <3>1. PICK i \in 1 .. s.length : /\ f[i].state = "ok" /\ s.shape = f[i].shape
            /\ \A j \in 1 .. s.length : f[j].state = "ok" => i <= j
        BY <2>1 DEF Holding
    <3> HIDE DEF t, n, before
    <3> QED BY <1>1, <1>2, <1>4, <2>1, <3>1
  <2>2. CASE ~ s.made
    <3>1. n \in 1 .. n /\ f[n].state = "ok" /\ t.shape = f[n].shape
        BY <1>1, <1>2
    <3> HIDE DEF t, n, before
    <3> QED BY <1>1, <1>5, <2>2, <3>1
  <2> QED BY <2>1, <2>2
<1>10. \E i \in 1 .. n : f[i].state = "ok"
    BY <1>9
<1> HIDE DEF t, n, before
<1>11. Holding(t, f)
    BY <1>1, <1>2, <1>3, <1>6, <1>8, <1>9, <1>10 DEF Holding
<1> QED BY <1>2, <1>11 DEF t, n

(* Once the writing has begun there is nothing left to plan. *)
Settled == phase # "plan" => Planned

(* The stack of the recording being streamed holds the frames so far. *)
Streaming == phase = "frames" => Holding(stack, FramesAt)

(* No action adds to the plan once the container is open. *)
LEMMA SettledStays == Settled /\ [Next]_vars => Settled'
<1> SUFFICES ASSUME Settled, [Next]_vars PROVE Settled'
    OBVIOUS
<1>1. CASE PlanNext /\ UNCHANGED writeVars
    BY <1>1 DEF Settled, Planned, PlanNext, ReadSlice, TakeRow, writeVars
<1>2. CASE UNCHANGED planVars /\ (phase # "plan" \/ Planned)
  <2>1. Planned => Planned'
    BY <1>2 DEF Planned, AllRead, Rows, planVars
  <2> QED BY <1>2, <2>1 DEF Settled
<1>3. CASE Open
    BY <1>2, <1>3 DEF Open
<1>4. CASE StreamFrame \/ FinishRecording \/ StartMapping
    BY <1>2, <1>4 DEF StreamFrame, FinishRecording, StartMapping
<1>5. CASE MapRow \/ EndMapping \/ ClaimRaises \/ Close
    BY <1>2, <1>5 DEF MapRow, EndMapping, ClaimRaises, NextMapping, Close
<1>6. CASE \E p \in Planning : WriteAcquisition(p) \/ OpenRecording(p)
    BY <1>2, <1>6 DEF WriteAcquisition, OpenRecording
<1>7. CASE UNCHANGED vars
  <2>1. UNCHANGED planVars /\ UNCHANGED phase
    BY <1>7 DEF vars, writeVars
  <2>2. Planned => Planned'
    BY <2>1 DEF Planned, AllRead, Rows, planVars
  <2> QED BY <2>1, <2>2 DEF Settled
<1> QED BY <1>1, <1>3, <1>4, <1>5, <1>6, <1>7 DEF Next

(* While a container is written the plan it is of stays. *)
LEMMA PlanStands ==
    ASSUME Settled, phase # "plan", [Next]_vars
    PROVE  UNCHANGED planVars
<1>1. ~ PlanNext
    BY DEF Settled, Planned, PlanNext, ReadSlice, TakeRow
<1>2. CASE Open \/ StreamFrame \/ FinishRecording \/ StartMapping
    BY <1>2 DEF Open, StreamFrame, FinishRecording, StartMapping
<1>3. CASE MapRow \/ EndMapping \/ ClaimRaises \/ Close
    BY <1>3 DEF MapRow, EndMapping, ClaimRaises, NextMapping, Close
<1>4. CASE \E p \in Planning : WriteAcquisition(p) \/ OpenRecording(p)
    BY <1>4 DEF WriteAcquisition, OpenRecording
<1>5. CASE UNCHANGED vars
    BY <1>5 DEF vars
<1> QED BY <1>1, <1>2, <1>3, <1>4, <1>5 DEF Next

(* A stack that holds its frames is what FramesInPlace asks for. *)
LEMMA HoldingIsInPlace == Streaming => FramesInPlace
<1> SUFFICES ASSUME Streaming, phase = "frames" PROVE FramesInPlace
    BY DEF FramesInPlace
<1> DEFINE frames == FramesAt
           fit == {i \in 1 .. stack.length : frames[i].state = "ok"}
           lead == CHOOSE i \in fit : \A j \in fit : i <= j
<1>1. Holding(stack, frames)
    BY DEF Streaming
<1> HIDE DEF frames
<1>2. stack.length \in Nat /\ (stack.made <=> fit # {}) /\ stack.made \in BOOLEAN
    BY <1>1 DEF Holding
<1>3. ASSUME stack.made PROVE lead \in fit /\ stack.shape = frames[lead].shape
  <2>1. PICK i \in 1 .. stack.length :
            /\ frames[i].state = "ok" /\ stack.shape = frames[i].shape
            /\ \A j \in 1 .. stack.length : frames[j].state = "ok" => i <= j
    BY <1>1, <1>3 DEF Holding
  <2>2. i \in fit /\ \A j \in fit : i <= j
    BY <2>1
  <2>3. lead \in fit /\ \A j \in fit : lead <= j
    BY <2>2
  <2>4. lead \in Nat /\ i \in Nat /\ lead <= i /\ i <= lead
    BY <1>2, <2>2, <2>3
  <2> HIDE DEF lead, fit
  <2>5. lead = i
    BY <2>4
  <2> QED BY <2>1, <2>2, <2>5
<1> HIDE DEF lead
<1>4. \A i \in 1 .. stack.length :
          stack.readable[i] <=> i \in fit /\ frames[i].shape = frames[lead].shape
  <2> SUFFICES ASSUME NEW i \in 1 .. stack.length
               PROVE  stack.readable[i] <=> i \in fit /\ frames[i].shape = frames[lead].shape
    OBVIOUS
  <2>1. stack.readable[i] <=> i \in fit /\ frames[i].shape = stack.shape
    BY <1>1 DEF Holding
  <2>2. i \in fit => stack.made
    BY <1>2
  <2> HIDE DEF fit
  <2> QED BY <1>3, <2>1, <2>2
<1>5. stack.made => Len(stack.frames) = stack.length
      /\ \A i \in 1 .. stack.length : stack.frames[i] = IF stack.readable[i] THEN frames[i] ELSE None
  <2> SUFFICES ASSUME stack.made
               PROVE  Len(stack.frames) = stack.length
                      /\ \A i \in 1 .. stack.length :
                            stack.frames[i] = IF stack.readable[i] THEN frames[i] ELSE None
    OBVIOUS
  <2>1. stack.frames = [i \in 1 .. stack.length |-> IF stack.readable[i] THEN frames[i] ELSE None]
    BY <1>1 DEF Holding
  <2> DEFINE S == {IF stack.readable[i] THEN frames[i] ELSE None : i \in 1 .. stack.length}
  <2>2. stack.frames \in [1 .. stack.length -> S]
    BY <2>1, Zenon
  <2> HIDE DEF S
  <2>3. Len(stack.frames) = stack.length
    BY <1>2, <2>2, FunctionIsSeq
  <2>4. \A i \in 1 .. stack.length : stack.frames[i] = IF stack.readable[i] THEN frames[i] ELSE None
    BY <2>1, Zenon
  <2> QED BY <2>3, <2>4
<1>6. \A i \in 1 .. stack.length : stack.readable[i] \in BOOLEAN
  <2>1. stack.readable \in Seq(BOOLEAN) /\ Len(stack.readable) = stack.length
    BY <1>1 DEF Holding
  <2> QED BY <2>1, ElementOfSeq, Zenon
<1>7. Len(stack.readable) = stack.length
    BY <1>1 DEF Holding
<1>8. stack.made = (fit # {})
    BY <1>2, Zenon
<1>9. \A i \in 1 .. stack.length :
          stack.readable[i] = (i \in fit /\ frames[i].shape = frames[lead].shape)
    BY <1>4, <1>6, Zenon
<1> QED BY <1>5, <1>7, <1>8, <1>9, Zenon DEF FramesInPlace, frames, fit, lead

(* The frames of a recording are the same while it is streamed. *)
LEMMA SameFrames == UNCHANGED <<scene, acquisitions, at>> => FramesAt' = FramesAt
    BY DEF FramesAt, SortedFiles, Rank

(* Every frame is skipped or pushed; the rest leaves the stack alone. *)
LEMMA StreamingStep == Settled /\ Streaming /\ [Next]_vars => Streaming'
<1> SUFFICES ASSUME Settled, Streaming, [Next]_vars, phase' = "frames" PROVE Holding(stack, FramesAt)'
    BY DEF Streaming
<1>1. CASE \E p \in Planning : OpenRecording(p)
  <2>1. stack' = Packs!EmptyStack
    BY <1>1 DEF OpenRecording
  <2>2. Holding(Packs!EmptyStack, FramesAt')
    BY EmptyHolds
  <2> QED BY <2>1, <2>2 DEF Holding
<1>2. CASE StreamFrame
  <2>1. /\ phase = "frames" /\ UNCHANGED <<scene, acquisitions, at>>
        /\ stack' = Packs!Stacked(stack, FramesAt[stack.length + 1])
    BY <1>2 DEF StreamFrame, planVars
  <2>2. Holding(stack, FramesAt)
    BY <2>1 DEF Streaming
  <2>3. FramesAt' = FramesAt
    BY <2>1, SameFrames
  <2> DEFINE f == FramesAt
  <2>4. Holding(Packs!Stacked(stack, f[stack.length + 1]), f)
    <3>1. Holding(stack, f) /\ stack.made \in BOOLEAN
        BY <2>2 DEF Holding
    <3> HIDE DEF f
    <3>2. CASE f[stack.length + 1].state # "ok" \/ (stack.made /\ f[stack.length + 1].shape # stack.shape)
        BY <3>1, <3>2, SkipHolds DEF Packs!Stacked
    <3>3. CASE /\ f[stack.length + 1].state = "ok"
               /\ ~ stack.made \/ f[stack.length + 1].shape = stack.shape
        BY <3>1, <3>3, PushHolds DEF Packs!Stacked
    <3> QED BY <3>2, <3>3
  <2> QED BY <2>1, <2>3, <2>4 DEF Holding
<1>3. CASE UNCHANGED vars
  <2>1. phase = "frames" /\ UNCHANGED <<scene, acquisitions, at, stack>>
    BY <1>3 DEF vars, planVars, writeVars
  <2> QED BY <2>1, SameFrames DEF Streaming, Holding
<1>4. CASE PlanNext /\ UNCHANGED writeVars
  <2>1. phase = "frames" /\ UNCHANGED <<at, stack>>
    BY <1>4 DEF writeVars
  <2>2. UNCHANGED <<scene, acquisitions>>
    BY <2>1, PlanStands DEF planVars
  <2> QED BY <2>1, <2>2, SameFrames DEF Streaming, Holding
<1>5. CASE Open \/ FinishRecording \/ StartMapping \/ MapRow \/ EndMapping \/ ClaimRaises \/ Close
    BY <1>5 DEF Open, FinishRecording, StartMapping, MapRow, EndMapping, ClaimRaises, NextMapping, Close
<1>6. CASE \E p \in Planning : WriteAcquisition(p)
    BY <1>6 DEF WriteAcquisition
<1> QED BY <1>1, <1>2, <1>3, <1>4, <1>5, <1>6 DEF Next

(* While a recording is streamed (sequence_frames.py: _write_stack, over   *)
(* _h5.py: FrameStack), position i of the stack is the i-th frame in frame *)
(* order: it is there exactly when it read and has the size of the first   *)
(* that did, and is empty otherwise.                                       *)
THEOREM FramesStayInPlace == Spec => []FramesInPlace
<1>1. Init => Settled /\ Streaming
    BY DEF Init, Settled, Streaming
<1>2. Settled /\ Streaming /\ [Next]_vars => Settled' /\ Streaming'
    BY SettledStays, StreamingStep
<1>3. Settled /\ Streaming => FramesInPlace
    BY HoldingIsInPlace
<1> QED BY <1>1, <1>2, <1>3, PTL DEF Spec

-----------------------------------------------------------------------------
(* Sequences of names. *)

(* Appending is known by its elements. *)
LEMMA AppendIs ==
    ASSUME NEW S, NEW s \in Seq(S), NEW x \in S, NEW t \in Seq(S), Len(t) = Len(s) + 1,
           \A i \in 1 .. Len(s) : t[i] = s[i], t[Len(s) + 1] = x
    PROVE  Append(s, x) = t
<1> DEFINE u == Append(s, x)
<1>1. u \in Seq(S) /\ Len(u) = Len(s) + 1 /\ (\A i \in 1 .. Len(s) : u[i] = s[i]) /\ u[Len(s) + 1] = x
    BY AppendProperties
<1>2. Len(s) \in Nat
    BY LenProperties
<1> HIDE DEF u
<1>3. \A i \in 1 .. Len(u) : u[i] = t[i]
    BY <1>1, <1>2
<1>4. u = t
    BY <1>1, <1>3, SeqEqual
<1> QED BY <1>4 DEF u

(* The first k elements, by their elements. *)
LEMMA FirstOf ==
    ASSUME NEW S, NEW t \in Seq(S), NEW k \in Nat, k <= Len(t), NEW s \in Seq(S), Len(s) = k,
           \A i \in 1 .. k : s[i] = t[i]
    PROVE  SubSeq(t, 1, k) = s
<1> DEFINE u == SubSeq(t, 1, k)
<1>1. Len(t) \in Nat /\ \A i \in 1 .. Len(t) : t[i] \in S
    BY LenProperties, ElementOfSeq
<1>2. \A i \in 1 .. k : t[i] \in S
    BY <1>1
<1>3. u \in Seq(S) /\ Len(u) = (IF 1 <= k THEN k - 1 + 1 ELSE 0)
      /\ \A i \in 1 .. k - 1 + 1 : u[i] = t[1 + i - 1]
    BY <1>2, SubSeqProperties
<1> HIDE DEF u
<1>4. Len(u) = k /\ \A i \in 1 .. Len(u) : u[i] = s[i]
    BY <1>3
<1>5. u = s
    BY <1>3, <1>4, SeqEqual
<1> QED BY <1>5 DEF u

(* Joining two sequences, by their elements. *)
LEMMA ConcatIs ==
    ASSUME NEW S, NEW s \in Seq(S), NEW r \in Seq(S), NEW t \in Seq(S), Len(t) = Len(s) + Len(r),
           \A i \in 1 .. Len(s) : t[i] = s[i], \A i \in 1 .. Len(r) : t[Len(s) + i] = r[i]
    PROVE  s \o r = t
<1> DEFINE u == s \o r
<1>1. /\ u \in Seq(S) /\ Len(u) = Len(s) + Len(r)
      /\ \A i \in 1 .. Len(s) + Len(r) : u[i] = IF i <= Len(s) THEN s[i] ELSE r[i - Len(s)]
    BY ConcatProperties
<1>2. Len(s) \in Nat /\ Len(r) \in Nat
    BY LenProperties
<1> HIDE DEF u
<1>3. ASSUME NEW i \in 1 .. Len(u) PROVE u[i] = t[i]
  <2>1. CASE i <= Len(s)
    BY <1>1, <1>2, <2>1
  <2>2. CASE i > Len(s)
    <3> DEFINE j == i - Len(s)
    <3>1. j \in 1 .. Len(r) /\ i = Len(s) + j
        BY <1>1, <1>2, <2>2
    <3> QED BY <1>1, <1>2, <2>2, <3>1
  <2> QED BY <1>1, <1>2, <2>1, <2>2
<1>4. u = t
    BY <1>1, <1>3, SeqEqual
<1> QED BY <1>4 DEF u

(* The elements of short tuples. *)
LEMMA Tuples ==
    ASSUME NEW S, NEW a \in S, NEW b \in S, NEW c \in S, NEW d \in S, NEW e \in S
    PROVE  /\ <<a>> \in Seq(S) /\ Len(<<a>>) = 1 /\ <<a>>[1] = a
           /\ <<a, b>> \in Seq(S) /\ Len(<<a, b>>) = 2 /\ <<a, b>>[1] = a /\ <<a, b>>[2] = b
           /\ <<a, b, c>> \in Seq(S) /\ Len(<<a, b, c>>) = 3
           /\ <<a, b, c>>[1] = a /\ <<a, b, c>>[2] = b /\ <<a, b, c>>[3] = c
           /\ <<a, b, c, d>> \in Seq(S) /\ Len(<<a, b, c, d>>) = 4
           /\ <<a, b, c, d>>[1] = a /\ <<a, b, c, d>>[2] = b /\ <<a, b, c, d>>[3] = c /\ <<a, b, c, d>>[4] = d
           /\ <<a, b, c, d, e>> \in Seq(S) /\ Len(<<a, b, c, d, e>>) = 5
           /\ <<a, b, c, d, e>>[1] = a /\ <<a, b, c, d, e>>[2] = b /\ <<a, b, c, d, e>>[3] = c
           /\ <<a, b, c, d, e>>[4] = d /\ <<a, b, c, d, e>>[5] = e
    OBVIOUS

(* Appending to short tuples. *)
LEMMA AppendTwo ==
    ASSUME NEW a, NEW b, NEW c PROVE Append(<<a, b>>, c) = <<a, b, c>>
<1> DEFINE S == {a, b, c}
           s == <<a, b>>
           t == <<a, b, c>>
<1>1. s \in Seq(S) /\ t \in Seq(S) /\ c \in S /\ Len(s) = 2 /\ Len(t) = 3
      /\ s[1] = a /\ s[2] = b /\ t[1] = a /\ t[2] = b /\ t[3] = c
    OBVIOUS
<1> HIDE DEF s, t, S
<1>2. Len(t) = Len(s) + 1 /\ (\A i \in 1 .. Len(s) : t[i] = s[i]) /\ t[Len(s) + 1] = c
    BY <1>1
<1>3. Append(s, c) = t
    BY <1>1, <1>2, AppendIs
<1> QED BY <1>3 DEF s, t

(* What a sequence holds after three more elements. *)
LEMMA AppendThree ==
    ASSUME NEW a, NEW b, NEW c, NEW d PROVE Append(<<a, b, c>>, d) = <<a, b, c, d>>
<1> DEFINE S == {a, b, c, d}
           s == <<a, b, c>>
           t == <<a, b, c, d>>
<1>1. s \in Seq(S) /\ t \in Seq(S) /\ d \in S /\ Len(s) = 3 /\ Len(t) = 4
      /\ s[1] = a /\ s[2] = b /\ s[3] = c /\ t[1] = a /\ t[2] = b /\ t[3] = c /\ t[4] = d
    OBVIOUS
<1> HIDE DEF s, t, S
<1>2. Len(t) = Len(s) + 1 /\ (\A i \in 1 .. Len(s) : t[i] = s[i]) /\ t[Len(s) + 1] = d
    BY <1>1
<1>3. Append(s, d) = t
    BY <1>1, <1>2, AppendIs
<1> QED BY <1>3 DEF s, t

(* What a sequence holds after four more elements. *)
LEMMA AppendFour ==
    ASSUME NEW a, NEW b, NEW c, NEW d, NEW e
    PROVE  Append(<<a, b, c, d>>, e) = <<a, b, c, d, e>>
<1> DEFINE S == {a, b, c, d, e}
           s == <<a, b, c, d>>
           t == <<a, b, c, d, e>>
<1>1. s \in Seq(S) /\ t \in Seq(S) /\ e \in S /\ Len(s) = 4 /\ Len(t) = 5
      /\ s[1] = a /\ s[2] = b /\ s[3] = c /\ s[4] = d
      /\ t[1] = a /\ t[2] = b /\ t[3] = c /\ t[4] = d /\ t[5] = e
    OBVIOUS
<1> HIDE DEF s, t, S
<1>2. Len(t) = Len(s) + 1 /\ (\A i \in 1 .. Len(s) : t[i] = s[i]) /\ t[Len(s) + 1] = e
    BY <1>1
<1>3. Append(s, e) = t
    BY <1>1, <1>2, AppendIs
<1> QED BY <1>3 DEF s, t

(* The first elements of short tuples. *)
LEMMA FirstOfTuples ==
    ASSUME NEW a, NEW b, NEW c, NEW d, NEW e
    PROVE  /\ SubSeq(<<a, b>>, 1, 2) = <<a, b>>
           /\ SubSeq(<<a, b, c>>, 1, 2) = <<a, b>>
           /\ SubSeq(<<a, b, c, d, e>>, 1, 2) = <<a, b>>
           /\ SubSeq(<<a, b, c, d, e>>, 1, 3) = <<a, b, c>>
<1> DEFINE S == {a, b, c, d, e}
           s2 == <<a, b>>
           s3 == <<a, b, c>>
           s5 == <<a, b, c, d, e>>
<1>0. a \in S /\ b \in S /\ c \in S /\ d \in S /\ e \in S
    OBVIOUS
<1> HIDE DEF S
<1>1. /\ s2 \in Seq(S) /\ Len(s2) = 2 /\ s2[1] = a /\ s2[2] = b
      /\ s3 \in Seq(S) /\ Len(s3) = 3 /\ s3[1] = a /\ s3[2] = b /\ s3[3] = c
      /\ s5 \in Seq(S) /\ Len(s5) = 5 /\ s5[1] = a /\ s5[2] = b /\ s5[3] = c
    BY <1>0, Tuples
<1> HIDE DEF s2, s3, s5
<1>2. SubSeq(s2, 1, 2) = s2
    BY <1>1, FirstOf
<1>3. SubSeq(s3, 1, 2) = s2
  <2>1. 2 \in Nat /\ 2 <= Len(s3) /\ \A i \in 1 .. 2 : s2[i] = s3[i]
    BY <1>1
  <2> QED BY <1>1, <2>1, FirstOf
<1>4. SubSeq(s5, 1, 2) = s2
  <2>1. 2 \in Nat /\ 2 <= Len(s5) /\ \A i \in 1 .. 2 : s2[i] = s5[i]
    BY <1>1
  <2> QED BY <1>1, <2>1, FirstOf
<1>5. SubSeq(s5, 1, 3) = s3
  <2>1. 3 \in Nat /\ 3 <= Len(s5) /\ \A i \in 1 .. 3 : s3[i] = s5[i]
    BY <1>1
  <2> QED BY <1>1, <2>1, FirstOf
<1> QED BY <1>2, <1>3, <1>4, <1>5 DEF s2, s3, s5

(* A detector's path with the name of a field. *)
LEMMA ConcatTuples ==
    ASSUME NEW a, NEW b, NEW c, NEW d, NEW e
    PROVE  /\ <<a, b, c>> \o <<d>> = <<a, b, c, d>>
           /\ <<a, b, c>> \o <<d, e>> = <<a, b, c, d, e>>
<1> DEFINE S == {a, b, c, d, e}
           s == <<a, b, c>>
           r == <<d>>
           q == <<d, e>>
           t == <<a, b, c, d>>
           u == <<a, b, c, d, e>>
<1>0. a \in S /\ b \in S /\ c \in S /\ d \in S /\ e \in S
    OBVIOUS
<1> HIDE DEF S
<1>1. /\ s \in Seq(S) /\ Len(s) = 3 /\ s[1] = a /\ s[2] = b /\ s[3] = c
      /\ r \in Seq(S) /\ Len(r) = 1 /\ r[1] = d
      /\ q \in Seq(S) /\ Len(q) = 2 /\ q[1] = d /\ q[2] = e
    BY <1>0, Tuples
<1>2. /\ t \in Seq(S) /\ Len(t) = 4 /\ t[1] = a /\ t[2] = b /\ t[3] = c /\ t[4] = d
      /\ u \in Seq(S) /\ Len(u) = 5 /\ u[1] = a /\ u[2] = b /\ u[3] = c /\ u[4] = d /\ u[5] = e
    BY <1>0, Tuples
<1> HIDE DEF s, r, q, t, u
<1>3. s \o r = t
  <2>1. /\ Len(t) = Len(s) + Len(r) /\ (\A i \in 1 .. Len(s) : t[i] = s[i])
        /\ \A i \in 1 .. Len(r) : t[Len(s) + i] = r[i]
    BY <1>1, <1>2
  <2> QED BY <1>1, <1>2, <2>1, ConcatIs
<1>4. s \o q = u
  <2>1. /\ Len(u) = Len(s) + Len(q) /\ (\A i \in 1 .. Len(s) : u[i] = s[i])
        /\ \A i \in 1 .. Len(q) : u[Len(s) + i] = q[i]
    BY <1>1, <1>2
  <2> QED BY <1>1, <1>2, <2>1, ConcatIs
<1> QED BY <1>3, <1>4 DEF s, r, q, t, u
-----------------------------------------------------------------------------
(* The fields packs leave in a detector. *)
PackFields == {Packs!Image, Packs!Columns, Packs!Irradiance, Packs!CountTime, Packs!SequenceNumber}

(* What a pack may leave in a detector, and the array its plot is of. *)
PackWrites(wrote) ==
    /\ wrote.arrays \cup wrote.values \subseteq PackFields
    /\ wrote.plot # None => /\ wrote.plot \in {Packs!Image, Packs!Irradiance}
                            /\ wrote.plot \in wrote.arrays

(* What each pack writes is what a pack may. *)
LEMMA SpectrometerWritesSo == ASSUME NEW files PROVE PackWrites(Packs!SpectrometerWrites(files))
<1> DEFINE source == Packs!First(files, Packs!IsMeasurement)
<1> HIDE DEF source
<1> QED BY DEF Packs!SpectrometerWrites, Packs!Nothing, Packs!Wrote, PackWrites, PackFields, source

(* A camera's pack writes one field or one plot, as PackWrites says. *)
LEMMA CameraWritesSo == ASSUME NEW files PROVE PackWrites(Packs!CameraWrites(files))
 BY DEF Packs!CameraWrites, Packs!Nothing, Packs!Wrote, PackWrites, PackFields

(* So does the pack of a recording. *)
LEMMA SequenceWritesSo ==
    ASSUME NEW files, NEW seq, NEW s
    PROVE PackWrites(Packs!SequenceWrites(files, seq, s))
 BY DEF Packs!SequenceWrites, Packs!Nothing, Packs!Wrote, PackWrites, PackFields

(* A detector's machine. *)
LEMMA MachineOf ==
    ASSUME NEW m, NEW n
    PROVE  Rules!Parent(<<"entry", m, n>>) = <<"entry", m>>
<1>1. SubSeq(<<"entry", m, n>>, 1, 2) = <<"entry", m>> /\ Len(<<"entry", m, n>>) = 3
    BY FirstOfTuples
<1> QED BY <1>1 DEF Rules!Parent

(* Which paths are below a detector or its machine. *)
LEMMA DeepPrefix ==
    ASSUME NEW a, NEW b, NEW m, NEW n, NEW x, NEW y
    PROVE  Rules!IsPrefix(<<"entry", a, b>>, <<"entry", m, n, x, y>>) <=> a = m /\ b = n
<1>1. /\ Len(<<"entry", a, b>>) = 3 /\ Len(<<"entry", m, n, x, y>>) = 5
      /\ SubSeq(<<"entry", m, n, x, y>>, 1, 3) = <<"entry", m, n>>
    BY FirstOfTuples
<1> QED BY <1>1 DEF Rules!IsPrefix

(* A group of the entry is above a path four names below it when it is that path's own. *)
LEMMA MachinePrefixDeep ==
    ASSUME NEW a, NEW m, NEW n, NEW x, NEW y
    PROVE  Rules!IsPrefix(<<"entry", a>>, <<"entry", m, n, x, y>>) <=> a = m
<1>1. /\ Len(<<"entry", a>>) = 2 /\ Len(<<"entry", m, n, x, y>>) = 5
      /\ SubSeq(<<"entry", m, n, x, y>>, 1, 2) = <<"entry", m>>
    BY FirstOfTuples
<1> QED BY <1>1 DEF Rules!IsPrefix

(* A group of the entry is above a detector when it is its machine. *)
LEMMA MachinePrefix ==
    ASSUME NEW a, NEW m, NEW n
    PROVE  Rules!IsPrefix(<<"entry", a>>, <<"entry", m, n>>) <=> a = m
<1>1. /\ Len(<<"entry", a>>) = 2 /\ Len(<<"entry", m, n>>) = 3
      /\ SubSeq(<<"entry", m, n>>, 1, 2) = <<"entry", m>>
    BY FirstOfTuples
<1> QED BY <1>1 DEF Rules!IsPrefix

(* And of a group of the entry. *)
LEMMA GroupPrefix ==
    ASSUME NEW a, NEW m
    PROVE  Rules!IsPrefix(<<"entry", a>>, <<"entry", m>>) <=> a = m
<1>1. /\ Len(<<"entry", a>>) = 2 /\ Len(<<"entry", m>>) = 2
      /\ SubSeq(<<"entry", m>>, 1, 2) = <<"entry", m>>
    BY FirstOfTuples
<1> QED BY <1>1 DEF Rules!IsPrefix

(* A longer path is not above a shorter one. *)
LEMMA NotPrefix ==
    ASSUME NEW a, NEW b, NEW m
    PROVE  ~ Rules!IsPrefix(<<"entry", a, b>>, <<"entry", m>>)
<1>1. Len(<<"entry", a, b>>) = 3 /\ Len(<<"entry", m>>) = 2
    OBVIOUS
<1> QED BY <1>1 DEF Rules!IsPrefix

-----------------------------------------------------------------------------
(* A container is a tree of paths, each the name of an object in it.       *)
ObjectFields == {"class", "mapped_from", "row", "from", "signal", "definition"}

(* Every path names an object by a path of its own. *)
Sound(c) ==
    /\ {"tree", "objects"} \subseteq DOMAIN c
    /\ <<>> \notin DOMAIN c.tree
    /\ \A p \in DOMAIN c.tree :
          /\ c.tree[p] \in DOMAIN c.tree
          /\ c.tree[c.tree[p]] = c.tree[p]
          /\ c.tree[p] \in DOMAIN c.objects
    /\ \A o \in DOMAIN c.objects : ObjectFields \subseteq DOMAIN c.objects[o]

(* A group's definition is never there without the group. *)
Housed(c) ==
    \A x : <<"entry", x, "definition">> \in DOMAIN c.tree => <<"entry", x>> \in DOMAIN c.tree

(* The only second names packs give are those of what their plots show. *)
PlotsOnly(c) ==
    \A q \in DOMAIN c.tree : c.tree[q] # q =>
        \E m, n, x, y : q = <<"entry", m, n, "data", x>> /\ c.tree[q] = <<"entry", m, n, "raw_data", y>>

(* d is c with objects of their own at the paths of N. *)
Adds(d, c, N) ==
    /\ {"tree", "objects"} \subseteq DOMAIN d
    /\ DOMAIN d.tree = DOMAIN c.tree \cup N
    /\ DOMAIN d.objects = DOMAIN c.objects \cup N
    /\ \A p \in N : d.tree[p] = p
    /\ \A p \in DOMAIN c.tree \ N : d.tree[p] = c.tree[p]
    /\ \A o \in DOMAIN c.objects \ N : d.objects[o] = c.objects[o]
    /\ \A o \in N : ObjectFields \subseteq DOMAIN d.objects[o]

(* Adding objects keeps a container sound, and gives no second name. *)
LEMMA AddsKeeps ==
    ASSUME NEW c, NEW d, NEW N, Sound(c), Adds(d, c, N), <<>> \notin N
    PROVE  Sound(d) /\ (PlotsOnly(c) => PlotsOnly(d))
<1>1. Sound(d)
  <2>1. ASSUME NEW p \in DOMAIN d.tree
        PROVE  /\ d.tree[p] \in DOMAIN d.tree /\ d.tree[d.tree[p]] = d.tree[p]
               /\ d.tree[p] \in DOMAIN d.objects
    <3>1. CASE p \in N
        BY <3>1 DEF Adds
    <3>2. CASE p \in DOMAIN c.tree \ N
        <4>1. d.tree[p] = c.tree[p] /\ c.tree[p] \in DOMAIN c.tree /\ c.tree[c.tree[p]] = c.tree[p]
              /\ c.tree[p] \in DOMAIN c.objects
            BY <3>2 DEF Adds, Sound
        <4>2. CASE c.tree[p] \in N
            BY <4>1, <4>2 DEF Adds
        <4>3. CASE c.tree[p] \notin N
            BY <4>1, <4>3 DEF Adds
        <4> QED BY <4>2, <4>3
    <3> QED BY <3>1, <3>2 DEF Adds
  <2>2. \A o \in DOMAIN d.objects : ObjectFields \subseteq DOMAIN d.objects[o]
    BY DEF Adds, Sound
  <2>3. {"tree", "objects"} \subseteq DOMAIN d /\ <<>> \notin DOMAIN d.tree
    BY DEF Adds, Sound
  <2> QED BY <2>1, <2>2, <2>3 DEF Sound
<1>2. ASSUME PlotsOnly(c) PROVE PlotsOnly(d)
  <2>1. ASSUME NEW q \in DOMAIN d.tree, d.tree[q] # q
        PROVE  q \in DOMAIN c.tree /\ d.tree[q] = c.tree[q]
    BY <2>1 DEF Adds
  <2> QED BY <1>2, <2>1 DEF PlotsOnly
<1> QED BY <1>1, <1>2

(* Added at free paths, they leave the rest as it was. *)
LEMMA AddsExtends ==
    ASSUME NEW c, NEW d, NEW N, Sound(c), Adds(d, c, N), N \cap DOMAIN c.tree = {}
    PROVE  \A p \in DOMAIN c.tree :
              /\ p \in DOMAIN d.tree /\ d.tree[p] = c.tree[p]
              /\ d.objects[c.tree[p]] = c.objects[c.tree[p]]
    BY DEF Adds, Sound

(* What each helper adds. *)
LEMMA CreateAdds ==
    ASSUME NEW c, NEW path, NEW object, Sound(c), ObjectFields \subseteq DOMAIN object
    PROVE  /\ Adds(Rules!Create(c, path, object), c, {path})
           /\ Rules!Create(c, path, object).objects[path] = object
    BY DEF Adds, Rules!Create, Sound

(* An object has the attributes every object has. *)
LEMMA ObjectHas == ASSUME NEW class PROVE ObjectFields \subseteq DOMAIN Rules!Object(class)
    BY DEF ObjectFields, Rules!Object

(* The text of what claims nothing. *)
Blank == ""

(* And the class it was made with. *)
LEMMA ObjectClass ==
    ASSUME NEW class
    PROVE  Rules!Object(class).class = class /\ Rules!Object(class).definition = Blank
    BY DEF Rules!Object, Blank

(* The object of a path is of a class, and claims nothing. *)
MadeAs(c, path, class) == c.objects[path].class = class /\ c.objects[path].definition = Blank

(* Making a group adds paths only, and the group is of its class. *)
LEMMA WithAdds ==
    ASSUME NEW c, NEW path, NEW class, Sound(c)
    PROVE  Adds(With(c, path, class), c, {path}) /\ MadeAs(With(c, path, class), path, class)
<1> DEFINE object == Rules!Object(class)
<1>1. ObjectFields \subseteq DOMAIN object
    BY ObjectHas
<1>4. object.class = class /\ object.definition = Blank
    BY ObjectClass
<1> HIDE DEF object
<1>2. /\ Adds(Rules!Create(c, path, object), c, {path})
      /\ Rules!Create(c, path, object).objects[path] = object
    BY <1>1, CreateAdds
<1>3. With(c, path, class) = Rules!Create(c, path, object)
    BY DEF With, object
<1> QED BY <1>2, <1>3, <1>4 DEF MadeAs

(* The same, of its class alone. *)
LEMMA WithClass ==
    ASSUME NEW c, NEW path, NEW class, Sound(c)
    PROVE  Adds(With(c, path, class), c, {path}) /\ With(c, path, class).objects[path].class = class
    BY WithAdds DEF MadeAs

(* So does making the groups above a path. *)
LEMMA EnsureGroupsAdds ==
    ASSUME NEW c, NEW path, NEW class, Sound(c)
    PROVE  Adds(Rules!EnsureGroups(c, path, class), c, {p \in Rules!Ancestors(path) : p \notin DOMAIN c.tree})
    BY ObjectHas, Zenon DEF Adds, Rules!EnsureGroups, Rules!Holds, Sound

(* The datasets of a detector's fields, and the groups they lack. *)
Datasets(detector, fields) == {detector \o f : f \in fields}
Groups(c, datasets) == UNION {{p \in Rules!Ancestors(d) : p \notin DOMAIN c.tree} : d \in datasets}

(* A field comes with its groups. *)
LEMMA FieldsAdds ==
    ASSUME NEW c, NEW detector, NEW fields, Sound(c)
    PROVE  Adds(Fields(c, detector, fields), c,
                Datasets(detector, fields) \cup Groups(c, Datasets(detector, fields)))
    BY ObjectHas DEF Adds, Fields, Sound, Datasets, Groups

-----------------------------------------------------------------------------
(* A group named definition needs another above it, the rest does not. *)
LEMMA AddsHouses ==
    ASSUME NEW c, NEW d, NEW N, Adds(d, c, N), Housed(c),
           \A x : <<"entry", x, "definition">> \in N => <<"entry", x>> \in DOMAIN c.tree \cup N
    PROVE  Housed(d)
    BY DEF Adds, Housed

(* Above a definition there is its group. *)
LEMMA AncestorsHouse ==
    ASSUME NEW S, NEW path \in Seq(S), NEW x,
           <<"entry", x, "definition">> \in Rules!Ancestors(path) \cup {path}
    PROVE  <<"entry", x>> \in Rules!Ancestors(path)
<1> DEFINE q == <<"entry", x, "definition">>
<1>0. Len(path) \in Nat
    BY LenProperties
<1>1. Len(q) = 3 /\ SubSeq(q, 1, 2) = <<"entry", x>>
    BY FirstOfTuples
<1>2. ASSUME NEW n \in 1 .. (Len(path) - 1), q = SubSeq(path, 1, n)
      PROVE  <<"entry", x>> \in Rules!Ancestors(path)
  <2>1. /\ \A i \in 1 .. n : path[i] \in S
        /\ \A i \in 1 .. 2 : path[i] \in S \/ n < 2
    BY <1>0, ElementOfSeq
  <2>2. Len(SubSeq(path, 1, n)) = n /\ \A i \in 1 .. n : SubSeq(path, 1, n)[i] = path[i]
    <3>1. /\ Len(SubSeq(path, 1, n)) = (IF 1 <= n THEN n - 1 + 1 ELSE 0)
          /\ \A i \in 1 .. n - 1 + 1 : SubSeq(path, 1, n)[i] = path[1 + i - 1]
        BY <2>1, SubSeqProperties
    <3> QED BY <1>0, <3>1
  <2>3. n = 3
    BY <1>1, <1>2, <2>2
  <2>4. SubSeq(path, 1, 2) = SubSeq(q, 1, 2)
    <3>1. SubSeq(path, 1, 2) = SubSeq(SubSeq(path, 1, 3), 1, 2)
      <4> DEFINE u == SubSeq(path, 1, 3)
                 v == SubSeq(path, 1, 2)
      <4>1. /\ u \in Seq(S) /\ Len(u) = 3 /\ \A i \in 1 .. 3 : u[i] = path[i]
        <5>1. /\ u \in Seq(S) /\ Len(u) = (IF 1 <= 3 THEN 3 - 1 + 1 ELSE 0)
              /\ \A i \in 1 .. 3 - 1 + 1 : u[i] = path[1 + i - 1]
            BY <2>1, <2>3, SubSeqProperties
        <5> HIDE DEF u
        <5> QED BY <5>1
      <4>2. /\ v \in Seq(S) /\ Len(v) = 2 /\ \A i \in 1 .. 2 : v[i] = path[i]
        <5>1. /\ v \in Seq(S) /\ Len(v) = (IF 1 <= 2 THEN 2 - 1 + 1 ELSE 0)
              /\ \A i \in 1 .. 2 - 1 + 1 : v[i] = path[1 + i - 1]
            BY <2>1, <2>3, SubSeqProperties
        <5> HIDE DEF v
        <5> QED BY <5>1
      <4> HIDE DEF u, v
      <4>3. SubSeq(u, 1, 2) = v
        <5>1. 2 \in Nat /\ 2 <= Len(u) /\ \A i \in 1 .. 2 : v[i] = u[i]
            BY <4>1, <4>2
        <5> QED BY <4>1, <4>2, <5>1, FirstOf
      <4> QED BY <4>3 DEF u, v
    <3> QED BY <1>2, <2>3, <3>1
  <2>5. 2 \in 1 .. (Len(path) - 1)
    BY <1>0, <2>3
  <2> QED BY <1>1, <2>4, <2>5 DEF Rules!Ancestors
<1>3. CASE path = q
  <2>1. 2 \in 1 .. (Len(path) - 1)
    BY <1>1, <1>3
  <2> QED BY <1>1, <1>3, <2>1 DEF Rules!Ancestors
<1> QED BY <1>2, <1>3 DEF Rules!Ancestors

(* A path is not above itself, and what is above a path has a name. *)
LEMMA AncestorsProper ==
    ASSUME NEW S, NEW path \in Seq(S)
    PROVE  path \notin Rules!Ancestors(path) /\ <<>> \notin Rules!Ancestors(path)
<1>0. Len(path) \in Nat
    BY LenProperties
<1>1. ASSUME NEW n \in 1 .. (Len(path) - 1)
      PROVE  Len(SubSeq(path, 1, n)) = n
  <2>1. \A i \in 1 .. n : path[i] \in S
    BY <1>0, ElementOfSeq
  <2>2. Len(SubSeq(path, 1, n)) = (IF 1 <= n THEN n - 1 + 1 ELSE 0)
    BY <2>1, SubSeqProperties
  <2> QED BY <2>2
<1> QED BY <1>0, <1>1 DEF Rules!Ancestors

-----------------------------------------------------------------------------
(* A detector's place: below a machine, no part of the shot's own fields. *)
IsDetector(path) ==
    \E m, n : m # "start_time" /\ m # "definition" /\ path = <<"entry", m, n>>

(* No machine has the name of the shot's start_time, or of its definition. *)
LEMMA MachineUnreserved ==
    ASSUME NEW i, NEW label
    PROVE  Machine(i, label) # "start_time" /\ Machine(i, label) # "definition"
<1> DEFINE layout == Layout(i, label)
           name == Safe(Or(layout.group, InstrumentName(i, label)))
<1>1. Machine(i, label) = IF name \in RESERVED_ENTRY_NAMES THEN name \o "_instrument" ELSE name
    BY DEF Machine
<1> HIDE DEF name
<1>2. Machine(i, label) \notin RESERVED_ENTRY_NAMES
    BY <1>1, TailAssumption
<1> QED BY <1>2 DEF RESERVED_ENTRY_NAMES

(* Whatever its tail, a detector is below its machine. *)
LEMMA DetectorPathIs == ASSUME NEW tree, NEW p PROVE IsDetector(DetectorPath(tree, p))
<1> DEFINE i == p[2]
           m == Machine(i, acquisitions[p].label)
           machine == <<"entry", m>>
           plain == Append(machine, Detector(i, acquisitions[p].label))
           tailed(n) == Append(machine, Tailed(Detector(i, acquisitions[p].label), Suffix(p), n))
           free == {n \in 1 .. (Cardinality(DOMAIN acquisitions) + 1) : tailed(n) \notin DOMAIN tree}
           picked == CHOOSE n \in free : \A k \in free : n <= k
<1>1. DetectorPath(tree, p) = IF plain \notin DOMAIN tree THEN plain ELSE tailed(picked)
    BY Zenon DEF DetectorPath
<1>2. m # "start_time" /\ m # "definition"
    BY MachineUnreserved
<1> HIDE DEF m, picked
<1>3. \A x : Append(machine, x) = <<"entry", m, x>>
    BY AppendTwo
<1> HIDE DEF machine
<1>4. \E n : plain = <<"entry", m, n>>
    BY <1>3
<1>5. \E n : tailed(picked) = <<"entry", m, n>>
    BY <1>3
<1> HIDE DEF plain, tailed
<1> QED BY <1>1, <1>2, <1>4, <1>5 DEF IsDetector

(* Nothing claims an application definition. *)
Unclaimed(c) == \A p \in DOMAIN c.tree : c.objects[c.tree[p]].definition = Blank

(* Objects that claim nothing change nothing of it. *)
LEMMA AddsUnclaimed ==
    ASSUME NEW c, NEW d, NEW N, Sound(c), Unclaimed(c), Adds(d, c, N),
           \A o \in N : d.objects[o].definition = Blank
    PROVE  Unclaimed(d)
<1>1. ASSUME NEW p \in DOMAIN d.tree PROVE d.objects[d.tree[p]].definition = Blank
  <2>1. CASE p \in N
    BY <2>1 DEF Adds
  <2>2. CASE p \notin N
    <3>1. p \in DOMAIN c.tree /\ d.tree[p] = c.tree[p] /\ c.tree[p] \in DOMAIN c.objects
        BY <2>2 DEF Adds, Sound
    <3>2. c.tree[p] \notin N => d.objects[c.tree[p]] = c.objects[c.tree[p]]
        BY <3>1 DEF Adds
    <3> QED BY <3>1, <3>2 DEF Unclaimed
  <2> QED BY <2>1, <2>2
<1> QED BY <1>1 DEF Unclaimed

(* What a container is like while packs write it. *)
Writable(c) ==
    /\ Sound(c) /\ Housed(c) /\ PlotsOnly(c) /\ Unclaimed(c)
    /\ ShotRow.fired_at => Rules!StartTime \in DOMAIN c.tree

(* Packs go on writing what they may. *)
LEMMA AddsWritable ==
    ASSUME NEW c, NEW d, NEW N, Writable(c), Adds(d, c, N), <<>> \notin N,
           \A x : <<"entry", x, "definition">> \in N => <<"entry", x>> \in DOMAIN c.tree \cup N,
           \A o \in N : d.objects[o].definition = Blank
    PROVE  Writable(d)
<1>1. Sound(d) /\ PlotsOnly(d)
    BY AddsKeeps DEF Writable
<1>2. Housed(d)
    BY AddsHouses DEF Writable
<1>3. ShotRow.fired_at => Rules!StartTime \in DOMAIN d.tree
    BY DEF Adds, Writable
<1>4. Unclaimed(d)
    BY AddsUnclaimed DEF Writable
<1> QED BY <1>1, <1>2, <1>3, <1>4 DEF Writable

(* A group a pack makes leaves the container Writable. *)
LEMMA WithWritable ==
    ASSUME NEW c, NEW path, NEW class, Writable(c), path # <<>>,
           \A x : path = <<"entry", x, "definition">> => <<"entry", x>> \in DOMAIN c.tree
    PROVE  Writable(With(c, path, class)) /\ DOMAIN With(c, path, class).tree = DOMAIN c.tree \cup {path}
<1> DEFINE d == With(c, path, class)
<1>0. Sound(c)
    BY DEF Writable
<1>1. Adds(d, c, {path}) /\ MadeAs(d, path, class)
    BY <1>0, WithAdds
<1> HIDE DEF d
<1>2. Writable(d)
    BY <1>1, AddsWritable DEF MadeAs
<1> USE DEF d
<1> QED BY <1>1, <1>2 DEF Adds

(* Tuples of different lengths differ. *)
LEMMA TuplesDiffer ==
    ASSUME NEW m, NEW n, NEW x, NEW y, NEW z
    PROVE  /\ <<"entry", m>> # <<>> /\ <<"entry", m>> # <<"entry", x, y>>
           /\ <<"entry", m, n>> # <<>> /\ (<<"entry", m, n>> = <<"entry", x, y>> => m = x /\ n = y)
           /\ <<"entry", m, n, z>> # <<>> /\ <<"entry", m, n, z>> # <<"entry", x, y>>
           /\ m # "definition" => <<"entry", m>> # Rules!EntryDefinition
           /\ <<"entry", m, n>> # Rules!EntryDefinition
           /\ <<"entry", m, n, z>> # Rules!EntryDefinition
           /\ <<"entry", m, n, y, z>> # Rules!EntryDefinition
    BY DEF Rules!EntryDefinition

(* The groups of a detector are added to what is there. *)
LEMMA GroupedWritable ==
    ASSUME NEW c, NEW path, Writable(c), IsDetector(path)
    PROVE  Writable(Grouped(c, path))
<1>1. PICK m, n : m # "start_time" /\ m # "definition" /\ path = <<"entry", m, n>>
    BY DEF IsDetector
<1> DEFINE machine == Rules!Parent(path)
           b == With(c, machine, "NXinstrument")
           c1 == IF machine \in DOMAIN c.tree THEN c ELSE With(b, Append(machine, "name"), "data")
           c2 == With(c1, path, "NXdetector")
<1>2. machine = <<"entry", m>>
    BY <1>1, MachineOf
<1>2a. Append(<<"entry", m>>, "name") = <<"entry", m, "name">>
    BY AppendTwo
<1>2b. Append(<<"entry", m, n>>, "local_name") = <<"entry", m, n, "local_name">>
    BY AppendThree
<1>3. Grouped(c, path) = With(c2, Append(path, "local_name"), "data")
    BY Zenon DEF Grouped
<1> HIDE DEF machine
<1>4. Writable(b) /\ DOMAIN b.tree = DOMAIN c.tree \cup {machine}
  <2>1. machine # <<>> /\ \A x : machine # <<"entry", x, "definition">>
    BY <1>1, <1>2, TuplesDiffer
  <2> QED BY <2>1, WithWritable
<1>5. Writable(c1) /\ machine \in DOMAIN c1.tree
  <2>1. /\ Append(machine, "name") # <<>>
        /\ \A x : Append(machine, "name") # <<"entry", x, "definition">>
    BY <1>2, <1>2a
  <2> DEFINE named == Append(machine, "name")
  <2>a. named # <<>> /\ \A x : named # <<"entry", x, "definition">>
    BY <2>1
  <2> HIDE DEF b, named
  <2>2. /\ Writable(With(b, named, "data"))
        /\ DOMAIN With(b, named, "data").tree = DOMAIN b.tree \cup {named}
    BY <1>4, <2>a, WithWritable
  <2>3. CASE machine \in DOMAIN c.tree
    BY <2>3
  <2>4. CASE machine \notin DOMAIN c.tree
    BY <1>4, <2>2, <2>4 DEF named
  <2> QED BY <2>3, <2>4
<1> HIDE DEF c1
<1>6. Writable(c2)
  <2>1. /\ path # <<>>
        /\ \A x : path = <<"entry", x, "definition">> => <<"entry", x>> = machine
    BY <1>1, <1>2, TuplesDiffer
  <2> QED BY <1>5, <2>1, WithWritable
<1> HIDE DEF c2
<1>7. /\ Append(path, "local_name") # <<>>
      /\ \A x : Append(path, "local_name") # <<"entry", x, "definition">>
  <2>1. Append(path, "local_name") = <<"entry", m, n, "local_name">>
    BY <1>1, <1>2b
  <2> QED BY <2>1
<1> DEFINE named == Append(path, "local_name")
<1> HIDE DEF named
<1>8. Writable(With(c2, named, "data"))
    BY <1>6, <1>7, WithWritable DEF named
<1> QED BY <1>3, <1>8 DEF named

(* So is what a kept detector says of its files. *)
LEMMA DescribedWritable ==
    ASSUME NEW c, NEW path, Writable(c), IsDetector(path)
    PROVE  Writable(Described(c, path))
<1>1. PICK m, n : m # "start_time" /\ m # "definition" /\ path = <<"entry", m, n>>
    BY DEF IsDetector
<1>2. Append(<<"entry", m, n>>, "timing_role") = <<"entry", m, n, "timing_role">>
    BY AppendThree
<1>2a. Append(<<"entry", m, n>>, "file_metadata") = <<"entry", m, n, "file_metadata">>
    BY AppendThree
<1>3. /\ Append(path, "timing_role") # <<>>
      /\ \A x : Append(path, "timing_role") # <<"entry", x, "definition">>
      /\ Append(path, "file_metadata") # <<>>
      /\ \A x : Append(path, "file_metadata") # <<"entry", x, "definition">>
    BY <1>1, <1>2, <1>2a
<1> DEFINE b == With(c, Append(path, "timing_role"), "data")
<1>4. Writable(b)
    BY <1>3, WithWritable
<1> HIDE DEF b
<1>5. Writable(With(b, Append(path, "file_metadata"), "NXnote"))
    BY <1>3, <1>4, WithWritable
<1> QED BY <1>5 DEF Described, b

(* The datasets packs write are below their detector, none of them its name. *)
LEMMA DatasetsAre ==
    ASSUME NEW m, NEW n,
           NEW f \in PackFields
    PROVE  \/ \E x : <<"entry", m, n>> \o f = <<"entry", m, n, x>>
           \/ \E x, y : <<"entry", m, n>> \o f = <<"entry", m, n, x, y>>
<1>1. f = <<"count_time">> \/ \E x : f = <<"raw_data", x>>
    BY DEF PackFields, Packs!Image, Packs!Columns, Packs!Irradiance, Packs!CountTime, Packs!SequenceNumber
<1>2. CASE f = <<"count_time">>
  <2>1. <<"entry", m, n>> \o <<"count_time">> = <<"entry", m, n, "count_time">>
    BY ConcatTuples
  <2> QED BY <1>2, <2>1
<1>3. CASE \E x : f = <<"raw_data", x>>
  <2>1. PICK x : f = <<"raw_data", x>>
    BY <1>3
  <2>2. <<"entry", m, n>> \o <<"raw_data", x>> = <<"entry", m, n, "raw_data", x>>
    BY ConcatTuples
  <2> QED BY <2>1, <2>2
<1> QED BY <1>1, <1>2, <1>3

(* A field makes datasets and plain groups. *)
LEMMA FieldsClasses ==
    ASSUME NEW c, NEW detector, NEW fields,
           NEW o \in Datasets(detector, fields) \cup Groups(c, Datasets(detector, fields))
    PROVE  /\ Fields(c, detector, fields).objects[o].class \in {"data", "NXcollection"}
           /\ Fields(c, detector, fields).objects[o].definition = Blank
<1> DEFINE datasets == Datasets(detector, fields)
           groups == Groups(c, datasets)
           e == Fields(c, detector, fields)
<1>1. e = [tree |-> [p \in DOMAIN c.tree \cup (datasets \cup groups) |->
                        IF p \in datasets \cup groups THEN p ELSE c.tree[p]],
           objects |-> [q \in DOMAIN c.objects \cup (datasets \cup groups) |->
                        IF q \in datasets THEN Rules!Object("data")
                        ELSE IF q \in groups THEN Rules!Object("NXcollection") ELSE c.objects[q]]]
    BY Zenon DEF Fields, Datasets, Groups
<1> HIDE DEF datasets, groups, e
<1>2. o \in datasets \cup groups
    BY DEF datasets, groups
<1>3. e.objects[o] \in {Rules!Object("data"), Rules!Object("NXcollection")}
    BY <1>1, <1>2
<1>4. e.objects[o].class \in {"data", "NXcollection"} /\ e.objects[o].definition = Blank
    BY <1>3, ObjectClass
<1> QED BY <1>4 DEF e

(* The fields of a detector are added, each under its own path. *)
LEMMA FieldsWritable ==
    ASSUME NEW c, NEW path, NEW fields, Writable(c), IsDetector(path),
           fields \subseteq PackFields
    PROVE  /\ Writable(Fields(c, path, fields))
           /\ \A f \in fields : path \o f \in DOMAIN Fields(c, path, fields).tree
           /\ \A f \in fields : Fields(c, path, fields).tree[path \o f] = path \o f
<1> DEFINE datasets == Datasets(path, fields)
           N == datasets \cup Groups(c, datasets)
           e == Fields(c, path, fields)
<1>1. Adds(e, c, N)
    BY FieldsAdds DEF Writable
<1>2. PICK m, n : m # "start_time" /\ m # "definition" /\ path = <<"entry", m, n>>
    BY DEF IsDetector
<1>3. ASSUME NEW d \in datasets
      PROVE  /\ (\E x : d = <<"entry", m, n, x>>) \/ (\E x, y : d = <<"entry", m, n, x, y>>)
             /\ \E S : d \in Seq(S)
             /\ d # <<>> /\ \A x : d # <<"entry", x, "definition">>
             /\ <<>> \notin Rules!Ancestors(d)
  <2>1. PICK f \in fields : d = path \o f
    BY DEF Datasets
  <2>a. d = <<"entry", m, n>> \o f
    BY <1>2, <2>1
  <2>b. f \in PackFields
    BY <2>1
  <2>2. (\E x : d = <<"entry", m, n, x>>) \/ (\E x, y : d = <<"entry", m, n, x, y>>)
    <3>1. (\E x : <<"entry", m, n>> \o f = <<"entry", m, n, x>>)
          \/ (\E x, y : <<"entry", m, n>> \o f = <<"entry", m, n, x, y>>)
        BY <2>b, DatasetsAre, Zenon
    <3> QED BY <2>a, <3>1, Zenon
  <2>3. CASE \E x : d = <<"entry", m, n, x>>
    <3>1. PICK x : d = <<"entry", m, n, x>>
        BY <2>3
    <3>2. d \in Seq({"entry", m, n, x})
        BY <3>1
    <3>3. <<>> \notin Rules!Ancestors(d)
        BY <3>2, AncestorsProper
    <3>4. d # <<>> /\ \A z : d # <<"entry", z, "definition">>
        BY <3>1
    <3> QED BY <2>2, <3>2, <3>3, <3>4
  <2>4. CASE \E x, y : d = <<"entry", m, n, x, y>>
    <3>1. PICK x, y : d = <<"entry", m, n, x, y>>
        BY <2>4
    <3>2. d \in Seq({"entry", m, n, x, y})
        BY <3>1
    <3>3. <<>> \notin Rules!Ancestors(d)
        BY <3>2, AncestorsProper
    <3>4. d # <<>> /\ \A z : d # <<"entry", z, "definition">>
        BY <3>1
    <3> QED BY <2>2, <3>2, <3>3, <3>4
  <2> QED BY <2>2, <2>3, <2>4
<1> HIDE DEF datasets, e
<1>4. <<>> \notin N
    BY <1>3 DEF Groups
<1>5. ASSUME NEW x, <<"entry", x, "definition">> \in N
      PROVE  <<"entry", x>> \in DOMAIN c.tree \cup N
  <2> DEFINE q == <<"entry", x, "definition">>
  <2>1. PICK d \in datasets : q \in Rules!Ancestors(d)
    BY <1>3, <1>5 DEF Groups
  <2>2. PICK S : d \in Seq(S)
    BY <1>3
  <2>3. <<"entry", x>> \in Rules!Ancestors(d)
    BY <2>1, <2>2, AncestorsHouse
  <2> QED BY <2>1, <2>3 DEF Groups
<1>5a. \A o \in N : e.objects[o].definition = Blank
    BY FieldsClasses, Zenon DEF e, datasets
<1>6. Writable(e)
    BY <1>1, <1>4, <1>5, <1>5a, AddsWritable
<1>7. \A f \in fields : path \o f \in N
    BY DEF datasets, Datasets
<1>8. \A f \in fields : path \o f \in DOMAIN e.tree /\ e.tree[path \o f] = path \o f
    BY <1>1, <1>7 DEF Adds
<1> QED BY <1>6, <1>8 DEF e

(* A plot's link is the only name packs give a second time. *)
LEMMA PlotWritable ==
    ASSUME NEW c, NEW path, NEW signal, Writable(c), IsDetector(path),
           signal \in {Packs!Image, Packs!Irradiance},
           path \o signal \in DOMAIN c.tree, c.tree[path \o signal] = path \o signal
    PROVE  Writable(Plot(c, path, signal))
<1>1. PICK m, n : m # "start_time" /\ m # "definition" /\ path = <<"entry", m, n>>
    BY DEF IsDetector
<1>2. PICK y : signal = <<"raw_data", y>>
    BY DEF Packs!Image, Packs!Irradiance
<1>3. path \o signal = <<"entry", m, n, "raw_data", y>> /\ signal[Len(signal)] = y
    BY <1>1, <1>2, ConcatTuples
<1> DEFINE data == Append(path, "data")
           source == path \o signal
           object == [Rules!Object("NXdata") EXCEPT !.signal = c.tree[source]]
           made == Rules!Create(c, data, object)
           at_ == Append(data, y)
           d == Rules!HardLink(made, at_, source)
<1>4. data = <<"entry", m, n, "data">> /\ at_ = <<"entry", m, n, "data", y>>
  <2>1. Append(<<"entry", m, n>>, "data") = <<"entry", m, n, "data">>
    BY AppendThree
  <2>2. Append(<<"entry", m, n, "data">>, y) = <<"entry", m, n, "data", y>>
    BY AppendFour
  <2>3. data = <<"entry", m, n, "data">>
    BY <1>1, <2>1
  <2> QED BY <2>2, <2>3
<1>5. Plot(c, path, signal) = d
    BY <1>3 DEF Plot
<1>6. ObjectFields \subseteq DOMAIN object
    BY DEF ObjectFields, Rules!Object
<1>c. object.definition = Blank
    BY DEF Rules!Object, Blank
<1> HIDE DEF object
<1>7. Adds(made, c, {data}) /\ made.objects[data] = object
  <2>1. Sound(c)
    BY DEF Writable
  <2> HIDE DEF data
  <2> QED BY <1>6, <2>1, CreateAdds
<1>a. source = <<"entry", m, n, "raw_data", y>>
    BY <1>3
<1>b. source \in DOMAIN c.tree /\ c.tree[source] = source
    OBVIOUS
<1> HIDE DEF data, made, at_, source
<1>8. data # <<>> /\ (\A x : data # <<"entry", x, "definition">>) /\ data # source /\ at_ # source
      /\ at_ # <<>> /\ (\A x : at_ # <<"entry", x, "definition">>)
    BY <1>a, <1>4
<1>9. Writable(made)
    BY <1>7, <1>8, <1>c, AddsWritable
<1>10. source \in DOMAIN made.tree /\ made.tree[source] = source
    BY <1>7, <1>8, <1>b DEF Adds
<1>10a. \A q \in DOMAIN made.tree : made.tree[q] = at_ => q = at_
  <2> SUFFICES ASSUME NEW q \in DOMAIN made.tree, made.tree[q] = at_, q # at_ PROVE FALSE
    OBVIOUS
  <2>1. PICK z : at_ = z /\ \E a, b, e : z = <<"entry", a, b, "raw_data", e>>
    BY <1>9 DEF Writable, PlotsOnly
  <2> QED BY <1>4, <2>1
<1>11. /\ {"tree", "objects"} \subseteq DOMAIN d
       /\ DOMAIN d.tree = DOMAIN made.tree \cup {at_}
       /\ d.tree[at_] = source
       /\ \A p \in DOMAIN made.tree \ {at_} : d.tree[p] = made.tree[p]
       /\ d.objects = made.objects
    BY <1>9, <1>10 DEF Rules!HardLink, Writable, Sound
<1> HIDE DEF d
<1>12. Sound(d)
  <2>1. ASSUME NEW p \in DOMAIN d.tree
        PROVE  /\ d.tree[p] \in DOMAIN d.tree /\ d.tree[d.tree[p]] = d.tree[p]
               /\ d.tree[p] \in DOMAIN d.objects
    <3>1. CASE p = at_
        BY <1>8, <1>9, <1>10, <1>11, <3>1 DEF Writable, Sound
    <3>2. CASE p \in DOMAIN made.tree \ {at_}
        BY <1>9, <1>10a, <1>11, <3>2 DEF Writable, Sound
    <3> QED BY <1>11, <3>1, <3>2
  <2> QED BY <1>8, <1>9, <1>11, <2>1 DEF Writable, Sound
<1>13. Housed(d)
    BY <1>8, <1>9, <1>11 DEF Writable, Housed
<1>14. PlotsOnly(d)
  <2> SUFFICES ASSUME NEW q \in DOMAIN d.tree, d.tree[q] # q
               PROVE  \E a, b, x, z : q = <<"entry", a, b, "data", x>> /\ d.tree[q] = <<"entry", a, b, "raw_data", z>>
    BY DEF PlotsOnly
  <2>1. CASE q = at_
    BY <1>a, <1>4, <1>11, <2>1
  <2>2. CASE q \in DOMAIN made.tree \ {at_}
    BY <1>9, <1>11, <2>2 DEF Writable, PlotsOnly
  <2> QED BY <1>11, <2>1, <2>2
<1>15. Unclaimed(d)
  <2>1. ASSUME NEW q \in DOMAIN d.tree PROVE d.objects[d.tree[q]].definition = Blank
    <3>1. CASE q = at_
        BY <1>9, <1>10, <1>11, <3>1 DEF Writable, Unclaimed
    <3>2. CASE q # at_
        BY <1>9, <1>11, <3>2 DEF Writable, Unclaimed
    <3> QED BY <3>1, <3>2
  <2> QED BY <2>1 DEF Unclaimed
<1> QED BY <1>5, <1>9, <1>11, <1>12, <1>13, <1>14, <1>15 DEF Writable

(* A pack's fields and its plot. *)
LEMMA FilledWritable ==
    ASSUME NEW c, NEW path, NEW wrote, Writable(c), IsDetector(path), PackWrites(wrote)
    PROVE  Writable(Filled(c, path, wrote))
<1> DEFINE fields == wrote.arrays \cup wrote.values
           c1 == Fields(c, path, fields)
<1>1. /\ Writable(c1)
      /\ \A f \in fields : path \o f \in DOMAIN c1.tree /\ c1.tree[path \o f] = path \o f
  <2>1. fields \subseteq PackFields
    BY DEF PackWrites
  <2> HIDE DEF fields
  <2> QED BY <2>1, FieldsWritable
<1> HIDE DEF c1
<1>2. CASE wrote.plot # None
  <2>1. wrote.plot \in {Packs!Image, Packs!Irradiance} /\ wrote.plot \in fields
    BY <1>2 DEF PackWrites
  <2> HIDE DEF fields
  <2>2. Writable(Plot(c1, path, wrote.plot))
    BY <1>1, <2>1, PlotWritable
  <2> QED BY <1>2, <2>2 DEF Filled, c1, fields
<1>3. CASE wrote.plot = None
    BY <1>1, <1>3 DEF Filled, c1
<1> QED BY <1>2, <1>3

(* A detector left out takes all that is below it, and its second names. *)
LEMMA RemovedWritable ==
    ASSUME NEW c, NEW path, Writable(c), IsDetector(path)
    PROVE  Writable(Removed(c, path))
<1>1. PICK a, b : a # "start_time" /\ a # "definition" /\ path = <<"entry", a, b>>
    BY DEF IsDetector
<1> DEFINE machine == Rules!Parent(path)
           left == {p \in DOMAIN c.tree : ~Rules!IsPrefix(path, p)}
           bare == {p \in left : Rules!Inside(p, machine)} \subseteq {Append(machine, "name")}
           L == IF bare THEN {q \in left : ~Rules!IsPrefix(machine, q)} ELSE left
           d == Removed(c, path)
<1>2. machine = <<"entry", a>>
    BY <1>1, MachineOf
<1>3. d = [c EXCEPT !.tree = [p \in L |-> c.tree[p]]]
    BY Zenon DEF Removed
<1>4. /\ {"tree", "objects"} \subseteq DOMAIN d /\ d.objects = c.objects
      /\ DOMAIN d.tree = L /\ \A p \in L : d.tree[p] = c.tree[p]
    BY <1>3 DEF Writable, Sound
<1> HIDE DEF d
<1>5. \A m, n, x, y : <<"entry", m, n, "data", x>> \in L /\ <<"entry", m, n, "raw_data", y>> \in DOMAIN c.tree
                      => <<"entry", m, n, "raw_data", y>> \in L
  <2> SUFFICES ASSUME NEW m, NEW n, NEW x, NEW y, <<"entry", m, n, "data", x>> \in L,
                      <<"entry", m, n, "raw_data", y>> \in DOMAIN c.tree
               PROVE  <<"entry", m, n, "raw_data", y>> \in L
    OBVIOUS
  <2>1. /\ Rules!IsPrefix(path, <<"entry", m, n, "data", x>>) <=> Rules!IsPrefix(path, <<"entry", m, n, "raw_data", y>>)
        /\ Rules!IsPrefix(machine, <<"entry", m, n, "data", x>>) <=> Rules!IsPrefix(machine, <<"entry", m, n, "raw_data", y>>)
    BY <1>1, <1>2, DeepPrefix, MachinePrefixDeep
  <2> HIDE DEF bare, machine
  <2> QED BY <2>1, Zenon
<1>6. \A x : <<"entry", x, "definition">> \in L /\ <<"entry", x>> \in DOMAIN c.tree => <<"entry", x>> \in L
  <2> SUFFICES ASSUME NEW x, <<"entry", x, "definition">> \in L, <<"entry", x>> \in DOMAIN c.tree
               PROVE  <<"entry", x>> \in L
    OBVIOUS
  <2>1. /\ ~ Rules!IsPrefix(path, <<"entry", x>>)
        /\ Rules!IsPrefix(machine, <<"entry", x, "definition">>) <=> Rules!IsPrefix(machine, <<"entry", x>>)
    BY <1>1, <1>2, NotPrefix, GroupPrefix, MachinePrefix
  <2> HIDE DEF bare, machine
  <2> QED BY <2>1, Zenon
<1>7. <<"entry", "start_time">> \in DOMAIN c.tree => <<"entry", "start_time">> \in L
  <2> SUFFICES ASSUME <<"entry", "start_time">> \in DOMAIN c.tree PROVE <<"entry", "start_time">> \in L
    OBVIOUS
  <2>1. /\ ~ Rules!IsPrefix(path, <<"entry", "start_time">>)
        /\ ~ Rules!IsPrefix(machine, <<"entry", "start_time">>)
    BY <1>1, <1>2, NotPrefix, GroupPrefix, MachinePrefix
  <2> HIDE DEF bare, machine
  <2> QED BY <2>1, Zenon
<1>8. L \subseteq DOMAIN c.tree
    OBVIOUS
<1> HIDE DEF L
<1>9. \A p \in L : c.tree[p] \in L
  <2> SUFFICES ASSUME NEW p \in L, c.tree[p] # p PROVE c.tree[p] \in L
    OBVIOUS
  <2>1. PICK m, n, x, y : p = <<"entry", m, n, "data", x>> /\ c.tree[p] = <<"entry", m, n, "raw_data", y>>
    BY <1>8 DEF Writable, PlotsOnly
  <2>2. c.tree[p] \in DOMAIN c.tree
    BY <1>8 DEF Writable, Sound
  <2> QED BY <1>5, <2>1, <2>2
<1>10. Sound(d)
    BY <1>4, <1>8, <1>9 DEF Writable, Sound
<1>11. Housed(d)
    BY <1>4, <1>6, <1>8 DEF Writable, Housed
<1>12. PlotsOnly(d)
    BY <1>4, <1>8 DEF Writable, PlotsOnly
<1>13. ShotRow.fired_at => Rules!StartTime \in DOMAIN d.tree
    BY <1>4, <1>7 DEF Writable, Rules!StartTime
<1>14. Unclaimed(d)
    BY <1>4, <1>8 DEF Writable, Unclaimed
<1> QED BY <1>10, <1>11, <1>12, <1>13, <1>14 DEF Writable, d

(* The shot's own fields are such a container. *)
LEMMA OpenedWritable == Writable(Opened)
<1> DEFINE c0 == [tree |-> [p \in {Entry} |-> Entry],
                  objects |-> [o \in {Entry} |-> Rules!Object("NXentry")]]
           c1 == With(c0, <<"entry", "title">>, "data")
           c2 == IF ShotRow.fired_at THEN With(c1, <<"entry", "start_time">>, "data") ELSE c1
           c3 == IF ShotRow.labfrog THEN With(c2, <<"entry", "labfrog_shot">>, "NXcollection") ELSE c2
           Started(c) == Sound(c) /\ Housed(c) /\ PlotsOnly(c) /\ Unclaimed(c)
<1>1. Started(c0)
  <2>1. Sound(c0)
    BY ObjectHas DEF Sound, Entry
  <2>2. Housed(c0) /\ PlotsOnly(c0)
    BY DEF Housed, PlotsOnly, Entry
  <2>3. Unclaimed(c0)
    BY DEF Unclaimed, Entry, Rules!Object, Blank
  <2> QED BY <2>1, <2>2, <2>3
<1>2. ASSUME NEW c, NEW x, NEW class, Started(c), x # "definition"
      PROVE  /\ Started(With(c, <<"entry", x>>, class))
             /\ DOMAIN With(c, <<"entry", x>>, class).tree = DOMAIN c.tree \cup {<<"entry", x>>}
  <2> DEFINE path == <<"entry", x>>
  <2>1. path # <<>> /\ \A z : path # <<"entry", z, "definition">>
    OBVIOUS
  <2> HIDE DEF path
  <2> DEFINE d == With(c, path, class)
  <2>2. Adds(d, c, {path}) /\ MadeAs(d, path, class)
    BY <1>2, WithAdds
  <2> HIDE DEF d
  <2>3. Sound(d) /\ PlotsOnly(d)
    BY <1>2, <2>1, <2>2, AddsKeeps
  <2>4. Housed(d)
    BY <1>2, <2>1, <2>2, AddsHouses
  <2>6. \A o \in {path} : d.objects[o].definition = Blank
    BY <2>2 DEF MadeAs
  <2>7. Adds(d, c, {path})
    BY <2>2
  <2>5. Unclaimed(d)
    BY <1>2, <2>6, <2>7, AddsUnclaimed
  <2> QED BY <2>2, <2>3, <2>4, <2>5 DEF Adds, d, path
<1> HIDE DEF Started, c0
<1>3. Started(c1)
    BY <1>1, <1>2
<1> HIDE DEF c1
<1>4. Started(c2) /\ (ShotRow.fired_at => Rules!StartTime \in DOMAIN c2.tree)
    BY <1>2, <1>3 DEF Rules!StartTime
<1> HIDE DEF c2
<1>5. Started(c3) /\ (ShotRow.fired_at => Rules!StartTime \in DOMAIN c3.tree)
    BY <1>2, <1>4
<1>6. Opened = c3
    BY DEF Opened, c0, c1, c2
<1> QED BY <1>5, <1>6 DEF Writable, Started

-----------------------------------------------------------------------------
(* Mapping rows add to a container. *)

(* d has all that c has, at the same paths, and its plots as they are. *)
Follows(d, c) ==
    /\ Sound(d) /\ Housed(d)
    /\ \A p \in DOMAIN c.tree :
          /\ p \in DOMAIN d.tree
          /\ d.tree[p] = c.tree[p]
          /\ d.objects[c.tree[p]].class = c.objects[c.tree[p]].class
          /\ d.objects[c.tree[p]].from = c.objects[c.tree[p]].from
          /\ c.objects[c.tree[p]].signal # <<>> =>
                d.objects[c.tree[p]].signal = c.objects[c.tree[p]].signal

(* Follows is reflexive and transitive, and says no less than Extends. *)
LEMMA FollowsSelf == ASSUME NEW c, Sound(c), Housed(c) PROVE Follows(c, c)
    BY DEF Follows

(* What follows from what followed. *)
LEMMA FollowsOn ==
    ASSUME NEW c, NEW d, NEW e, Follows(d, c), Follows(e, d) PROVE Follows(e, c)
<1>1. ASSUME NEW p \in DOMAIN c.tree
      PROVE  /\ p \in DOMAIN e.tree
             /\ e.tree[p] = c.tree[p]
             /\ e.objects[c.tree[p]].class = c.objects[c.tree[p]].class
             /\ e.objects[c.tree[p]].from = c.objects[c.tree[p]].from
             /\ c.objects[c.tree[p]].signal # <<>> =>
                   e.objects[c.tree[p]].signal = c.objects[c.tree[p]].signal
  <2>1. /\ p \in DOMAIN d.tree /\ d.tree[p] = c.tree[p]
        /\ d.objects[c.tree[p]].class = c.objects[c.tree[p]].class
        /\ d.objects[c.tree[p]].from = c.objects[c.tree[p]].from
        /\ c.objects[c.tree[p]].signal # <<>> =>
              d.objects[c.tree[p]].signal = c.objects[c.tree[p]].signal
    BY DEF Follows
  <2>2. /\ p \in DOMAIN e.tree /\ e.tree[p] = d.tree[p]
        /\ e.objects[d.tree[p]].class = d.objects[d.tree[p]].class
        /\ e.objects[d.tree[p]].from = d.objects[d.tree[p]].from
        /\ d.objects[d.tree[p]].signal # <<>> =>
              e.objects[d.tree[p]].signal = d.objects[d.tree[p]].signal
    BY <2>1 DEF Follows
  <2> QED BY <2>1, <2>2
<1> QED BY <1>1 DEF Follows

(* A container that Follows another Extends it. *)
LEMMA FollowsExtends == ASSUME NEW c, NEW d, Follows(d, c) PROVE Extends(d, c)
    BY DEF Follows, Extends

(* Objects added at free paths take nothing away. *)
LEMMA AddsFollows ==
    ASSUME NEW c, NEW d, NEW N, Sound(c), Housed(c), Adds(d, c, N), N \cap DOMAIN c.tree = {}, <<>> \notin N,
           \A x : <<"entry", x, "definition">> \in N => <<"entry", x>> \in DOMAIN c.tree \cup N
    PROVE  Follows(d, c)
<1>1. Sound(d)
    BY AddsKeeps
<1>2. Housed(d)
    BY AddsHouses
<1>3. \A p \in DOMAIN c.tree :
              /\ p \in DOMAIN d.tree /\ d.tree[p] = c.tree[p]
              /\ d.objects[c.tree[p]] = c.objects[c.tree[p]]
    BY AddsExtends
<1> QED BY <1>1, <1>2, <1>3 DEF Follows

(* A link at a free path, its group above it. *)
LEMMA LinkFollows ==
    ASSUME NEW c, NEW path, NEW source, Sound(c), Housed(c), source \in DOMAIN c.tree,
           path \notin DOMAIN c.tree, path # <<>>,
           \A x : path = <<"entry", x, "definition">> => <<"entry", x>> \in DOMAIN c.tree
    PROVE  /\ Follows(Rules!HardLink(c, path, source), c)
           /\ path \in DOMAIN Rules!HardLink(c, path, source).tree
           /\ Rules!HardLink(c, path, source).tree[path] = c.tree[source]
<1> DEFINE d == Rules!HardLink(c, path, source)
<1>1. /\ {"tree", "objects"} \subseteq DOMAIN d
      /\ DOMAIN d.tree = DOMAIN c.tree \cup {path}
      /\ d.tree[path] = c.tree[source]
      /\ \A p \in DOMAIN c.tree : d.tree[p] = c.tree[p]
      /\ d.objects = c.objects
    BY DEF Rules!HardLink, Sound
<1> HIDE DEF d
<1>2. Sound(d)
    BY <1>1 DEF Sound
<1>3. Housed(d)
    BY <1>1 DEF Housed
<1>4. Follows(d, c)
    BY <1>1, <1>2, <1>3 DEF Follows
<1> QED BY <1>1, <1>4 DEF d

(* d has the tree of c and its objects, marked. *)
Marks(d, c) ==
    /\ {"tree", "objects"} \subseteq DOMAIN d
    /\ d.tree = c.tree
    /\ DOMAIN d.objects = DOMAIN c.objects
    /\ \A o \in DOMAIN c.objects :
          /\ ObjectFields \subseteq DOMAIN d.objects[o]
          /\ d.objects[o].class = c.objects[o].class
          /\ d.objects[o].from = c.objects[o].from
          /\ c.objects[o].signal # <<>> => d.objects[o].signal = c.objects[o].signal

(* A container that is only marked keeps what it has. *)
LEMMA MarksFollows ==
    ASSUME NEW c, NEW d, Sound(c), Housed(c), Marks(d, c) PROVE Follows(d, c)
<1>1. Sound(d)
    BY DEF Sound, Marks
<1>2. Housed(d)
    BY DEF Housed, Marks
<1> QED BY <1>1, <1>2 DEF Follows, Marks, Sound

(* A row's stamp is a mark, and so is a definition on a detector. *)
LEMMA StampMarks ==
    ASSUME NEW c, NEW o, NEW mapping, NEW r, Sound(c) PROVE Marks(Rules!Stamp(c, o, mapping, r), c)
<1> DEFINE d == Rules!Stamp(c, o, mapping, r)
           stamped == [c.objects[o] EXCEPT !.mapped_from = mapping.instrument, !.row = r.name]
<1>1. /\ {"tree", "objects"} \subseteq DOMAIN d /\ d.tree = c.tree
      /\ DOMAIN d.objects = DOMAIN c.objects
      /\ \A p \in DOMAIN c.objects : p # o => d.objects[p] = c.objects[p]
      /\ o \in DOMAIN c.objects => d.objects[o] = stamped
    BY DEF Rules!Stamp, Sound
<1>2. ASSUME o \in DOMAIN c.objects
      PROVE  /\ ObjectFields \subseteq DOMAIN stamped
             /\ stamped.class = c.objects[o].class
             /\ stamped.from = c.objects[o].from
             /\ stamped.signal = c.objects[o].signal
  <2>1. ObjectFields \subseteq DOMAIN c.objects[o]
    BY <1>2 DEF Sound
  <2> QED BY <2>1 DEF ObjectFields
<1> HIDE DEF d, stamped
<1>3. \A p \in DOMAIN c.objects : ObjectFields \subseteq DOMAIN c.objects[p]
    BY DEF Sound
<1>4. Marks(d, c)
    BY <1>1, <1>2, <1>3 DEF Marks
<1> QED BY <1>4 DEF d

(* Stamping one object's definition moves nothing. *)
LEMMA ClaimMarks ==
    ASSUME NEW c, NEW o, NEW definition, Sound(c)
    PROVE  Marks([c EXCEPT !.objects[o].definition = definition], c)
<1> DEFINE d == [c EXCEPT !.objects[o].definition = definition]
           stamped == [c.objects[o] EXCEPT !.definition = definition]
<1>1. /\ {"tree", "objects"} \subseteq DOMAIN d /\ d.tree = c.tree
      /\ DOMAIN d.objects = DOMAIN c.objects
      /\ \A p \in DOMAIN c.objects : p # o => d.objects[p] = c.objects[p]
      /\ o \in DOMAIN c.objects => d.objects[o] = stamped
    BY DEF Sound
<1>2. ASSUME o \in DOMAIN c.objects
      PROVE  /\ ObjectFields \subseteq DOMAIN stamped
             /\ stamped.class = c.objects[o].class
             /\ stamped.from = c.objects[o].from
             /\ stamped.signal = c.objects[o].signal
  <2>1. ObjectFields \subseteq DOMAIN c.objects[o]
    BY <1>2 DEF Sound
  <2> QED BY <2>1 DEF ObjectFields
<1> HIDE DEF d, stamped
<1>3. \A p \in DOMAIN c.objects : ObjectFields \subseteq DOMAIN c.objects[p]
    BY DEF Sound
<1>4. Marks(d, c)
    BY <1>1, <1>2, <1>3 DEF Marks
<1> QED BY <1>4 DEF d

(* A plot's signal is set where there was none. *)
LEMMA MirrorMarks ==
    ASSUME NEW c, NEW detector, Sound(c) PROVE Marks(Rules!MirrorPlot(c, detector), c)
<1> DEFINE d == Rules!MirrorPlot(c, detector)
           plotted == Append(detector, "data")
           signal == IF Rules!Holds(c, plotted) /\ Rules!ClassAt(c, plotted) = "NXdata"
                     THEN c.objects[c.tree[plotted]].signal ELSE <<>>
           groups == {c.tree[p] : p \in {q \in DOMAIN c.tree :
                         /\ Rules!Inside(q, Rules!Subentry(detector))
                         /\ Rules!ClassAt(c, q) = "NXdata"
                         /\ c.objects[c.tree[q]].signal = <<>>
                         /\ \E child \in DOMAIN c.tree :
                               /\ child # <<>> /\ Rules!Parent(child) = q
                               /\ c.tree[child] = signal
                               /\ c.objects[signal].row # ""}}
<1>1. d = IF signal = <<>> THEN c
          ELSE [c EXCEPT !.objects = [o \in DOMAIN c.objects |->
                   IF o \in groups THEN [c.objects[o] EXCEPT !.signal = signal]
                   ELSE c.objects[o]]]
    BY Zenon DEF Rules!MirrorPlot
<1>2. \A o \in groups : c.objects[o].signal = <<>>
    OBVIOUS
<1> HIDE DEF d, signal, groups
<1>3. Marks(c, c)
    BY DEF Marks, Sound
<1>4. ASSUME signal # <<>> PROVE Marks(d, c)
  <2>1. /\ {"tree", "objects"} \subseteq DOMAIN d /\ d.tree = c.tree
        /\ DOMAIN d.objects = DOMAIN c.objects
        /\ \A o \in DOMAIN c.objects \ groups : d.objects[o] = c.objects[o]
        /\ \A o \in DOMAIN c.objects \cap groups : d.objects[o] = [c.objects[o] EXCEPT !.signal = signal]
    BY <1>1, <1>4 DEF Sound
  <2>2. ASSUME NEW o \in DOMAIN c.objects
        PROVE  /\ ObjectFields \subseteq DOMAIN d.objects[o]
               /\ d.objects[o].class = c.objects[o].class
               /\ d.objects[o].from = c.objects[o].from
               /\ c.objects[o].signal # <<>> => d.objects[o].signal = c.objects[o].signal
    <3>1. ObjectFields \subseteq DOMAIN c.objects[o]
        BY DEF Sound
    <3>2. CASE o \in groups
      <4> DEFINE old == c.objects[o]
                 lit == [old EXCEPT !.signal = signal]
      <4>1. d.objects[o] = lit /\ old.signal = <<>>
        BY <1>2, <2>1, <3>2
      <4> HIDE DEF old
      <4>2. ObjectFields \subseteq DOMAIN old
        BY <3>1 DEF old
      <4>3. ObjectFields \subseteq DOMAIN lit /\ lit.class = old.class /\ lit.from = old.from
        BY <4>2 DEF ObjectFields
      <4> HIDE DEF lit
      <4>4. /\ ObjectFields \subseteq DOMAIN d.objects[o]
            /\ d.objects[o].class = old.class
            /\ d.objects[o].from = old.from
            /\ old.signal # <<>> => d.objects[o].signal = old.signal
        BY <4>1, <4>3
      <4> QED BY <4>4 DEF old
    <3>3. CASE o \notin groups
        BY <2>1, <3>1, <3>3
    <3> QED BY <3>2, <3>3
  <2> QED BY <2>1, <2>2 DEF Marks
<1> QED BY <1>1, <1>3, <1>4 DEF d

(* The row stands in c: its target is its source, plots it, or is computed from it. *)
Stands(c, detector, r) ==
    /\ Rules!SourcePath(detector, r) \in DOMAIN c.tree
    /\ r.target \in DOMAIN c.tree
    /\ \/ r.derived = "no" /\ c.tree[r.target] = c.tree[Rules!SourcePath(detector, r)]
       \/ Rules!SignalIs(c, r.target, Rules!SourcePath(detector, r))
       \/ r.derived = "known"
          /\ c.objects[c.tree[r.target]].from = c.tree[Rules!SourcePath(detector, r)]

(* A plot that shows its source goes on showing it. *)
LEMMA SignalStays ==
    ASSUME NEW c, NEW d, NEW target, NEW source, Sound(c), Follows(d, c), Rules!SignalIs(c, target, source)
    PROVE  Rules!SignalIs(d, target, source)
<1>1. /\ target \in DOMAIN c.tree /\ source \in DOMAIN c.tree
      /\ c.objects[c.tree[target]].class = "NXdata"
      /\ c.objects[c.tree[target]].signal = c.tree[source]
    BY DEF Rules!SignalIs, Rules!Holds, Rules!ClassAt
<1>2. c.tree[source] # <<>>
    BY <1>1 DEF Sound
<1>3. /\ target \in DOMAIN d.tree /\ source \in DOMAIN d.tree
      /\ d.tree[target] = c.tree[target] /\ d.tree[source] = c.tree[source]
      /\ d.objects[c.tree[target]].class = "NXdata"
      /\ d.objects[c.tree[target]].signal = c.tree[source]
    BY <1>1, <1>2 DEF Follows
<1> QED BY <1>3 DEF Rules!SignalIs, Rules!Holds, Rules!ClassAt

(* A row that stands goes on standing. *)
LEMMA StandsStays ==
    ASSUME NEW c, NEW d, NEW detector, NEW r, Sound(c), Follows(d, c), Stands(c, detector, r)
    PROVE  Stands(d, detector, r)
<1> DEFINE source == Rules!SourcePath(detector, r)
<1> HIDE DEF source
<1>1. /\ source \in DOMAIN c.tree /\ r.target \in DOMAIN c.tree
      /\ \/ r.derived = "no" /\ c.tree[r.target] = c.tree[source]
         \/ Rules!SignalIs(c, r.target, source)
         \/ r.derived = "known" /\ c.objects[c.tree[r.target]].from = c.tree[source]
    BY DEF Stands, source
<1>2. Rules!SignalIs(c, r.target, source) => Rules!SignalIs(d, r.target, source)
    BY SignalStays
<1>3. /\ source \in DOMAIN d.tree /\ r.target \in DOMAIN d.tree
      /\ d.tree[source] = c.tree[source] /\ d.tree[r.target] = c.tree[r.target]
      /\ d.objects[c.tree[r.target]].from = c.objects[c.tree[r.target]].from
    BY <1>1 DEF Follows
<1> QED BY <1>1, <1>2, <1>3 DEF Stands, source

(* Why a row is refused, and what holds when it is not. *)
LEMMA RefusalTells ==
    ASSUME NEW c, NEW detector, NEW mapping, NEW r
    PROVE  /\ Rules!Refusal(c, detector, mapping, r) = "" =>
                 /\ Rules!SourcePath(detector, r) \in DOMAIN c.tree
                 /\ \/ Rules!InPlace(c, r, Rules!SourcePath(detector, r))
                    \/ r.target \notin DOMAIN c.tree
           /\ Rules!Refusal(c, detector, mapping, r) = "no start_time" =>
                 Rules!StartTime \notin DOMAIN c.tree
<1> DEFINE source == Rules!SourcePath(detector, r)
           in_place == Rules!InPlace(c, r, source)
           stale == Rules!Stale(detector, mapping, r)
           claimed == Rules!InSubentry(detector, mapping, r) /\ Rules!SubentryTaken(c, detector)
           refusal == Rules!Refusal(c, detector, mapping, r)
<1>1. refusal = IF stale THEN "stale placement"
                ELSE IF ~Rules!Holds(c, source) THEN Rules!Absent(source)
                ELSE IF in_place /\ r.shot THEN ""
                ELSE IF ~in_place /\ Rules!Holds(c, r.target) THEN "occupied"
                ELSE IF claimed THEN "subentry taken"
                ELSE ""
    BY Zenon DEF Rules!Refusal
<1>2. Rules!Absent(source) = "no source" \/ (Rules!Absent(source) = "no start_time" /\ source = Rules!StartTime)
    BY DEF Rules!Absent
<1> HIDE DEF source, in_place, stale, claimed, refusal
<1>3. refusal = "" => source \in DOMAIN c.tree /\ (in_place \/ r.target \notin DOMAIN c.tree)
    BY <1>1, <1>2 DEF Rules!Holds
<1>4. refusal = "no start_time" => Rules!StartTime \notin DOMAIN c.tree
    BY <1>1, <1>2 DEF Rules!Holds
<1> QED BY <1>3, <1>4 DEF source, in_place, refusal

(* A row already in place stands. *)
LEMMA InPlaceStands ==
    ASSUME NEW c, NEW detector, NEW r, Rules!InPlace(c, r, Rules!SourcePath(detector, r)),
           Rules!SourcePath(detector, r) \in DOMAIN c.tree
    PROVE  Stands(c, detector, r)
    BY DEF Rules!InPlace, Rules!IsDerived, Stands, Rules!SignalIs, Rules!Holds

(* The subentry and its definition, made together or there already. *)
LEMMA SubentryFollows ==
    ASSUME NEW c, NEW detector, NEW mapping, Sound(c), Housed(c)
    PROVE  Follows(Rules!EnsureSubentry(c, detector, mapping), c)
<1> DEFINE x == Rules!Leaf(detector)
           sub == <<"entry", x>>
           def == <<"entry", x, "definition">>
           group == Rules!Object("NXsubentry")
           object == [Rules!Object("data") EXCEPT !.definition = mapping.definition]
           b == Rules!Create(c, sub, group)
           d == Rules!Create(b, def, object)
<1>1. Rules!Subentry(detector) = sub /\ Append(sub, "definition") = def
    BY AppendTwo DEF Rules!Subentry
<1>2. ObjectFields \subseteq DOMAIN object /\ ObjectFields \subseteq DOMAIN group
    BY DEF ObjectFields, Rules!Object
<1>2a. /\ sub # <<>> /\ def # <<>> /\ sub # def
       /\ \A z : <<"entry", z, "definition">> # sub
       /\ \A z : <<"entry", z, "definition">> = def => <<"entry", z>> = sub
    OBVIOUS
<1>3. CASE sub \notin DOMAIN c.tree
  <2>1. Rules!EnsureSubentry(c, detector, mapping) = d
    BY <1>1, <1>3 DEF Rules!EnsureSubentry, Rules!Holds
  <2>2. def \notin DOMAIN c.tree
    BY <1>3 DEF Housed
  <2> HIDE DEF sub, def, object, group
  <2>3. Adds(b, c, {sub})
    BY <1>2, CreateAdds
  <2>4. Follows(b, c)
    BY <1>2a, <1>3, <2>3, AddsFollows
  <2>5. sub \in DOMAIN b.tree /\ def \notin DOMAIN b.tree
    BY <1>2a, <2>2, <2>3 DEF Adds
  <2> HIDE DEF b
  <2>6. Adds(d, b, {def})
    BY <1>2, <2>4, CreateAdds DEF Follows
  <2>7. Follows(d, b)
    BY <1>2a, <2>4, <2>5, <2>6, AddsFollows DEF Follows
  <2> QED BY <2>1, <2>4, <2>7, FollowsOn
<1>4. CASE sub \in DOMAIN c.tree
    BY <1>1, <1>4, FollowsSelf DEF Rules!EnsureSubentry, Rules!Holds
<1> QED BY <1>3, <1>4

(* The groups above a target, without the target. *)
LEMMA GroupsFollow ==
    ASSUME NEW c, NEW S, NEW path \in Seq(S), NEW class, Sound(c), Housed(c), path \notin DOMAIN c.tree
    PROVE  /\ Follows(Rules!EnsureGroups(c, path, class), c)
           /\ path \notin DOMAIN Rules!EnsureGroups(c, path, class).tree
           /\ Rules!Ancestors(path) \subseteq DOMAIN Rules!EnsureGroups(c, path, class).tree
<1> DEFINE d == Rules!EnsureGroups(c, path, class)
           N == {p \in Rules!Ancestors(path) : p \notin DOMAIN c.tree}
<1>1. Adds(d, c, N)
    BY EnsureGroupsAdds
<1>2. path \notin N /\ <<>> \notin N
    BY AncestorsProper
<1> HIDE DEF d
<1>3. \A x : <<"entry", x, "definition">> \in N => <<"entry", x>> \in DOMAIN c.tree \cup N
    BY AncestorsHouse
<1>4. N \cap DOMAIN c.tree = {} /\ Rules!Ancestors(path) \subseteq DOMAIN c.tree \cup N
    OBVIOUS
<1> HIDE DEF N
<1>5. Follows(d, c)
    BY <1>1, <1>2, <1>3, <1>4, AddsFollows
<1>6. path \notin DOMAIN d.tree /\ Rules!Ancestors(path) \subseteq DOMAIN d.tree
    BY <1>1, <1>2, <1>4 DEF Adds
<1> QED BY <1>5, <1>6 DEF d

(* What is said when a row is not written. *)
SaidOf(says, mapping, r, c) ==
    \E n \in says :
        /\ n.instrument = mapping.instrument
        /\ \/ n.why # "no start_time" /\ n.row = r.name
           \/ n.why = "no start_time" /\ Rules!StartTime \notin DOMAIN c.tree

(* A line of a row that was refused is about that row. *)
LEMMA SaysSo ==
    ASSUME NEW c, NEW mapping, NEW r, NEW why,
           why = "no start_time" => Rules!StartTime \notin DOMAIN c.tree
    PROVE  SaidOf(Rules!Says(mapping, r, why), mapping, r, c)
<1> DEFINE n == [instrument |-> mapping.instrument, row |-> r.name, why |-> why]
<1>1. Rules!Says(mapping, r, why) = {n}
    BY DEF Rules!Says
<1>2. n.instrument = mapping.instrument /\ n.row = r.name /\ n.why = why
    OBVIOUS
<1> HIDE DEF n
<1> QED BY <1>1, <1>2 DEF SaidOf

(* A link or a derived value lands at a free target; nothing else moves. *)
LEMMA PlaceFollows ==
    ASSUME NEW c, NEW detector, NEW mapping, NEW r \in Rules!RowType, NEW in_subentry, Sound(c), Housed(c),
           Rules!SourcePath(detector, r) \in DOMAIN c.tree, r.target \notin DOMAIN c.tree
    PROVE  /\ Follows(Rules!Place(c, mapping, r, Rules!SourcePath(detector, r), in_subentry).c, c)
           /\ \/ Stands(Rules!Place(c, mapping, r, Rules!SourcePath(detector, r), in_subentry).c, detector, r)
              \/ SaidOf(Rules!Place(c, mapping, r, Rules!SourcePath(detector, r), in_subentry).says, mapping, r, c)
<1> DEFINE source == Rules!SourcePath(detector, r)
           done == Rules!Place(c, mapping, r, source, in_subentry)
           b == Rules!EnsureGroups(c, r.target, r.class)
           linked == Rules!HardLink(b, r.target, source)
           object == [Rules!Object("data") EXCEPT !.from = b.tree[source]]
           made == Rules!Create(b, r.target, object)
           linked_s == Rules!Stamp(linked, c.tree[source], mapping, r)
           made_s == Rules!Stamp(made, r.target, mapping, r)
<1>1. /\ r.target \in Seq(STRING) /\ r.target # <<>>
      /\ r.derived \in {"no", "known", "unknown"}
    BY DEF Rules!RowType
<1>2. /\ r.derived = "no" => done.c = linked_s
      /\ r.derived = "known" => done.c = made_s
      /\ r.derived = "unknown" => done.c = b /\ done.says = Rules!Says(mapping, r, "could not be derived")
  <2>1. done = IF ~Rules!IsDerived(r) THEN Rules!Outcome(linked_s, {}, in_subentry)
               ELSE IF r.derived = "known" THEN Rules!Outcome(made_s, {}, in_subentry)
               ELSE Rules!Outcome(b, Rules!Says(mapping, r, "could not be derived"), FALSE)
    BY Zenon DEF Rules!Place, Rules!Derived
  <2> HIDE DEF linked_s, made_s, b, done
  <2> QED BY <2>1 DEF Rules!IsDerived, Rules!Outcome
<1>3. /\ Follows(b, c) /\ r.target \notin DOMAIN b.tree
      /\ Rules!Ancestors(r.target) \subseteq DOMAIN b.tree
    BY <1>1, GroupsFollow
<1>4. Sound(b) /\ Housed(b)
    BY <1>3 DEF Follows
<1>5. source \in DOMAIN b.tree /\ b.tree[source] = c.tree[source]
    BY <1>3 DEF Follows
<1>6. \A x : r.target = <<"entry", x, "definition">> => <<"entry", x>> \in DOMAIN b.tree
    BY <1>1, <1>3, AncestorsHouse
<1>7. ObjectFields \subseteq DOMAIN object /\ object.from = b.tree[source]
    BY DEF ObjectFields, Rules!Object
<1> HIDE DEF source, b, object, done
<1>8. CASE r.derived = "no"
  <2>1. /\ Follows(linked, b) /\ r.target \in DOMAIN linked.tree
        /\ linked.tree[r.target] = b.tree[source]
    BY <1>1, <1>3, <1>4, <1>5, <1>6, LinkFollows
  <2> HIDE DEF linked
  <2>2. Marks(linked_s, linked) /\ Sound(linked) /\ Housed(linked)
    BY <2>1, StampMarks DEF Follows
  <2> HIDE DEF linked_s
  <2>3. Follows(linked_s, linked)
    BY <2>2, MarksFollows
  <2>4. Follows(linked_s, c)
    BY <1>3, <2>1, <2>3, FollowsOn
  <2>5. source \in DOMAIN linked.tree /\ linked.tree[source] = b.tree[source]
    BY <1>5, <2>1 DEF Follows
  <2>6. Stands(linked, detector, r)
    BY <1>8, <2>1, <2>5 DEF Stands, source
  <2>7. Stands(linked_s, detector, r)
    BY <2>2, <2>3, <2>6, StandsStays
  <2> QED BY <1>2, <1>8, <2>4, <2>7 DEF done, source
<1>9. CASE r.derived = "known"
  <2>1. Adds(made, b, {r.target}) /\ made.objects[r.target] = object
    BY <1>4, <1>7, CreateAdds
  <2> HIDE DEF made
  <2>2. Follows(made, b)
    BY <1>1, <1>3, <1>4, <1>6, <2>1, AddsFollows
  <2>3. Marks(made_s, made) /\ Sound(made) /\ Housed(made)
    BY <2>2, StampMarks DEF Follows
  <2> HIDE DEF made_s
  <2>4. Follows(made_s, made)
    BY <2>3, MarksFollows
  <2>5. Follows(made_s, c)
    BY <1>3, <2>2, <2>4, FollowsOn
  <2>6. /\ source \in DOMAIN made.tree /\ made.tree[source] = b.tree[source]
        /\ r.target \in DOMAIN made.tree /\ made.tree[r.target] = r.target
    BY <1>5, <2>1, <2>2 DEF Follows, Adds
  <2>7. Stands(made, detector, r)
    BY <1>7, <1>9, <2>1, <2>6 DEF Stands, source
  <2>8. Stands(made_s, detector, r)
    BY <2>3, <2>4, <2>7, StandsStays
  <2> QED BY <1>2, <1>9, <2>5, <2>8 DEF done, source
<1>10. CASE r.derived = "unknown"
  <2>1. SaidOf(Rules!Says(mapping, r, "could not be derived"), mapping, r, c)
    BY SaysSo
  <2> QED BY <1>2, <1>3, <1>10, <2>1 DEF done, source
<1> QED BY <1>1, <1>8, <1>9, <1>10

(* _write_row only adds, and its row stands or is said. *)
LEMMA WriteRowFollows ==
    ASSUME NEW c, NEW detector, NEW mapping, NEW r \in Rules!RowType, Sound(c), Housed(c)
    PROVE  /\ Follows(Rules!WriteRow(c, detector, mapping, r).c, c)
           /\ \/ Stands(Rules!WriteRow(c, detector, mapping, r).c, detector, r)
              \/ SaidOf(Rules!WriteRow(c, detector, mapping, r).says, mapping, r, c)
<1> DEFINE source == Rules!SourcePath(detector, r)
           refusal == Rules!Refusal(c, detector, mapping, r)
           within == Rules!InSubentry(detector, mapping, r)
           in_place == Rules!InPlace(c, r, source)
           ready == IF within THEN Rules!EnsureSubentry(c, detector, mapping) ELSE c
           blocked == Rules!Blocked(ready, r.target)
           placed == Rules!Place(ready, mapping, r, source, within)
           stamped == Rules!Stamp(ready, c.tree[source], mapping, r)
           done == Rules!WriteRow(c, detector, mapping, r)
<1>1. done = IF refusal # "" THEN Rules!Outcome(c, Rules!Says(mapping, r, refusal), FALSE)
             ELSE IF in_place /\ r.shot THEN Rules!Outcome(c, {}, FALSE)
             ELSE IF in_place THEN Rules!Outcome(stamped, {}, within)
             ELSE IF blocked THEN Rules!Outcome(ready, Rules!Says(mapping, r, "could not link"), FALSE)
             ELSE placed
    BY Zenon DEF Rules!WriteRow
<1>2. Follows(ready, c)
  <2>1. Follows(c, c)
    BY FollowsSelf
  <2>2. Follows(Rules!EnsureSubentry(c, detector, mapping), c)
    BY SubentryFollows
  <2> QED BY <2>1, <2>2, Zenon
<1>3. /\ refusal = "" => source \in DOMAIN c.tree /\ (in_place \/ r.target \notin DOMAIN c.tree)
      /\ refusal = "no start_time" => Rules!StartTime \notin DOMAIN c.tree
    BY RefusalTells
<1> HIDE DEF refusal, ready, within, placed, stamped, done, blocked
<1>4. Sound(ready) /\ Housed(ready)
    BY <1>2 DEF Follows
<1>5. ASSUME refusal # "" PROVE Follows(done.c, c) /\ SaidOf(done.says, mapping, r, c)
  <2>1. done.c = c /\ done.says = Rules!Says(mapping, r, refusal)
    BY <1>1, <1>5 DEF Rules!Outcome
  <2>2. SaidOf(Rules!Says(mapping, r, refusal), mapping, r, c)
    BY <1>3, SaysSo
  <2> QED BY <2>1, <2>2, FollowsSelf
<1>6. ASSUME refusal = "", in_place PROVE Follows(done.c, c) /\ Stands(done.c, detector, r)
  <2>1. Stands(c, detector, r)
    BY <1>3, <1>6, InPlaceStands
  <2>2. Marks(stamped, ready)
    BY <1>4, StampMarks DEF stamped
  <2>3. Follows(stamped, ready)
    BY <1>4, <2>2, MarksFollows
  <2>4. Follows(stamped, c)
    BY <1>2, <2>3, FollowsOn
  <2>5. Follows(c, c)
    BY FollowsSelf
  <2> HIDE DEF in_place
  <2>6. done.c = c \/ done.c = stamped
    BY <1>1, <1>6 DEF Rules!Outcome
  <2>7. Follows(done.c, c)
    BY <2>4, <2>5, <2>6
  <2> QED BY <2>1, <2>7, StandsStays
<1>7. ASSUME refusal = "", ~in_place, blocked
      PROVE  Follows(done.c, c) /\ SaidOf(done.says, mapping, r, c)
  <2> HIDE DEF in_place
  <2>1. done.c = ready /\ done.says = Rules!Says(mapping, r, "could not link")
    BY <1>1, <1>7 DEF Rules!Outcome
  <2>2. SaidOf(Rules!Says(mapping, r, "could not link"), mapping, r, c)
    BY SaysSo
  <2> QED BY <1>2, <2>1, <2>2
<1>8. ASSUME refusal = "", ~in_place, ~blocked
      PROVE  Follows(done.c, c) /\ (Stands(done.c, detector, r) \/ SaidOf(done.says, mapping, r, c))
  <2>1. source \in DOMAIN ready.tree /\ r.target \notin DOMAIN ready.tree
    BY <1>2, <1>3, <1>8 DEF Follows, blocked, Rules!Blocked, Rules!Holds
  <2>2. /\ Follows(placed.c, ready)
        /\ Stands(placed.c, detector, r) \/ SaidOf(placed.says, mapping, r, ready)
    BY <1>4, <2>1, PlaceFollows DEF placed
  <2>3. SaidOf(placed.says, mapping, r, ready) => SaidOf(placed.says, mapping, r, c)
    BY <1>2 DEF SaidOf, Follows
  <2>4. Follows(placed.c, c)
    BY <1>2, <2>2, FollowsOn
  <2> HIDE DEF in_place
  <2>5. done = placed
    BY <1>1, <1>8
  <2> QED BY <2>2, <2>3, <2>4, <2>5
<1>9. /\ Follows(done.c, c)
      /\ Stands(done.c, detector, r) \/ SaidOf(done.says, mapping, r, c)
    BY <1>5, <1>6, <1>7, <1>8
<1> QED BY <1>9 DEF done

(* A detector's own definition is a mark. *)
LEMMA OnDetectorFollows ==
    ASSUME NEW c, NEW detector, NEW mapping, Sound(c), Housed(c)
    PROVE  /\ Follows(Rules!OnDetector(c, detector, mapping), c)
           /\ Rules!OnDetector(c, detector, mapping).tree = c.tree
<1> DEFINE set == [c EXCEPT !.objects[c.tree[detector]].definition = mapping.definition]
<1>1. Marks(set, c)
    BY ClaimMarks
<1> HIDE DEF set
<1>2. Follows(set, c) /\ set.tree = c.tree
    BY <1>1, MarksFollows DEF Marks
<1>3. Follows(c, c)
    BY FollowsSelf
<1>4. Rules!OnDetector(c, detector, mapping) \in {set, c}
    BY DEF Rules!OnDetector, set
<1> QED BY <1>2, <1>3, <1>4

(* The definition is claimed beside what is there. *)
LEMMA ClaimFollows ==
    ASSUME NEW c, NEW detector, NEW mapping, NEW in_subentry, NEW sole, Sound(c), Housed(c)
    PROVE  Follows(Rules!ClaimDefinition(c, detector, mapping, in_subentry, sole).c, c)
<1> DEFINE own == Rules!OnDetector(c, detector, mapping)
           object == [Rules!Object("data") EXCEPT !.definition = mapping.definition]
           mirrored == Rules!MirrorPlot(own, detector)
           claimed == Rules!Create(own, Rules!EntryDefinition, object)
           done == Rules!ClaimDefinition(c, detector, mapping, in_subentry, sole)
<1>1. done.c \in {c, own, mirrored} \/ (done.c = claimed /\ Rules!EntryDefinition \notin DOMAIN c.tree)
    BY DEF Rules!ClaimDefinition, Rules!Outcome, Rules!Holds
<1>2. Follows(c, c)
    BY FollowsSelf
<1>3. Follows(own, c) /\ own.tree = c.tree
    BY OnDetectorFollows
<1>4. own.tree = c.tree
    BY <1>3
<1>5. ObjectFields \subseteq DOMAIN object
    BY DEF ObjectFields, Rules!Object
<1> HIDE DEF own, object, done
<1>6. Sound(own) /\ Housed(own)
    BY <1>3 DEF Follows
<1>7. Follows(mirrored, c)
  <2>1. Marks(mirrored, own)
    BY <1>6, MirrorMarks
  <2> HIDE DEF mirrored
  <2>2. Follows(mirrored, own)
    BY <1>6, <2>1, MarksFollows
  <2> QED BY <1>3, <2>2, FollowsOn
<1>8. Rules!EntryDefinition \notin DOMAIN c.tree => Follows(claimed, c)
  <2> DEFINE path == Rules!EntryDefinition
  <2>1. path # <<>> /\ \A x : path # <<"entry", x, "definition">>
    BY DEF Rules!EntryDefinition
  <2> HIDE DEF path
  <2> SUFFICES ASSUME path \notin DOMAIN c.tree PROVE Follows(claimed, c)
    BY DEF path
  <2>2. Adds(claimed, own, {path})
    BY <1>5, <1>6, CreateAdds DEF path
  <2> HIDE DEF claimed
  <2>3. Follows(claimed, own)
    BY <1>4, <1>6, <2>1, <2>2, AddsFollows
  <2> QED BY <1>3, <2>3, FollowsOn
<1> HIDE DEF mirrored, claimed
<1>9. Follows(done.c, c)
    BY <1>1, <1>2, <1>3, <1>7, <1>8
<1> QED BY <1>9 DEF done

-----------------------------------------------------------------------------
(* The writing of a container. *)

(* What a container is like while mapping rows are applied. *)
Mapped(c) ==
    /\ Sound(c) /\ Housed(c)
    /\ ShotRow.fired_at => Rules!StartTime \in DOMAIN c.tree

(* The container is sound at every step, and the detectors kept are a list. *)
Containers ==
    /\ phase \in {"plan", "write", "frames", "map", "closed"}
    /\ phase \in {"write", "frames"} => Writable(container)
    /\ phase = "frames" => IsDetector(at.path)
    /\ phase \in {"map", "closed"} => Mapped(container)
    /\ row.of \in Nat \ {0} /\ row.n \in Nat \ {0}
    /\ \E S : kept \in Seq(S)

(* What is said of a container is said of it at the next step. *)
LEMMA WritableSame ==
    ASSUME NEW c, Writable(c), UNCHANGED scene, container' = c PROVE Writable(container)'
    BY DEF Writable, Sound, Housed, PlotsOnly, Unclaimed, ObjectFields, ShotRow, Shot

(* A container that is left alone stays Mapped. *)
LEMMA MappedSame ==
    ASSUME NEW c, Mapped(c), UNCHANGED scene, container' = c PROVE Mapped(container)'
    BY DEF Mapped, Sound, Housed, ObjectFields, ShotRow, Shot

(* What the packs leave is what the rows may rely on. *)
LEMMA WritableIsMapped == ASSUME NEW c, Writable(c) PROVE Mapped(c)
    BY DEF Writable, Mapped

(* And what a row leaves is, for the next row. *)
LEMMA FollowsMapped == ASSUME NEW c, NEW d, Mapped(c), Follows(d, c) PROVE Mapped(d)
    BY DEF Mapped, Follows

(* A list with one more is a list. *)
LEMMA ListGrows ==
    ASSUME NEW s, NEW x, \E S : s \in Seq(S) PROVE \E S : Append(s, x) \in Seq(S)
<1>1. PICK S : s \in Seq(S)
    OBVIOUS
<1>2. s \in Seq(S \cup {x}) /\ x \in S \cup {x}
    BY <1>1, SeqMonotonic
<1>3. Append(s, x) \in Seq(S \cup {x})
    BY <1>2, AppendProperties
<1> QED BY <1>3

(* An acquisition that is written leaves the container so, kept or not. *)
LEMMA FinishWrites ==
    ASSUME NEW c, NEW p, NEW path, NEW wrote, NEW says, Writable(c), IsDetector(path), PackWrites(wrote),
           \E S : kept \in Seq(S), Finish(c, p, path, wrote, says)
    PROVE  /\ \E d : container' = d /\ Writable(d)
           /\ \E S : kept' \in Seq(S)
<1> DEFINE filled == Filled(c, path, wrote)
           keeps == Packs!Keeps(wrote)
           d == IF keeps THEN Described(filled, path) ELSE Removed(filled, path)
           kept1 == Append(kept, [path |-> path, instrument |-> p[2], of |-> p])
<1>1. Writable(filled)
    BY FilledWritable
<1>2. /\ container' = d
      /\ kept' = IF keeps THEN kept1 ELSE kept
    BY Zenon DEF Finish
<1> HIDE DEF filled
<1>3. Writable(d)
  <2>1. Writable(Described(filled, path)) /\ Writable(Removed(filled, path))
    BY <1>1, DescribedWritable, RemovedWritable
  <2> QED BY <2>1, Zenon
<1> HIDE DEF d, keeps
<1>4. \E S : kept1 \in Seq(S)
    BY ListGrows
<1> HIDE DEF kept1
<1>5. \E S : kept' \in Seq(S)
  <2>1. CASE keeps
    BY <1>2, <1>4, <2>1
  <2>2. CASE ~ keeps
    BY <1>2, <2>2
  <2> QED BY <2>1, <2>2
<1> QED BY <1>2, <1>3, <1>5

(* The rows of a mapping are rows. *)
LEMMA MappingRowsAre ==
    ASSUME PlanInv, NEW i PROVE MappingOf(i).rows \in Seq(Rules!RowType)
<1>1. scene \in Scenes
    BY DEF PlanInv, Read
<1>2. CASE i \in DOMAIN scene.mappings
    BY <1>1, <1>2, MappingsAssumption DEF MappingOf
<1>3. CASE i \notin DOMAIN scene.mappings
  <2>1. MappingOf(i).rows = <<>>
    BY <1>3 DEF MappingOf
  <2>2. <<>> \in Seq(Rules!RowType)
    BY EmptySeq
  <2> QED BY <2>1, <2>2
<1> QED BY <1>2, <1>3

(* The row being done is one of its mapping's. *)
LEMMA RowDone ==
    ASSUME PlanInv, Containers, MapRow
    PROVE  LET k == row.of
               mapping == MappingOf(kept[k].instrument)
               r == mapping.rows[row.n]
               done == Rules!WriteRow(container, kept[k].path, mapping, r)
           IN  /\ r \in Rules!RowType
               /\ container' = done.c
               /\ row' = [of |-> row.of, n |-> row.n + 1, says |-> row.says \cup done.says]
               /\ UNCHANGED notes
<1> DEFINE k == row.of
           mapping == MappingOf(kept[k].instrument)
           r == mapping.rows[row.n]
           done == Rules!WriteRow(container, kept[k].path, mapping, r)
<1>1. /\ row.n <= Len(mapping.rows) /\ container' = done.c /\ UNCHANGED notes
      /\ row' = [of |-> row.of, n |-> row.n + 1, says |-> row.says \cup done.says]
    BY Zenon DEF MapRow
<1>2. mapping.rows \in Seq(Rules!RowType)
    BY MappingRowsAre
<1>3. Len(mapping.rows) \in Nat
    BY <1>2, LenProperties
<1>4. row.n \in 1 .. Len(mapping.rows)
    BY <1>1, <1>3 DEF Containers
<1>5. r \in Rules!RowType
    BY <1>2, <1>4, ElementOfSeq
<1> QED BY <1>1, <1>5

(* What a mapping does to the container only adds to it. *)
LEMMA MappingStep ==
    ASSUME PlanInv, Containers, MapRow \/ EndMapping \/ ClaimRaises PROVE \E d : container' = d /\ Follows(d, container)
<1>1. Sound(container) /\ Housed(container)
    BY DEF Containers, MapRow, EndMapping, ClaimRaises, NextMapping, Mapped
<1>2. CASE MapRow
  <2> DEFINE k == row.of
             mapping == MappingOf(kept[k].instrument)
             r == mapping.rows[row.n]
             done == Rules!WriteRow(container, kept[k].path, mapping, r)
  <2>1. r \in Rules!RowType /\ container' = done.c
    BY <1>2, RowDone, Zenon
  <2>2. Follows(done.c, container)
    BY <1>1, <2>1, WriteRowFollows
  <2> QED BY <2>1, <2>2, Zenon
<1>3. CASE EndMapping
  <2> DEFINE detector == kept[row.of]
             mapping == MappingOf(detector.instrument)
             done == Rules!ClaimDefinition(container, detector.path, mapping, inside, Sole)
  <2>1. container' = done.c
    BY <1>3, Zenon DEF EndMapping
  <2>2. Follows(done.c, container)
    BY <1>1, ClaimFollows
  <2> QED BY <2>1, <2>2, Zenon
<1>4. CASE ClaimRaises
  <2> DEFINE detector == kept[row.of]
             d == Rules!OnDetector(container, detector.path, MappingOf(detector.instrument))
  <2>1. container' = d
    BY <1>4, Zenon DEF ClaimRaises
  <2>2. Follows(d, container)
    BY <1>1, OnDetectorFollows
  <2> QED BY <2>1, <2>2, Zenon
<1> QED BY <1>2, <1>3, <1>4

(* Packs write, rows add: the container stays sound from its opening on. *)
LEMMA WritingStep == PlanInv /\ Settled /\ Containers /\ [Next]_vars => Containers'
<1> SUFFICES ASSUME PlanInv, Settled, Containers, [Next]_vars PROVE Containers'
    OBVIOUS
<1>1. CASE phase = "plan" /\ ~ Open
  <2>1. UNCHANGED <<phase, row, kept>>
    BY <1>1 DEF Next, vars, writeVars, WriteAcquisition, OpenRecording, StreamFrame, FinishRecording,
                StartMapping, MapRow, EndMapping, ClaimRaises, NextMapping, Close
  <2> QED BY <1>1, <2>1 DEF Containers
<1>2. CASE Open
  <2>1. phase' = "write" /\ container' = Opened /\ UNCHANGED <<scene, row, kept>>
    BY <1>2 DEF Open, planVars
  <2>2. Writable(container)'
    BY <2>1, OpenedWritable, WritableSame
  <2> QED BY <2>1, <2>2 DEF Containers
<1> SUFFICES ASSUME phase # "plan" PROVE Containers'
    BY <1>1, <1>2
<1>3. UNCHANGED planVars /\ ~ PlanNext
    BY PlanStands DEF Settled, Planned, PlanNext, ReadSlice, TakeRow
<1>4. UNCHANGED scene
    BY <1>3 DEF planVars
<1>5. CASE UNCHANGED vars
  <2>1. UNCHANGED <<phase, container, at, row, kept>>
    BY <1>5 DEF vars, writeVars
  <2>2. Writable(container) => Writable(container)'
    BY <1>4, <2>1, WritableSame
  <2>3. Mapped(container) => Mapped(container)'
    BY <1>4, <2>1, MappedSame
  <2> QED BY <2>1, <2>2, <2>3 DEF Containers
<1>6. ASSUME NEW p \in Planning, WriteAcquisition(p) PROVE Containers'
  <2> DEFINE path == DetectorPath(container.tree, p)
             files == SortedFiles(p)
             pack == acquisitions[p].pack
             wrote == CASE pack = Camera -> Packs!CameraWrites(files)
                        [] pack = Spectrometer -> Packs!SpectrometerWrites(files)
                        [] OTHER -> Packs!SequenceWrites(files, acquisitions[p].seq, Packs!EmptyStack)
             c == Grouped(container, path)
  <2>1. /\ phase = "write" /\ UNCHANGED <<phase, at, row>>
        /\ Finish(c, p, path, wrote, Missing(files))
    BY <1>6, Zenon DEF WriteAcquisition
  <2>2. PackWrites(wrote)
    <3>1. /\ PackWrites(Packs!CameraWrites(files))
          /\ PackWrites(Packs!SpectrometerWrites(files))
          /\ PackWrites(Packs!SequenceWrites(files, acquisitions[p].seq, Packs!EmptyStack))
        BY CameraWritesSo, SpectrometerWritesSo, SequenceWritesSo
    <3> HIDE DEF files, pack
    <3>2. wrote \in {Packs!CameraWrites(files), Packs!SpectrometerWrites(files),
                     Packs!SequenceWrites(files, acquisitions[p].seq, Packs!EmptyStack)}
        OBVIOUS
    <3> HIDE DEF wrote
    <3> QED BY <3>1, <3>2
  <2>3. IsDetector(path)
    BY DetectorPathIs
  <2> HIDE DEF path, files, wrote
  <2>4. Writable(c)
    BY <2>1, <2>3, GroupedWritable DEF Containers
  <2> HIDE DEF c
  <2>5. (\E d : container' = d /\ Writable(d)) /\ (\E S : kept' \in Seq(S))
    BY <2>1, <2>2, <2>3, <2>4, FinishWrites DEF Containers
  <2>6. Writable(container)'
    BY <1>4, <2>5, WritableSame
  <2> QED BY <2>1, <2>5, <2>6 DEF Containers
<1>7. ASSUME NEW p \in Planning, OpenRecording(p) PROVE Containers'
  <2> DEFINE path == DetectorPath(container.tree, p)
             c == Grouped(container, path)
  <2>1. /\ phase = "write" /\ phase' = "frames" /\ UNCHANGED <<row, kept>>
        /\ at' = [of |-> p, path |-> path]
        /\ container' = c
    BY <1>7, Zenon DEF OpenRecording
  <2>2. IsDetector(path)
    BY DetectorPathIs
  <2> HIDE DEF path
  <2>3. Writable(c)
    BY <2>1, <2>2, GroupedWritable DEF Containers
  <2> HIDE DEF c
  <2>4. Writable(container)'
    BY <1>4, <2>1, <2>3, WritableSame
  <2>5. IsDetector(at.path)'
    BY <2>1, <2>2 DEF IsDetector
  <2> QED BY <2>1, <2>4, <2>5 DEF Containers
<1>8. CASE StreamFrame
  <2>1. phase = "frames" /\ UNCHANGED <<phase, container, at, row, kept>>
    BY <1>8 DEF StreamFrame
  <2>2. Writable(container)'
    BY <1>4, <2>1, WritableSame DEF Containers
  <2> QED BY <2>1, <2>2 DEF Containers
<1>9. CASE FinishRecording
  <2> DEFINE files == SortedFiles(at.of)
             wrote == Packs!SequenceWrites(files, acquisitions[at.of].seq, stack)
  <2>1. /\ phase = "frames" /\ phase' = "write" /\ UNCHANGED row
        /\ Finish(container, at.of, at.path, wrote, Missing(files))
    BY <1>9, Zenon DEF FinishRecording
  <2>2. PackWrites(wrote)
    BY SequenceWritesSo
  <2> HIDE DEF files, wrote
  <2>3. (\E d : container' = d /\ Writable(d)) /\ (\E S : kept' \in Seq(S))
    BY <2>1, <2>2, FinishWrites DEF Containers
  <2>4. Writable(container)'
    BY <1>4, <2>3, WritableSame
  <2> QED BY <2>1, <2>3, <2>4 DEF Containers
<1>10. CASE StartMapping
  <2>1. phase = "write" /\ phase' = "map" /\ row' = [of |-> 1, n |-> 1, says |-> {}]
        /\ UNCHANGED <<container, kept>>
    BY <1>10 DEF StartMapping
  <2>2. Mapped(container)'
    BY <1>4, <2>1, WritableIsMapped, MappedSame DEF Containers
  <2> QED BY <2>1, <2>2 DEF Containers
<1>11. CASE Close
  <2>1. phase = "map" /\ phase' = "closed" /\ UNCHANGED <<container, row, kept>>
    BY <1>11 DEF Close
  <2>2. Mapped(container)'
    BY <1>4, <2>1, MappedSame DEF Containers
  <2> QED BY <2>1, <2>2 DEF Containers
<1>12. CASE MapRow \/ EndMapping \/ ClaimRaises
  <2>1. /\ phase = "map" /\ UNCHANGED <<phase, kept>>
        /\ \E says : \/ row' = [of |-> row.of, n |-> row.n + 1, says |-> says]
                     \/ row' = [of |-> row.of + 1, n |-> 1, says |-> says]
    BY <1>12 DEF MapRow, EndMapping, ClaimRaises, NextMapping
  <2>2. row'.of \in Nat \ {0} /\ row'.n \in Nat \ {0}
    BY <2>1 DEF Containers
  <2>3. PICK d : container' = d /\ Follows(d, container)
    BY <1>12, MappingStep
  <2>4. Mapped(d)
    BY <2>1, <2>3, FollowsMapped DEF Containers
  <2>5. Mapped(container)'
    BY <1>4, <2>3, <2>4, MappedSame
  <2> QED BY <2>1, <2>2, <2>5 DEF Containers
<1> QED BY <1>3, <1>5, <1>6, <1>7, <1>8, <1>9, <1>10, <1>11, <1>12 DEF Next, Open

-----------------------------------------------------------------------------
(* A row that was done stands in the container or was said. *)
Done(k, n) == k < row.of \/ (k = row.of /\ n < row.n)

(* What was said of a row before the container is closed. *)
Told(mapping, r, said) ==
    \E n \in said :
        /\ n.instrument = mapping.instrument
        /\ \/ n.why # "no start_time" /\ (n.row = r.name \/ n.why = "mapping failed")
           \/ n.why = "no start_time" /\ ~ ShotRow.fired_at

(* Where it was said: by the mapping being applied, or by those before. *)
Said(k) == IF k = row.of THEN row.says ELSE notes

(* The rows that apply to a kept detector. *)
RowsOf(k) == MappingOf(kept[k].instrument).rows

(* Every row done so far stands in the container or was said. *)
SoFar ==
    phase = "map" =>
        \A k \in DOMAIN kept : \A n \in DOMAIN RowsOf(k) :
            Done(k, n) => \/ Stands(container, kept[k].path, RowsOf(k)[n])
                          \/ Told(MappingOf(kept[k].instrument), RowsOf(k)[n], Said(k))

(* The row being done stands or is said; the others stay as they were. *)
LEMMA SoFarStep == PlanInv /\ Settled /\ Containers /\ SoFar /\ [Next]_vars => SoFar'
<1> SUFFICES ASSUME PlanInv, Settled, Containers, SoFar, [Next]_vars, phase' = "map",
                    NEW k \in DOMAIN kept', NEW n \in DOMAIN RowsOf(k)', Done(k, n)'
             PROVE  \/ Stands(container', kept'[k].path, RowsOf(k)'[n])
                    \/ Told(MappingOf(kept[k].instrument), RowsOf(k)[n], Said(k))'
    BY DEF SoFar
<1>1. PICK S : kept \in Seq(S)
    BY DEF Containers
<1>2. Len(kept) \in Nat /\ DOMAIN kept = 1 .. Len(kept)
    BY <1>1, LenProperties
<1>3. MappingOf(kept[k].instrument).rows \in Seq(Rules!RowType)
    BY MappingRowsAre
<1>4. /\ Len(RowsOf(k)) \in Nat /\ DOMAIN RowsOf(k) = 1 .. Len(RowsOf(k))
    BY <1>3, LenProperties DEF RowsOf
<1>5. ASSUME phase = "map", UNCHANGED <<planVars, kept>>
      PROVE  /\ k \in DOMAIN kept /\ n \in DOMAIN RowsOf(k)
             /\ RowsOf(k)' = RowsOf(k)
             /\ MappingOf(kept[k].instrument)' = MappingOf(kept[k].instrument)
             /\ ShotRow' = ShotRow
    BY <1>5 DEF planVars, RowsOf, MappingOf, ShotRow, Shot
<1>6. CASE StartMapping
  <2>1. row' = [of |-> 1, n |-> 1, says |-> {}] /\ UNCHANGED <<planVars, kept>>
    BY <1>6 DEF StartMapping
  <2>2. RowsOf(k)' = RowsOf(k)
    BY <2>1 DEF planVars, RowsOf, MappingOf
  <2>3. k \in Nat \ {0} /\ n \in Nat \ {0}
    BY <1>2, <1>4, <2>1, <2>2
  <2> QED BY <2>1, <2>3 DEF Done
<1>7. ASSUME phase = "map", UNCHANGED <<planVars, kept>>, Done(k, n), Said(k) \subseteq Said(k)',
             \E d : container' = d /\ Follows(d, container)
      PROVE  \/ Stands(container', kept'[k].path, RowsOf(k)'[n])
             \/ Told(MappingOf(kept[k].instrument), RowsOf(k)[n], Said(k))'
  <2>1. /\ k \in DOMAIN kept /\ n \in DOMAIN RowsOf(k)
        /\ RowsOf(k)' = RowsOf(k)
        /\ MappingOf(kept[k].instrument)' = MappingOf(kept[k].instrument)
        /\ ShotRow' = ShotRow
    BY <1>5, <1>7
  <2>2. \/ Stands(container, kept[k].path, RowsOf(k)[n])
        \/ Told(MappingOf(kept[k].instrument), RowsOf(k)[n], Said(k))
    BY <1>7, <2>1 DEF SoFar
  <2>3. Sound(container)
    BY <1>7 DEF Containers, Mapped
  <2>4. Stands(container, kept[k].path, RowsOf(k)[n]) => Stands(container', kept[k].path, RowsOf(k)[n])
    <3>1. PICK d : container' = d /\ Follows(d, container)
        BY <1>7
    <3>2. Stands(container, kept[k].path, RowsOf(k)[n]) => Stands(d, kept[k].path, RowsOf(k)[n])
        BY <2>3, <3>1, StandsStays
    <3> QED BY <3>1, <3>2
  <2>5. Told(MappingOf(kept[k].instrument), RowsOf(k)[n], Said(k)) => Told(MappingOf(kept[k].instrument), RowsOf(k)[n], Said(k))'
    BY <1>7, <2>1 DEF Told
  <2> QED BY <1>7, <2>1, <2>2, <2>4, <2>5
<1>8. CASE MapRow
  <2> DEFINE mapping == MappingOf(kept[row.of].instrument)
             r == mapping.rows[row.n]
             done == Rules!WriteRow(container, kept[row.of].path, mapping, r)
  <2>1. /\ phase = "map" /\ UNCHANGED <<planVars, kept>>
    BY <1>8 DEF MapRow
  <2>2. /\ r \in Rules!RowType /\ container' = done.c /\ UNCHANGED notes
        /\ row' = [of |-> row.of, n |-> row.n + 1, says |-> row.says \cup done.says]
    BY <1>8, RowDone, Zenon
  <2>3. CASE Done(k, n)
    <3>1. \E d : container' = d /\ Follows(d, container)
        BY <1>8, MappingStep
    <3>2. Said(k) \subseteq Said(k)'
        BY <2>2 DEF Said
    <3> QED BY <1>7, <2>1, <2>3, <3>1, <3>2
  <2>4. CASE k = row.of /\ n = row.n
    <3>0. /\ RowsOf(k)' = RowsOf(k) /\ ShotRow' = ShotRow
          /\ MappingOf(kept[k].instrument)' = MappingOf(kept[k].instrument)
        BY <1>5, <2>1
    <3>1. Sound(container) /\ Housed(container) /\ (ShotRow.fired_at => Rules!StartTime \in DOMAIN container.tree)
        BY <2>1 DEF Containers, Mapped
    <3>2. \/ Stands(done.c, kept[row.of].path, r)
          \/ SaidOf(done.says, mapping, r, container)
        BY <2>2, <3>1, WriteRowFollows
    <3>3. mapping = MappingOf(kept[k].instrument) /\ r = RowsOf(k)[n]
        BY <2>4 DEF RowsOf
    <3> HIDE DEF done, mapping, r
    <3>4. SaidOf(done.says, mapping, r, container) =>
            \E x \in Said(k)' :
                /\ x.instrument = mapping.instrument
                /\ \/ x.why # "no start_time" /\ x.row = r.name
                   \/ x.why = "no start_time" /\ ~ ShotRow.fired_at
      <4>1. done.says \subseteq Said(k)'
        BY <2>2, <2>4 DEF Said
      <4> QED BY <3>1, <4>1 DEF SaidOf
    <3>5. SaidOf(done.says, mapping, r, container) => Told(MappingOf(kept[k].instrument), RowsOf(k)[n], Said(k))'
        BY <3>0, <3>3, <3>4 DEF Told
    <3>6. kept' = kept /\ kept[row.of] = kept[k]
        BY <2>1, <2>4
    <3> QED BY <2>2, <3>0, <3>2, <3>3, <3>5, <3>6
  <2>5. k \in Nat /\ n \in Nat
    BY <1>2, <1>4, <1>5, <2>1
  <2>6. row.of \in Nat /\ row.n \in Nat /\ row'.of = row.of /\ row'.n = row.n + 1
    BY <2>2 DEF Containers
  <2>7. Done(k, n) \/ (k = row.of /\ n = row.n)
    BY <2>5, <2>6 DEF Done
  <2> QED BY <2>3, <2>4, <2>7
<1>9. CASE EndMapping \/ ClaimRaises
  <2> DEFINE mapping == MappingOf(kept[row.of].instrument)
  <2>1. /\ phase = "map" /\ UNCHANGED <<planVars, kept>>
        /\ row' = [of |-> row.of + 1, n |-> 1, says |-> {}]
        /\ row.n > Len(mapping.rows)
        /\ notes \subseteq notes'
    BY <1>9 DEF EndMapping, ClaimRaises, NextMapping
  <2>2. \E d : container' = d /\ Follows(d, container)
    BY <1>9, MappingStep
  <2>3. k \in 1 .. Len(kept) /\ n \in 1 .. Len(RowsOf(k))
    BY <1>2, <1>4, <1>5, <2>1
  <2>4. row.of \in Nat /\ row.n \in Nat
    BY DEF Containers
  <2>5. Done(k, n) /\ k <= row.of
    BY <1>2, <1>4, <2>1, <2>3, <2>4 DEF Done, RowsOf
  <2>6. Said(k)' = notes'
    BY <2>1, <2>3, <2>4, <2>5 DEF Said
  <2>7. CASE k # row.of \/ EndMapping
    <3>1. Said(k) \subseteq notes'
        BY <2>1, <2>7 DEF Said, EndMapping
    <3> QED BY <1>7, <2>1, <2>2, <2>5, <2>6, <3>1
  <2>8. CASE k = row.of /\ ClaimRaises
    <3> DEFINE failed == [instrument |-> mapping.instrument, row |-> "", why |-> "mapping failed"]
    <3>1. failed \in notes'
        BY <2>8 DEF ClaimRaises
    <3>2. failed.instrument = mapping.instrument /\ failed.why = "mapping failed"
        OBVIOUS
    <3>3. mapping = MappingOf(kept[k].instrument) /\ MappingOf(kept[k].instrument)' = mapping
        BY <1>5, <2>1, <2>8
    <3> HIDE DEF failed, mapping
    <3> QED BY <2>6, <3>1, <3>2, <3>3 DEF Told
  <2> QED BY <1>9, <2>7, <2>8
<1>10. CASE UNCHANGED vars \/ (PlanNext /\ UNCHANGED writeVars)
  <2>1. phase = "map" /\ UNCHANGED <<kept, container, notes, row>>
    BY <1>10 DEF vars, writeVars
  <2>2. UNCHANGED planVars
    BY <2>1, PlanStands
  <2>3. \E d : container' = d /\ Follows(d, container)
    BY <2>1, FollowsSelf DEF Containers, Mapped
  <2>4. Done(k, n)
    BY <2>1 DEF Done
  <2>5. Said(k)' = Said(k)
    BY <2>1 DEF Said
  <2> QED BY <1>7, <2>1, <2>2, <2>3, <2>4, <2>5
<1>11. CASE Open \/ StreamFrame \/ FinishRecording \/ Close
    BY <1>11 DEF Open, StreamFrame, FinishRecording, Close
<1>12. CASE \E p \in Planning : WriteAcquisition(p) \/ OpenRecording(p)
    BY <1>12 DEF WriteAcquisition, OpenRecording, Containers
<1> QED BY <1>6, <1>8, <1>9, <1>10, <1>11, <1>12 DEF Next

(* Once closed, what could not be written is said, start_time once for all. *)
LEMMA CloseAccounts ==
    ASSUME PlanInv, Containers, SoFar, Close PROVE RowsAccounted'
<1>1. /\ phase = "map" /\ UNCHANGED <<planVars, container, kept>> /\ row.of > Len(kept)
      /\ notes' = IF ShotRow.fired_at THEN notes ELSE OneLineForStartTime(notes)
    BY DEF Close
<1>2. PICK S : kept \in Seq(S)
    BY DEF Containers
<1>3. Len(kept) \in Nat /\ DOMAIN kept = 1 .. Len(kept) /\ row.of \in Nat
    BY <1>2, LenProperties DEF Containers
<1>4. SUFFICES ASSUME NEW k \in DOMAIN kept, NEW n \in DOMAIN RowsOf(k)
               PROVE  \/ Landed(kept[k].path, RowsOf(k)[n])'
                      \/ Reported(MappingOf(kept[k].instrument), RowsOf(k)[n])'
    BY <1>1 DEF RowsAccounted, RowsOf, MappingOf, planVars
<1>5. Done(k, n) /\ Said(k) = notes
    BY <1>1, <1>3 DEF Done, Said
<1>6. /\ RowsOf(k)' = RowsOf(k)
      /\ MappingOf(kept[k].instrument)' = MappingOf(kept[k].instrument)
    BY <1>1 DEF RowsOf, MappingOf, planVars
<1> DEFINE mapping == MappingOf(kept[k].instrument)
           r == RowsOf(k)[n]
<1>7. Stands(container, kept[k].path, r) \/ Told(mapping, r, notes)
    BY <1>1, <1>5 DEF SoFar
<1>8. Stands(container, kept[k].path, r) => Landed(kept[k].path, r)'
  <2>1. container' = container /\ kept' = kept /\ r' = r
    BY <1>1, <1>6
  <2> HIDE DEF r
  <2> QED BY <2>1 DEF Stands, Landed
<1>9. Told(mapping, r, notes) => Reported(mapping, r)'
  <2> SUFFICES ASSUME Told(mapping, r, notes)
               PROVE  \E x \in notes' :
                        \/ /\ x.why # "no start_time" /\ x.instrument = mapping.instrument
                           /\ x.row = r.name \/ x.why = "mapping failed"
                        \/ x.why = "no start_time" /\ mapping.instrument \in x.instruments
    BY <1>6 DEF Reported
  <2> HIDE DEF mapping, r
  <2>1. PICK x \in notes :
            /\ x.instrument = mapping.instrument
            /\ \/ x.why # "no start_time" /\ (x.row = r.name \/ x.why = "mapping failed")
               \/ x.why = "no start_time" /\ ~ ShotRow.fired_at
    BY DEF Told
  <2>2. CASE ShotRow.fired_at
    BY <1>1, <2>1, <2>2
  <2>3. CASE ~ ShotRow.fired_at
    <3> DEFINE missing == {y \in notes : y.why = "no start_time"}
               line == [instruments |-> {y.instrument : y \in missing}, row |-> "start_time",
                        why |-> "no start_time"]
    <3>1. notes' = IF missing = {} THEN notes ELSE (notes \ missing) \cup {line}
        BY <1>1, <2>3 DEF OneLineForStartTime
    <3>2. CASE x \in missing
      <4>1. line \in notes' /\ line.why = "no start_time" /\ x.instrument \in line.instruments
        BY <3>1, <3>2
      <4> HIDE DEF line
      <4> QED BY <2>1, <4>1
    <3>3. CASE x \notin missing
      <4>1. x \in notes' /\ x.why # "no start_time"
        BY <3>1, <3>3
      <4> QED BY <2>1, <4>1
    <3> QED BY <3>2, <3>3
  <2> QED BY <2>2, <2>3
<1> QED BY <1>7, <1>8, <1>9

(* Closed, nothing changes any more. *)
LEMMA AccountedStep ==
    PlanInv /\ Settled /\ Containers /\ SoFar /\ RowsAccounted /\ [Next]_vars => RowsAccounted'
<1> SUFFICES ASSUME PlanInv, Settled, Containers, SoFar, RowsAccounted, [Next]_vars, phase' = "closed"
             PROVE  RowsAccounted'
    BY DEF RowsAccounted
<1>1. CASE Close
    BY <1>1, CloseAccounts
<1>2. CASE UNCHANGED vars \/ (PlanNext /\ UNCHANGED writeVars)
  <2>1. phase = "closed" /\ UNCHANGED writeVars
    BY <1>2 DEF vars, writeVars
  <2>2. UNCHANGED planVars
    BY <2>1, PlanStands
  <2>3. UNCHANGED <<phase, container, kept, notes, scene>>
    BY <2>1, <2>2 DEF writeVars, planVars
  <2>4. \A i : MappingOf(i)' = MappingOf(i)
    BY <2>3 DEF MappingOf
  <2>5. \A detector, r : Landed(detector, r)' = Landed(detector, r)
    BY <2>3, Zenon DEF Landed
  <2>6. \A mapping, r : Reported(mapping, r)' = Reported(mapping, r)
    BY <2>3, Zenon DEF Reported
  <2> QED BY <2>1, <2>3, <2>4, <2>5, <2>6 DEF RowsAccounted
<1>3. CASE Open \/ StreamFrame \/ FinishRecording \/ StartMapping \/ MapRow \/ EndMapping \/ ClaimRaises
    BY <1>3 DEF Open, StreamFrame, FinishRecording, StartMapping, MapRow, EndMapping, ClaimRaises, NextMapping
<1>4. CASE \E p \in Planning : WriteAcquisition(p) \/ OpenRecording(p)
    BY <1>4 DEF WriteAcquisition, OpenRecording
<1> QED BY <1>1, <1>2, <1>3, <1>4 DEF Next

(* The invariant of the whole writing. *)
ContainerInv == PlanInv /\ Settled /\ Containers /\ SoFar /\ RowsAccounted

(* Every step keeps the invariant, *)
LEMMA ContainerStep == ContainerInv /\ [Next]_vars => ContainerInv'
    BY PlanStep, SettledStays, WritingStep, SoFarStep, AccountedStep DEF ContainerInv

(* which holds before anything is read. *)
LEMMA InitContainer == Init => ContainerInv
<1> SUFFICES ASSUME Init PROVE ContainerInv
    OBVIOUS
<1>1. PlanInv
    BY InitPlan DEF Init
<1>2. kept \in Seq({})
    BY EmptySeq DEF Init
<1>3. Containers
    BY <1>2 DEF Init, Containers
<1>4. Settled /\ SoFar /\ RowsAccounted
    BY DEF Init, Settled, SoFar, RowsAccounted
<1> QED BY <1>1, <1>3, <1>4 DEF ContainerInv

(* When a container is closed, every mapping row of every detector in it   *)
(* stands in it or is in its mapping_problems, the start_time rows of a shot*)
(* without one in one line (mapping_rows.py: apply_to, hzdr_containers.py: *)
(* _apply_mapping_rows, _one_line_for_start_time).                         *)
THEOREM EveryRowIsAccounted == Spec => []RowsAccounted
<1>1. ContainerInv => RowsAccounted
    BY DEF ContainerInv
<1> QED BY <1>1, InitContainer, ContainerStep, PTL DEF Spec

(* Applying mapping rows (mapping_rows.py: apply_to) takes nothing from what*)
(* the packs wrote: a path goes on naming the same object, of the same class*)
(* and value.                                                              *)
THEOREM MappingAddsOnly == Spec => MappingOnlyAdds
<1>1. ContainerInv /\ [Next]_vars => [phase = "map" => Extends(container', container)]_vars
  <2> SUFFICES ASSUME ContainerInv, [Next]_vars, phase = "map" PROVE Extends(container', container)
    OBVIOUS
  <2>1. CASE MapRow \/ EndMapping \/ ClaimRaises
    <3>1. PICK d : container' = d /\ Follows(d, container)
        BY <2>1, MappingStep DEF ContainerInv
    <3> QED BY <3>1, FollowsExtends
  <2>2. CASE UNCHANGED container
    BY <2>2 DEF Extends
  <2>3. UNCHANGED container \/ MapRow \/ EndMapping \/ ClaimRaises
    BY DEF Next, vars, writeVars, Open, StreamFrame, FinishRecording, StartMapping, Close,
           WriteAcquisition, OpenRecording
  <2> QED BY <2>1, <2>2, <2>3
<1> QED BY <1>1, InitContainer, ContainerStep, PTL DEF Spec, MappingOnlyAdds

-----------------------------------------------------------------------------
(* Application definitions. *)

(* What is kept are detectors of the shot's acquisitions. *)
KeptDetectors ==
    /\ phase = "plan" => kept = <<>> /\ DOMAIN container.tree = {}
    /\ phase = "frames" => at.of \in Planning
    /\ \A k \in DOMAIN kept :
          IsDetector(kept[k].path) /\ \E p \in Planning : kept[k].instrument = p[2]

(* What an object claims. *)
TextOf(c, o) == c.objects[o].definition

(* d has the paths of c, and claims no definition that c does not. *)
ClaimsNoMore(d, c) ==
    /\ \A p \in DOMAIN c.tree : p \in DOMAIN d.tree /\ d.tree[p] = c.tree[p]
    /\ \A p \in DOMAIN d.tree : TextOf(d, d.tree[p]) # Blank =>
          \E q \in DOMAIN c.tree :
              /\ c.tree[q] = d.tree[p]
              /\ TextOf(c, c.tree[q]) = TextOf(d, d.tree[p])

(* What is claimed is what the mappings of the detectors kept claim. *)
ClaimsFit(c) ==
    \A p \in DOMAIN c.tree : TextOf(c, c.tree[p]) # Blank =>
        ClaimStands(c, c.tree[p], TextOf(c, c.tree[p]))

(* A claim that stands goes on standing while paths are only added. *)
LEMMA StandsOn ==
    ASSUME NEW c, NEW d, NEW o, NEW definition, ClaimStands(c, o, definition),
           \A p \in DOMAIN c.tree : p \in DOMAIN d.tree /\ d.tree[p] = c.tree[p]
    PROVE  ClaimStands(d, o, definition)
    BY DEF ClaimStands

(* What claims no more than what fits does too. *)
LEMMA FitsStill == ASSUME NEW c, NEW d, ClaimsFit(c), ClaimsNoMore(d, c) PROVE ClaimsFit(d)
<1> SUFFICES ASSUME NEW p \in DOMAIN d.tree, TextOf(d, d.tree[p]) # Blank
             PROVE  ClaimStands(d, d.tree[p], TextOf(d, d.tree[p]))
    BY DEF ClaimsFit
<1>1. PICK q \in DOMAIN c.tree :
         /\ c.tree[q] = d.tree[p]
         /\ TextOf(c, c.tree[q]) = TextOf(d, d.tree[p])
    BY DEF ClaimsNoMore
<1>2. ClaimStands(c, d.tree[p], TextOf(d, d.tree[p]))
    BY <1>1 DEF ClaimsFit
<1>3. \A z \in DOMAIN c.tree : z \in DOMAIN d.tree /\ d.tree[z] = c.tree[z]
    BY DEF ClaimsNoMore
<1> QED BY <1>2, <1>3, StandsOn

(* The same tree, its objects of the same definitions. *)
SameClaims(d, c) ==
    /\ d.tree = c.tree
    /\ \A o \in DOMAIN c.objects : TextOf(d, o) = TextOf(c, o)

(* It claims the same. *)
LEMMA SameClaimsNoMore ==
    ASSUME NEW c, NEW d, Sound(c), SameClaims(d, c) PROVE ClaimsNoMore(d, c)
    BY DEF Sound, SameClaims, ClaimsNoMore

(* A row's stamp is no claim, *)
LEMMA StampClaims ==
    ASSUME NEW c, NEW o, NEW mapping, NEW r, Sound(c) PROVE SameClaims(Rules!Stamp(c, o, mapping, r), c)
<1> DEFINE d == Rules!Stamp(c, o, mapping, r)
           stamped == [c.objects[o] EXCEPT !.mapped_from = mapping.instrument, !.row = r.name]
<1>1. /\ d.tree = c.tree
      /\ \A p \in DOMAIN c.objects : p # o => d.objects[p] = c.objects[p]
      /\ o \in DOMAIN c.objects => d.objects[o] = stamped
    BY DEF Rules!Stamp, Sound
<1>2. ASSUME o \in DOMAIN c.objects
      PROVE  stamped.definition = TextOf(c, o)
  <2>1. ObjectFields \subseteq DOMAIN c.objects[o]
    BY <1>2 DEF Sound
  <2> QED BY <2>1 DEF ObjectFields, TextOf
<1> HIDE DEF d, stamped
<1>3. SameClaims(d, c)
    BY <1>1, <1>2 DEF SameClaims, TextOf
<1> QED BY <1>3 DEF d

(* nor is the signal of a plot. *)
LEMMA MirrorClaims ==
    ASSUME NEW c, NEW detector, Sound(c) PROVE SameClaims(Rules!MirrorPlot(c, detector), c)
<1> DEFINE d == Rules!MirrorPlot(c, detector)
           plotted == Append(detector, "data")
           signal == IF Rules!Holds(c, plotted) /\ Rules!ClassAt(c, plotted) = "NXdata"
                     THEN c.objects[c.tree[plotted]].signal ELSE <<>>
           groups == {c.tree[p] : p \in {q \in DOMAIN c.tree :
                         /\ Rules!Inside(q, Rules!Subentry(detector))
                         /\ Rules!ClassAt(c, q) = "NXdata"
                         /\ c.objects[c.tree[q]].signal = <<>>
                         /\ \E child \in DOMAIN c.tree :
                               /\ child # <<>> /\ Rules!Parent(child) = q
                               /\ c.tree[child] = signal
                               /\ c.objects[signal].row # ""}}
<1>1. d = IF signal = <<>> THEN c
          ELSE [c EXCEPT !.objects = [o \in DOMAIN c.objects |->
                   IF o \in groups THEN [c.objects[o] EXCEPT !.signal = signal]
                   ELSE c.objects[o]]]
    BY Zenon DEF Rules!MirrorPlot
<1> HIDE DEF d, signal, groups
<1>2. SameClaims(c, c)
    BY DEF SameClaims
<1>3. ASSUME signal # <<>> PROVE SameClaims(d, c)
  <2>1. /\ d.tree = c.tree
        /\ \A o \in DOMAIN c.objects \ groups : d.objects[o] = c.objects[o]
        /\ \A o \in DOMAIN c.objects \cap groups : d.objects[o] = [c.objects[o] EXCEPT !.signal = signal]
    BY <1>1, <1>3 DEF Sound
  <2>2. ASSUME NEW o \in DOMAIN c.objects
        PROVE  TextOf(d, o) = TextOf(c, o)
    <3>1. ObjectFields \subseteq DOMAIN c.objects[o]
        BY DEF Sound
    <3> DEFINE old == c.objects[o]
               lit == [old EXCEPT !.signal = signal]
    <3>2. lit.definition = old.definition
      <4>1. ObjectFields \subseteq DOMAIN old
        BY <3>1
      <4> HIDE DEF old
      <4> QED BY <4>1 DEF ObjectFields
    <3>3. d.objects[o] \in {old, lit}
        BY <2>1
    <3> HIDE DEF lit
    <3> QED BY <3>2, <3>3 DEF TextOf
  <2> QED BY <2>1, <2>2 DEF SameClaims
<1> QED BY <1>1, <1>2, <1>3 DEF d

(* Objects that claim nothing, at free paths. *)
LEMMA AddsClaims ==
    ASSUME NEW c, NEW d, NEW N, Sound(c), Adds(d, c, N), N \cap DOMAIN c.tree = {},
           \A o \in N : TextOf(d, o) = Blank
    PROVE  ClaimsNoMore(d, c)
<1>1. \A p \in DOMAIN c.tree :
         /\ p \in DOMAIN d.tree /\ d.tree[p] = c.tree[p]
         /\ TextOf(d, c.tree[p]) = TextOf(c, c.tree[p])
    BY AddsExtends DEF TextOf
<1>2. ASSUME NEW p \in DOMAIN d.tree, TextOf(d, d.tree[p]) # Blank PROVE p \in DOMAIN c.tree
  <2>1. p \in N => d.tree[p] = p
    BY DEF Adds
  <2>2. p \in DOMAIN c.tree \cup N
    BY DEF Adds
  <2> QED BY <1>2, <2>1, <2>2
<1> QED BY <1>1, <1>2 DEF ClaimsNoMore

(* One object at a free path, whose claim stands. *)
LEMMA ClaimingFits ==
    ASSUME NEW c, NEW d, NEW path, Sound(c), ClaimsFit(c), Adds(d, c, {path}), path \notin DOMAIN c.tree,
           ClaimStands(d, path, TextOf(d, path))
    PROVE  ClaimsFit(d)
<1>1. \A p \in DOMAIN c.tree :
         /\ p \in DOMAIN d.tree /\ d.tree[p] = c.tree[p]
         /\ TextOf(d, c.tree[p]) = TextOf(c, c.tree[p])
    BY AddsExtends DEF TextOf
<1> SUFFICES ASSUME NEW p \in DOMAIN d.tree, TextOf(d, d.tree[p]) # Blank
             PROVE  ClaimStands(d, d.tree[p], TextOf(d, d.tree[p]))
    BY DEF ClaimsFit
<1>2. CASE p = path
    BY <1>2 DEF Adds
<1>3. CASE p # path
  <2>1. p \in DOMAIN c.tree
    BY <1>3 DEF Adds
  <2>2. ClaimStands(c, d.tree[p], TextOf(d, d.tree[p]))
    BY <1>1, <2>1 DEF ClaimsFit
  <2>3. \A z \in DOMAIN c.tree : z \in DOMAIN d.tree /\ d.tree[z] = c.tree[z]
    BY <1>1
  <2> QED BY <2>2, <2>3, StandsOn
<1> QED BY <1>2, <1>3

(* A second name claims what the first does. *)
LEMMA LinkClaims ==
    ASSUME NEW c, NEW path, NEW source, Sound(c), source \in DOMAIN c.tree, path \notin DOMAIN c.tree
    PROVE  ClaimsNoMore(Rules!HardLink(c, path, source), c)
<1> DEFINE d == Rules!HardLink(c, path, source)
<1>1. /\ DOMAIN d.tree = DOMAIN c.tree \cup {path}
      /\ d.tree[path] = c.tree[source]
      /\ \A p \in DOMAIN c.tree : d.tree[p] = c.tree[p]
      /\ d.objects = c.objects
    BY DEF Rules!HardLink, Sound
<1> HIDE DEF d
<1>3. \A o : TextOf(d, o) = TextOf(c, o)
    BY <1>1 DEF TextOf
<1>2. ClaimsNoMore(d, c)
    BY <1>1, <1>3 DEF ClaimsNoMore
<1> QED BY <1>2 DEF d

(* The subentry a row needs claims its own detector's definition. *)
LEMMA SubentryFits ==
    ASSUME NEW c, NEW k \in DOMAIN kept, Sound(c), Housed(c), ClaimsFit(c)
    PROVE  ClaimsFit(Rules!EnsureSubentry(c, kept[k].path, MappingOf(kept[k].instrument)))
<1> DEFINE detector == kept[k].path
           mapping == MappingOf(kept[k].instrument)
           x == Rules!Leaf(detector)
           sub == <<"entry", x>>
           def == <<"entry", x, "definition">>
           group == Rules!Object("NXsubentry")
           object == [Rules!Object("data") EXCEPT !.definition = mapping.definition]
           b == Rules!Create(c, sub, group)
           d == Rules!Create(b, def, object)
<1>1. Rules!Subentry(detector) = sub /\ Append(sub, "definition") = def
    BY AppendTwo DEF Rules!Subentry
<1>2. ObjectFields \subseteq DOMAIN group /\ ObjectFields \subseteq DOMAIN object
    BY DEF ObjectFields, Rules!Object
<1>6. group.definition = Blank /\ object.definition = mapping.definition
    BY DEF Rules!Object, Blank
<1>3. sub # <<>> /\ sub # def
    OBVIOUS
<1>4. CASE sub \in DOMAIN c.tree
    BY <1>1, <1>4 DEF Rules!EnsureSubentry, Rules!Holds
<1>5. CASE sub \notin DOMAIN c.tree
  <2>1. Rules!EnsureSubentry(c, detector, mapping) = d
    BY <1>1, <1>5 DEF Rules!EnsureSubentry, Rules!Holds
  <2>2. def \notin DOMAIN c.tree
    BY <1>5 DEF Housed
  <2>3. Append(Rules!Subentry(kept[k].path), "definition") = def
        /\ object.definition = MappingOf(kept[k].instrument).definition
    BY <1>1, <1>6
  <2>10. group.definition = Blank
    BY <1>6
  <2> HIDE DEF sub, def, group, object
  <2>4. Adds(b, c, {sub}) /\ b.objects[sub] = group
    BY <1>2, CreateAdds
  <2> HIDE DEF b
  <2>11. <<>> \notin {sub} /\ def \notin {sub}
    BY <1>3
  <2>5. Sound(b) /\ def \notin DOMAIN b.tree
    <3>1. Sound(b)
        BY <2>4, <2>11, AddsKeeps
    <3>2. DOMAIN b.tree = DOMAIN c.tree \cup {sub}
        BY <2>4 DEF Adds
    <3> QED BY <2>2, <2>11, <3>1, <3>2
  <2>6. ClaimsFit(b)
    <3>2. \A o \in {sub} : TextOf(b, o) = Blank
        BY <2>4, <2>10 DEF TextOf
    <3>1. ClaimsNoMore(b, c)
        BY <1>5, <2>4, <3>2, AddsClaims
    <3> QED BY <3>1, FitsStill
  <2>7. Adds(d, b, {def}) /\ d.objects[def] = object
    BY <1>2, <2>5, CreateAdds
  <2> HIDE DEF d
  <2>8. ClaimStands(d, def, TextOf(d, def))
    <3>1. TextOf(d, def) = MappingOf(kept[k].instrument).definition
        BY <2>3, <2>7 DEF TextOf
    <3> QED BY <2>3, <3>1, Zenon DEF ClaimStands
  <2>9. ClaimsFit(d)
    BY <2>5, <2>6, <2>7, <2>8, ClaimingFits
  <2> QED BY <2>1, <2>9
<1> QED BY <1>4, <1>5

(* The groups above a target claim nothing. *)
LEMMA GroupsClaim ==
    ASSUME NEW c, NEW path, NEW class, Sound(c)
    PROVE  ClaimsNoMore(Rules!EnsureGroups(c, path, class), c)
<1> DEFINE d == Rules!EnsureGroups(c, path, class)
           N == {p \in Rules!Ancestors(path) : p \notin DOMAIN c.tree}
           made(p) == IF p = Rules!Parent(path) THEN class ELSE "NXcollection"
<1>1. Adds(d, c, N)
    BY EnsureGroupsAdds
<1>2. \A o \in N : d.objects[o] = Rules!Object(made(o))
    BY Zenon DEF Rules!EnsureGroups, Rules!Holds
<1> HIDE DEF d, made
<1>3. \A o \in N : TextOf(d, o) = Blank
    BY <1>2, ObjectClass DEF TextOf
<1>4. N \cap DOMAIN c.tree = {}
    OBVIOUS
<1> HIDE DEF N
<1>5. ClaimsNoMore(d, c)
    BY <1>1, <1>3, <1>4, AddsClaims
<1> QED BY <1>5 DEF d

(* What a row puts at its target claims nothing. *)
LEMMA PlaceFits ==
    ASSUME NEW c, NEW detector, NEW mapping, NEW r \in Rules!RowType, NEW in_subentry, Sound(c), Housed(c),
           ClaimsFit(c), Rules!SourcePath(detector, r) \in DOMAIN c.tree, r.target \notin DOMAIN c.tree
    PROVE  ClaimsFit(Rules!Place(c, mapping, r, Rules!SourcePath(detector, r), in_subentry).c)
<1> DEFINE source == Rules!SourcePath(detector, r)
           done == Rules!Place(c, mapping, r, source, in_subentry)
           b == Rules!EnsureGroups(c, r.target, r.class)
           linked == Rules!HardLink(b, r.target, source)
           object == [Rules!Object("data") EXCEPT !.from = b.tree[source]]
           made == Rules!Create(b, r.target, object)
           linked_s == Rules!Stamp(linked, c.tree[source], mapping, r)
           made_s == Rules!Stamp(made, r.target, mapping, r)
<1>1. /\ r.target \in Seq(STRING) /\ r.target # <<>>
      /\ r.derived \in {"no", "known", "unknown"}
    BY DEF Rules!RowType
<1>2. /\ r.derived = "no" => done.c = linked_s
      /\ r.derived = "known" => done.c = made_s
      /\ r.derived = "unknown" => done.c = b
  <2>1. done = IF ~Rules!IsDerived(r) THEN Rules!Outcome(linked_s, {}, in_subentry)
               ELSE IF r.derived = "known" THEN Rules!Outcome(made_s, {}, in_subentry)
               ELSE Rules!Outcome(b, Rules!Says(mapping, r, "could not be derived"), FALSE)
    BY Zenon DEF Rules!Place, Rules!Derived
  <2> HIDE DEF linked_s, made_s, b, done
  <2> QED BY <2>1 DEF Rules!IsDerived, Rules!Outcome
<1>3. /\ Follows(b, c) /\ r.target \notin DOMAIN b.tree
      /\ Rules!Ancestors(r.target) \subseteq DOMAIN b.tree
    BY <1>1, GroupsFollow
<1>4. ClaimsFit(b)
  <2>1. ClaimsNoMore(b, c)
    BY GroupsClaim
  <2> HIDE DEF b
  <2> QED BY <2>1, FitsStill
<1>5. Sound(b) /\ Housed(b) /\ source \in DOMAIN b.tree
    BY <1>3 DEF Follows
<1>6. ObjectFields \subseteq DOMAIN object
    BY DEF ObjectFields, Rules!Object
<1>11. object.definition = Blank
    BY DEF Rules!Object, Blank
<1>7. \A x : r.target = <<"entry", x, "definition">> => <<"entry", x>> \in DOMAIN b.tree
    BY <1>1, <1>3, AncestorsHouse
<1> HIDE DEF source, b, object, done
<1>8. CASE r.derived = "no"
  <2>1. ClaimsNoMore(linked, b)
    BY <1>3, <1>5, LinkClaims
  <2>2. Follows(linked, b)
    BY <1>1, <1>3, <1>5, <1>7, LinkFollows
  <2> HIDE DEF linked
  <2>3. Sound(linked) /\ ClaimsFit(linked)
    BY <1>4, <2>1, <2>2, FitsStill DEF Follows
  <2>4. SameClaims(linked_s, linked)
    BY <2>3, StampClaims
  <2> HIDE DEF linked_s
  <2>5. ClaimsNoMore(linked_s, linked)
    BY <2>3, <2>4, SameClaimsNoMore
  <2>6. ClaimsFit(linked_s)
    BY <2>3, <2>5, FitsStill
  <2> QED BY <1>2, <1>8, <2>6 DEF done, source
<1>9. CASE r.derived = "known"
  <2>1. Adds(made, b, {r.target}) /\ made.objects[r.target] = object
    BY <1>5, <1>6, CreateAdds
  <2> HIDE DEF made
  <2>8. \A o \in {r.target} : TextOf(made, o) = Blank
    BY <1>11, <2>1 DEF TextOf
  <2>2. ClaimsNoMore(made, b)
    BY <1>3, <1>5, <2>1, <2>8, AddsClaims
  <2>3. Sound(made)
    BY <1>1, <1>5, <2>1, AddsKeeps
  <2>4. ClaimsFit(made)
    BY <1>4, <2>2, FitsStill
  <2>5. SameClaims(made_s, made)
    BY <2>3, StampClaims
  <2> HIDE DEF made_s
  <2>6. ClaimsNoMore(made_s, made)
    BY <2>3, <2>5, SameClaimsNoMore
  <2>7. ClaimsFit(made_s)
    BY <2>4, <2>6, FitsStill
  <2> QED BY <1>2, <1>9, <2>7 DEF done, source
<1>10. CASE r.derived = "unknown"
    BY <1>2, <1>4, <1>10 DEF done, source
<1> QED BY <1>1, <1>8, <1>9, <1>10

(* _write_row: whatever becomes of the row, the claims fit. *)
LEMMA WriteRowFits ==
    ASSUME NEW c, NEW k \in DOMAIN kept, NEW r \in Rules!RowType, Sound(c), Housed(c), ClaimsFit(c)
    PROVE  ClaimsFit(Rules!WriteRow(c, kept[k].path, MappingOf(kept[k].instrument), r).c)
<1> DEFINE detector == kept[k].path
           mapping == MappingOf(kept[k].instrument)
           source == Rules!SourcePath(detector, r)
           refusal == Rules!Refusal(c, detector, mapping, r)
           within == Rules!InSubentry(detector, mapping, r)
           in_place == Rules!InPlace(c, r, source)
           ready == IF within THEN Rules!EnsureSubentry(c, detector, mapping) ELSE c
           blocked == Rules!Blocked(ready, r.target)
           placed == Rules!Place(ready, mapping, r, source, within)
           stamped == Rules!Stamp(ready, c.tree[source], mapping, r)
           done == Rules!WriteRow(c, detector, mapping, r)
<1>1. done = IF refusal # "" THEN Rules!Outcome(c, Rules!Says(mapping, r, refusal), FALSE)
             ELSE IF in_place /\ r.shot THEN Rules!Outcome(c, {}, FALSE)
             ELSE IF in_place THEN Rules!Outcome(stamped, {}, within)
             ELSE IF blocked THEN Rules!Outcome(ready, Rules!Says(mapping, r, "could not link"), FALSE)
             ELSE placed
    BY Zenon DEF Rules!WriteRow
<1>2. Follows(ready, c)
  <2>1. Follows(c, c)
    BY FollowsSelf
  <2>2. Follows(Rules!EnsureSubentry(c, detector, mapping), c)
    BY SubentryFollows
  <2> QED BY <2>1, <2>2, Zenon
<1>3. ClaimsFit(ready)
  <2>1. CASE within
    BY <2>1, SubentryFits
  <2>2. CASE ~ within
    BY <2>2
  <2> QED BY <2>1, <2>2
<1>4. refusal = "" => source \in DOMAIN c.tree /\ (in_place \/ r.target \notin DOMAIN c.tree)
    BY RefusalTells
<1> HIDE DEF refusal, ready, within, placed, stamped, done, blocked, in_place
<1>5. Sound(ready) /\ Housed(ready)
    BY <1>2 DEF Follows
<1>6. done.c \in {c, ready, stamped}
      \/ (done = placed /\ refusal = "" /\ ~ in_place /\ ~ blocked)
    BY <1>1 DEF Rules!Outcome
<1>7. ClaimsFit(stamped)
  <2>1. SameClaims(stamped, ready)
    BY <1>5, StampClaims DEF stamped
  <2>2. ClaimsNoMore(stamped, ready)
    BY <1>5, <2>1, SameClaimsNoMore
  <2> QED BY <1>3, <2>2, FitsStill
<1>8. ASSUME refusal = "", ~ in_place, ~ blocked PROVE ClaimsFit(placed.c)
  <2>1. source \in DOMAIN ready.tree /\ r.target \notin DOMAIN ready.tree
    BY <1>2, <1>4, <1>8 DEF Follows, blocked, Rules!Blocked, Rules!Holds
  <2> QED BY <1>3, <1>5, <2>1, PlaceFits DEF placed
<1>9. ClaimsFit(done.c)
    BY <1>3, <1>6, <1>7, <1>8
<1> QED BY <1>9 DEF done

(* A detector's own definition is its mapping's. *)
LEMMA OwnFits ==
    ASSUME NEW c, NEW k \in DOMAIN kept, Sound(c), Housed(c), ClaimsFit(c)
    PROVE  ClaimsFit(Rules!OnDetector(c, kept[k].path, MappingOf(kept[k].instrument)))
<1> DEFINE detector == kept[k].path
           mapping == MappingOf(kept[k].instrument)
           o == c.tree[detector]
           set == [c EXCEPT !.objects[o].definition = mapping.definition]
           stamped == [c.objects[o] EXCEPT !.definition = mapping.definition]
           d == Rules!OnDetector(c, detector, mapping)
<1>1. CASE detector \notin DOMAIN c.tree
    BY <1>1 DEF Rules!OnDetector, Rules!Holds
<1>2. CASE detector \in DOMAIN c.tree
  <2>1. d = set
    BY <1>2 DEF Rules!OnDetector, Rules!Holds
  <2>2. o \in DOMAIN c.objects /\ ObjectFields \subseteq DOMAIN c.objects[o]
    BY <1>2 DEF Sound
  <2>3. /\ set.tree = c.tree
        /\ \A p \in DOMAIN c.objects : p # o => set.objects[p] = c.objects[p]
        /\ set.objects[o] = stamped
    BY <2>2 DEF Sound
  <2>4. stamped.definition = mapping.definition
    <3> DEFINE old == c.objects[o]
               text == mapping.definition
    <3>1. ObjectFields \subseteq DOMAIN old
        BY <2>2
    <3> HIDE DEF old, text
    <3>2. [old EXCEPT !.definition = text].definition = text
        BY <3>1 DEF ObjectFields
    <3> QED BY <3>2 DEF old, text
  <2> HIDE DEF stamped, set
  <2> SUFFICES ASSUME NEW p \in DOMAIN set.tree, TextOf(set, set.tree[p]) # Blank
               PROVE  ClaimStands(set, set.tree[p], TextOf(set, set.tree[p]))
    BY <2>1 DEF ClaimsFit
  <2>5. CASE c.tree[p] = o
    <3>1. /\ kept[k].path \in DOMAIN set.tree
          /\ set.tree[kept[k].path] = set.tree[p]
          /\ MappingOf(kept[k].instrument).definition = TextOf(set, set.tree[p])
        BY <1>2, <2>3, <2>4, <2>5 DEF TextOf
    <3> QED BY <3>1 DEF ClaimStands
  <2>6. CASE c.tree[p] # o
    <3>1. /\ p \in DOMAIN c.tree /\ set.tree[p] = c.tree[p]
          /\ TextOf(set, set.tree[p]) = TextOf(c, c.tree[p])
        BY <2>3, <2>6 DEF Sound, TextOf
    <3>2. ClaimStands(c, set.tree[p], TextOf(set, set.tree[p]))
        BY <3>1 DEF ClaimsFit
    <3> QED BY <2>3, <3>2, StandsOn
  <2> QED BY <2>5, <2>6
<1> QED BY <1>1, <1>2

(* The entry claims a definition only when all detectors are of one instrument. *)
LEMMA ClaimFits ==
    ASSUME NEW c, NEW k \in DOMAIN kept, NEW in_subentry, Sound(c), Housed(c), ClaimsFit(c), KeptDetectors
    PROVE  ClaimsFit(Rules!ClaimDefinition(c, kept[k].path, MappingOf(kept[k].instrument),
                                           in_subentry, Sole).c)
<1> DEFINE detector == kept[k].path
           mapping == MappingOf(kept[k].instrument)
           own == Rules!OnDetector(c, detector, mapping)
           object == [Rules!Object("data") EXCEPT !.definition = mapping.definition]
           mirrored == Rules!MirrorPlot(own, detector)
           path == Rules!EntryDefinition
           claimed == Rules!Create(own, path, object)
           done == Rules!ClaimDefinition(c, detector, mapping, in_subentry, Sole)
<1>1. done.c \in {c, own, mirrored}
      \/ (done.c = claimed /\ path \notin DOMAIN c.tree /\ Sole)
    BY DEF Rules!ClaimDefinition, Rules!Outcome, Rules!Holds
<1>2. Sound(own) /\ Housed(own) /\ own.tree = c.tree
    BY OnDetectorFollows DEF Follows
<1>3. ClaimsFit(own)
    BY OwnFits
<1>4. ObjectFields \subseteq DOMAIN object
    BY DEF ObjectFields, Rules!Object
<1>8. object.definition = MappingOf(kept[k].instrument).definition
    BY DEF Rules!Object
<1> HIDE DEF own, object, done
<1>5. ClaimsFit(mirrored)
  <2>1. SameClaims(mirrored, own)
    BY <1>2, MirrorClaims
  <2> HIDE DEF mirrored
  <2>2. ClaimsNoMore(mirrored, own)
    BY <1>2, <2>1, SameClaimsNoMore
  <2> QED BY <1>3, <2>2, FitsStill
<1>6. ASSUME path \notin DOMAIN c.tree, Sole PROVE ClaimsFit(claimed)
  <2>1. Adds(claimed, own, {path}) /\ claimed.objects[path] = object
    BY <1>2, <1>4, CreateAdds
  <2> HIDE DEF claimed
  <2>2. \A l \in DOMAIN kept : kept[l].instrument = kept[k].instrument
    BY <1>6 DEF Sole, KeptDetectors
  <2>3. /\ kept # <<>>
        /\ \A l, m \in DOMAIN kept : kept[l].instrument = kept[m].instrument
        /\ \A l \in DOMAIN kept : MappingOf(kept[l].instrument).definition
                                        = TextOf(claimed, path)
    BY <1>8, <2>1, <2>2 DEF TextOf
  <2>4. ClaimStands(claimed, path, TextOf(claimed, path))
    BY <2>3, Zenon DEF ClaimStands
  <2> QED BY <1>2, <1>3, <1>6, <2>1, <2>4, ClaimingFits
<1> HIDE DEF mirrored, claimed
<1>7. ClaimsFit(done.c)
    BY <1>1, <1>3, <1>5, <1>6
<1> QED BY <1>7 DEF done

(* What fits, fits at the next step of a mapping. *)
LEMMA FitsSame ==
    ASSUME NEW c, ClaimsFit(c), UNCHANGED <<scene, kept>>, container' = c PROVE ClaimsFit(container)'
    BY DEF ClaimsFit, TextOf, ClaimStands, MappingOf

-----------------------------------------------------------------------------
(* The claims of a container, from its opening on. *)

(* Nothing is claimed while packs write; rows claim what fits. *)
Claims == phase \in {"map", "closed"} => ClaimsFit(container)

(* An acquisition that is kept is one of the shot's. *)
LEMMA FinishKeeps ==
    ASSUME NEW c, NEW p \in Planning, NEW path, NEW wrote, NEW says, IsDetector(path),
           \E S : kept \in Seq(S), KeptDetectors, Finish(c, p, path, wrote, says)
    PROVE  \A k \in DOMAIN kept' :
              IsDetector(kept'[k].path) /\ \E q \in Planning : kept'[k].instrument = q[2]
<1> DEFINE one == [path |-> path, instrument |-> p[2], of |-> p]
<1>1. kept' \in {kept, Append(kept, one)}
    BY Zenon DEF Finish
<1>2. PICK S : kept \in Seq(S)
    OBVIOUS
<1>3. kept \in Seq(S \cup {one})
    BY <1>2, SeqMonotonic
<1>4. Len(kept) \in Nat /\ DOMAIN kept = 1 .. Len(kept)
    BY <1>2, LenProperties
<1>5. one.path = path /\ one.instrument = p[2]
    OBVIOUS
<1> HIDE DEF one
<1> DEFINE more == Append(kept, one)
<1>6. /\ more \in Seq(S \cup {one}) /\ Len(more) = Len(kept) + 1
      /\ \A i \in 1 .. Len(kept) : more[i] = kept[i]
      /\ more[Len(kept) + 1] = one
    BY <1>3, AppendProperties
<1>7. DOMAIN more = 1 .. Len(kept) + 1
    BY <1>6, LenProperties
<1> HIDE DEF more
<1>8. ASSUME NEW k \in DOMAIN more
      PROVE  IsDetector(more[k].path) /\ \E q \in Planning : more[k].instrument = q[2]
  <2>1. CASE k \in 1 .. Len(kept)
    BY <1>4, <1>6, <2>1 DEF KeptDetectors
  <2>2. CASE k = Len(kept) + 1
    BY <1>5, <1>6, <2>2
  <2> QED BY <1>4, <1>7, <2>1, <2>2
<1>9. kept' = kept \/ kept' = more
    BY <1>1 DEF more
<1> QED BY <1>8, <1>9 DEF KeptDetectors

(* Only acquisitions of the shot are ever kept. *)
LEMMA KeptStep == PlanInv /\ Settled /\ Containers /\ KeptDetectors /\ [Next]_vars => KeptDetectors'
<1> SUFFICES ASSUME PlanInv, Settled, Containers, KeptDetectors, [Next]_vars PROVE KeptDetectors'
    OBVIOUS
<1>1. CASE phase = "plan"
  <2>1. kept' = kept /\ kept = <<>>
    BY <1>1 DEF Next, vars, writeVars, Open, WriteAcquisition, OpenRecording, StreamFrame, FinishRecording,
                StartMapping, MapRow, EndMapping, ClaimRaises, NextMapping, Close, KeptDetectors
  <2>2. phase' = "write" \/ (phase' = "plan" /\ container' = container)
    BY <1>1 DEF Next, vars, writeVars, Open, WriteAcquisition, OpenRecording, StreamFrame, FinishRecording,
                StartMapping, MapRow, EndMapping, ClaimRaises, NextMapping, Close
  <2> QED BY <1>1, <2>1, <2>2 DEF KeptDetectors
<1> SUFFICES ASSUME phase # "plan" PROVE KeptDetectors'
    BY <1>1
<1>2. UNCHANGED planVars /\ ~ PlanNext
    BY PlanStands DEF Settled, Planned, PlanNext, ReadSlice, TakeRow
<1>3. Planning' = Planning
    BY <1>2 DEF planVars, Planning, Shot
<1>4. ASSUME UNCHANGED kept, phase' # "plan", phase' = "frames" => at'.of \in Planning PROVE KeptDetectors'
    BY <1>3, <1>4 DEF KeptDetectors, IsDetector
<1>5. ASSUME phase' = "write",
             \A k \in DOMAIN kept' :
                IsDetector(kept'[k].path) /\ \E q \in Planning : kept'[k].instrument = q[2]
      PROVE  KeptDetectors'
    BY <1>3, <1>5 DEF KeptDetectors, IsDetector
<1>6. ASSUME NEW p \in Planning, WriteAcquisition(p) PROVE KeptDetectors'
  <2> DEFINE path == DetectorPath(container.tree, p)
             files == SortedFiles(p)
             pack == acquisitions[p].pack
             wrote == CASE pack = Camera -> Packs!CameraWrites(files)
                        [] pack = Spectrometer -> Packs!SpectrometerWrites(files)
                        [] OTHER -> Packs!SequenceWrites(files, acquisitions[p].seq, Packs!EmptyStack)
             c == Grouped(container, path)
  <2>1. /\ phase' = "write"
        /\ Finish(c, p, path, wrote, Missing(files))
    BY <1>6, Zenon DEF WriteAcquisition
  <2>2. IsDetector(path)
    BY DetectorPathIs
  <2> HIDE DEF path, files, wrote, c
  <2>3. \A k \in DOMAIN kept' :
           IsDetector(kept'[k].path) /\ \E q \in Planning : kept'[k].instrument = q[2]
    BY <2>1, <2>2, FinishKeeps DEF Containers
  <2> QED BY <1>5, <2>1, <2>3
<1>7. ASSUME NEW p \in Planning, OpenRecording(p) PROVE KeptDetectors'
  <2>1. phase' = "frames" /\ kept' = kept /\ at'.of = p
    BY <1>7 DEF OpenRecording
  <2> QED BY <1>4, <2>1
<1>8. CASE FinishRecording
  <2> DEFINE files == SortedFiles(at.of)
             wrote == Packs!SequenceWrites(files, acquisitions[at.of].seq, stack)
  <2>1. /\ phase = "frames" /\ phase' = "write"
        /\ Finish(container, at.of, at.path, wrote, Missing(files))
    BY <1>8, Zenon DEF FinishRecording
  <2>2. at.of \in Planning /\ IsDetector(at.path)
    BY <2>1 DEF KeptDetectors, Containers
  <2> HIDE DEF files, wrote
  <2>3. \A k \in DOMAIN kept' :
           IsDetector(kept'[k].path) /\ \E q \in Planning : kept'[k].instrument = q[2]
    BY <2>1, <2>2, FinishKeeps DEF Containers
  <2> QED BY <1>5, <2>1, <2>3
<1>9. CASE UNCHANGED vars \/ StreamFrame
  <2>1. UNCHANGED <<phase, kept, at>>
    BY <1>9 DEF vars, writeVars, StreamFrame
  <2> QED BY <1>4, <2>1 DEF KeptDetectors
<1>10. CASE StartMapping \/ MapRow \/ EndMapping \/ ClaimRaises \/ Close
  <2>1. UNCHANGED kept /\ phase' \in {"map", "closed"}
    BY <1>10 DEF StartMapping, MapRow, EndMapping, ClaimRaises, NextMapping, Close
  <2> QED BY <1>4, <2>1
<1> QED BY <1>2, <1>6, <1>7, <1>8, <1>9, <1>10 DEF Next, Open

(* No step claims what does not fit. *)
LEMMA ClaimsStep ==
    PlanInv /\ Settled /\ Containers /\ KeptDetectors /\ Claims /\ [Next]_vars => Claims'
<1> SUFFICES ASSUME PlanInv, Settled, Containers, KeptDetectors, Claims, [Next]_vars,
                    phase' \in {"map", "closed"}
             PROVE  ClaimsFit(container)'
    BY DEF Claims
<1>1. CASE StartMapping
  <2>1. phase = "write" /\ UNCHANGED <<container, kept, scene>>
    BY <1>1 DEF StartMapping, planVars
  <2>2. ClaimsFit(container)
    BY <2>1 DEF Containers, Writable, Unclaimed, ClaimsFit, TextOf
  <2> QED BY <2>1, <2>2, FitsSame
<1>2. CASE MapRow
  <2> DEFINE k == row.of
             r == MappingOf(kept[k].instrument).rows[row.n]
             done == Rules!WriteRow(container, kept[k].path, MappingOf(kept[k].instrument), r)
  <2>1. /\ phase = "map" /\ UNCHANGED <<kept, scene>> /\ row.of <= Len(kept)
    BY <1>2 DEF MapRow, planVars
  <2>2. r \in Rules!RowType /\ container' = done.c
    BY <1>2, RowDone, Zenon
  <2>3. k \in DOMAIN kept
    <3>1. PICK S : kept \in Seq(S)
        BY DEF Containers
    <3>2. Len(kept) \in Nat /\ DOMAIN kept = 1 .. Len(kept)
        BY <3>1, LenProperties
    <3> QED BY <2>1, <3>2 DEF Containers
  <2>4. Sound(container) /\ Housed(container) /\ ClaimsFit(container)
    BY <2>1 DEF Containers, Mapped, Claims
  <2> HIDE DEF k, r
  <2>5. ClaimsFit(done.c)
    BY <2>2, <2>3, <2>4, WriteRowFits
  <2> HIDE DEF done
  <2> QED BY <2>1, <2>2, <2>5, FitsSame
<1>3. CASE EndMapping \/ ClaimRaises
  <2> DEFINE k == row.of
             mapping == MappingOf(kept[k].instrument)
             done == Rules!ClaimDefinition(container, kept[k].path, mapping, inside, Sole)
             own == Rules!OnDetector(container, kept[k].path, mapping)
  <2>1. /\ phase = "map" /\ UNCHANGED <<kept, scene>> /\ row.of <= Len(kept)
    BY <1>3 DEF EndMapping, ClaimRaises, NextMapping, planVars
  <2>2. container' = done.c \/ container' = own
    BY <1>3, Zenon DEF EndMapping, ClaimRaises
  <2>3. k \in DOMAIN kept
    <3>1. PICK S : kept \in Seq(S)
        BY DEF Containers
    <3>2. Len(kept) \in Nat /\ DOMAIN kept = 1 .. Len(kept)
        BY <3>1, LenProperties
    <3> QED BY <2>1, <3>2 DEF Containers
  <2>4. Sound(container) /\ Housed(container) /\ ClaimsFit(container)
    BY <2>1 DEF Containers, Mapped, Claims
  <2> HIDE DEF k
  <2>5. ClaimsFit(done.c) /\ ClaimsFit(own)
    BY <2>3, <2>4, ClaimFits, OwnFits
  <2> HIDE DEF done, own
  <2> QED BY <2>1, <2>2, <2>5, FitsSame
<1>4. CASE Close
  <2>1. phase = "map" /\ UNCHANGED <<container, kept, scene>>
    BY <1>4 DEF Close, planVars
  <2> QED BY <2>1, FitsSame DEF Claims
<1>5. CASE UNCHANGED vars \/ (PlanNext /\ UNCHANGED writeVars)
  <2>1. UNCHANGED <<phase, container, kept>>
    BY <1>5 DEF vars, writeVars
  <2>2. UNCHANGED scene
    BY <1>5, PlanStands DEF vars, planVars, PlanNext, ReadSlice, TakeRow
  <2> QED BY <2>1, <2>2, FitsSame DEF Claims
<1>6. CASE Open \/ StreamFrame \/ FinishRecording
    BY <1>6 DEF Open, StreamFrame, FinishRecording
<1>7. CASE \E p \in Planning : WriteAcquisition(p) \/ OpenRecording(p)
    BY <1>7 DEF WriteAcquisition, OpenRecording
<1> QED BY <1>1, <1>2, <1>3, <1>4, <1>5, <1>6, <1>7 DEF Next

(* The claims fit, in every phase. *)
LEMMA ClaimsStandAlone ==
    ASSUME Containers, KeptDetectors, Claims PROVE DefinitionStandsAlone
<1>1. CASE phase \in {"write", "frames"}
    BY <1>1 DEF Containers, Writable, Unclaimed, Blank, DefinitionStandsAlone
<1>2. CASE phase \in {"map", "closed"}
    BY <1>2 DEF Claims, ClaimsFit, TextOf, Blank, DefinitionStandsAlone
<1>3. CASE phase = "plan"
    BY <1>3 DEF KeptDetectors, DefinitionStandsAlone
<1> QED BY <1>1, <1>2, <1>3 DEF Containers

(* Whatever rows the mapping files have, and wherever they place them, a   *)
(* container claims an application definition only on a detector whose     *)
(* mapping claims it, in the subentry of such a detector, or at the entry  *)
(* when every detector in it is of the one instrument that claims it       *)
(* (mapping_rows.py: _ensure_subentry, apply_to; hzdr_containers.py:       *)
(* _apply_mapping_rows).                                                   *)
THEOREM DefinitionsStandAlone == Spec => []DefinitionStandsAlone
<1> DEFINE Inv == ContainerInv /\ KeptDetectors /\ Claims
<1>1. Init => Inv
  <2>1. Init => KeptDetectors /\ Claims
    BY DEF Init, KeptDetectors, Claims
  <2> QED BY <2>1, InitContainer
<1>2. Inv /\ [Next]_vars => Inv'
    BY ContainerStep, KeptStep, ClaimsStep DEF ContainerInv
<1>3. Inv => DefinitionStandsAlone
    BY ClaimsStandAlone DEF ContainerInv
<1> HIDE DEF Inv
<1> QED BY <1>1, <1>2, <1>3, PTL DEF Spec

-----------------------------------------------------------------------------
(* The account of detectors. *)

(* A path at or below a detector. *)
Below(q, m, n) ==
    \/ q = <<"entry", m, n>>
    \/ \E x : q = <<"entry", m, n, x>>
    \/ \E x, y : q = <<"entry", m, n, x, y>>

(* A path of the shot's own, of a machine, or of a detector of E. *)
Known(q, E) ==
    \/ q = Entry
    \/ \E x : q = <<"entry", x>>
    \/ \E m : q = <<"entry", m, "name">>
    \/ \E m, n : <<"entry", m, n>> \in E /\ Below(q, m, n)

(* Detectors are named like this. *)
Named(d) == \E m, n : m \notin RESERVED_ENTRY_NAMES /\ n # "name" /\ d = <<"entry", m, n>>

(* The machine of a detector of E. *)
Houses(p, E) == \E m, n : <<"entry", m, n>> \in E /\ p = <<"entry", m>>

(* The detectors of c are those of D, all else in it belongs to those of E.*)
Laid(c, D, E) ==
    /\ \A p \in DOMAIN c.tree : c.objects[c.tree[p]].class = "NXdetector" => p \in D
    /\ \A p \in D : p \in DOMAIN c.tree /\ c.tree[p] = p /\ c.objects[p].class = "NXdetector"
    /\ \A q \in DOMAIN c.tree : Known(q, E)
    /\ \A p \in DOMAIN c.tree : c.objects[c.tree[p]].class = "NXinstrument" => Houses(p, E)
    /\ \A d \in E : Named(d)

(* A machine has its name, a detector its machine. *)
Roofed(c, D) ==
    /\ \A x : <<"entry", x>> \in DOMAIN c.tree =>
          x \in RESERVED_ENTRY_NAMES \/ <<"entry", x, "name">> \in DOMAIN c.tree
    /\ \A m, n : <<"entry", m, n>> \in D => <<"entry", m>> \in DOMAIN c.tree

(* Objects added elsewhere disturb no detector; those of M are detectors.  *)
LEMMA AddsLaid ==
    ASSUME NEW c, NEW d, NEW N, NEW D, NEW E, NEW M, Sound(c), Laid(c, D, E), Adds(d, c, N),
           N \cap D = {}, M \subseteq N, M \cap DOMAIN c.tree = {},
           \A o \in N : /\ Known(o, E)
                        /\ d.objects[o].class = "NXdetector" <=> o \in M
                        /\ d.objects[o].class = "NXinstrument" => o \notin DOMAIN c.tree /\ Houses(o, E)
    PROVE  Laid(d, D \cup M, E)
<1>1. ASSUME NEW p \in DOMAIN d.tree, p \notin N
      PROVE  /\ p \in DOMAIN c.tree /\ d.tree[p] = c.tree[p]
             /\ c.tree[p] \in DOMAIN c.tree /\ c.tree[p] \in DOMAIN c.objects
             /\ c.tree[p] \notin N => d.objects[c.tree[p]] = c.objects[c.tree[p]]
    BY <1>1 DEF Adds, Sound
<1>2. ASSUME NEW p \in DOMAIN d.tree, d.objects[d.tree[p]].class = "NXdetector" PROVE p \in D \cup M
  <2>1. CASE p \in N
    BY <1>2, <2>1 DEF Adds
  <2>2. CASE p \notin N
    <3>1. CASE c.tree[p] \in N
        BY <1>1, <1>2, <2>2, <3>1
    <3>2. CASE c.tree[p] \notin N
        BY <1>1, <1>2, <2>2, <3>2 DEF Laid
    <3> QED BY <3>1, <3>2
  <2> QED BY <2>1, <2>2
<1>3. ASSUME NEW p \in D \cup M
      PROVE  p \in DOMAIN d.tree /\ d.tree[p] = p /\ d.objects[p].class = "NXdetector"
  <2>1. CASE p \in M
    BY <2>1 DEF Adds
  <2>2. CASE p \in D
    <3>1. p \notin N /\ p \in DOMAIN c.tree /\ c.tree[p] = p /\ c.objects[p].class = "NXdetector"
        BY <2>2 DEF Laid
    <3>2. p \in DOMAIN c.objects
        BY <3>1 DEF Sound
    <3> QED BY <3>1, <3>2 DEF Adds
  <2> QED BY <2>1, <2>2
<1>4. \A q \in DOMAIN d.tree : Known(q, E)
    BY DEF Adds, Laid
<1>5. ASSUME NEW p \in DOMAIN d.tree, d.objects[d.tree[p]].class = "NXinstrument" PROVE Houses(p, E)
  <2>1. CASE p \in N
    BY <1>5, <2>1 DEF Adds
  <2>2. CASE p \notin N
    <3>1. CASE c.tree[p] \in N
        BY <1>1, <1>5, <2>2, <3>1
    <3>2. CASE c.tree[p] \notin N
        BY <1>1, <1>5, <2>2, <3>2 DEF Laid
    <3> QED BY <3>1, <3>2
  <2> QED BY <2>1, <2>2
<1>6. \A p \in E : Named(p)
    BY DEF Laid
<1> QED BY <1>2, <1>3, <1>4, <1>5, <1>6 DEF Laid

(* What is said of a larger set of detectors to come. *)
LEMMA LaidMore ==
    ASSUME NEW c, NEW D, NEW E, NEW F, Laid(c, D, E), E \subseteq F, \A d \in F : Named(d)
    PROVE  Laid(c, D, F)
<1>1. \A q : Known(q, E) => Known(q, F)
    BY DEF Known
<1>2. \A p : Houses(p, E) => Houses(p, F)
    BY DEF Houses
<1> QED BY <1>1, <1>2 DEF Laid

(* One more object that is neither a machine nor a detector. *)
LEMMA WithLaid ==
    ASSUME NEW c, NEW path, NEW class, NEW D, NEW E, Sound(c), Laid(c, D, E),
           Known(path, E), path \notin D, path # <<>>, class \notin {"NXdetector", "NXinstrument"}
    PROVE  /\ Laid(With(c, path, class), D, E) /\ Sound(With(c, path, class))
           /\ DOMAIN With(c, path, class).tree = DOMAIN c.tree \cup {path}
<1> DEFINE d == With(c, path, class)
<1>1. Adds(d, c, {path}) /\ d.objects[path].class = class
    BY WithClass
<1> HIDE DEF d
<1>2. Laid(d, D, E)
  <2>1. /\ {path} \cap D = {} /\ {} \subseteq {path} /\ {} \cap DOMAIN c.tree = {}
        /\ \A o \in {path} : /\ Known(o, E)
                             /\ d.objects[o].class = "NXdetector" <=> o \in {}
                             /\ d.objects[o].class = "NXinstrument" => o \notin DOMAIN c.tree /\ Houses(o, E)
    BY <1>1
  <2>2. Laid(d, D \cup {}, E)
    BY <1>1, <2>1, AddsLaid
  <2> QED BY <2>2
<1>3. Sound(d)
    BY <1>1, AddsKeeps
<1>4. DOMAIN d.tree = DOMAIN c.tree \cup {path}
    BY <1>1 DEF Adds
<1> QED BY <1>2, <1>3, <1>4 DEF d

(* A path longer than a detector's is none. *)
LEMMA NoDetector ==
    ASSUME NEW D, \A d \in D : Named(d), NEW m, NEW n, NEW x, NEW y
    PROVE  /\ <<"entry", m, n, x>> \notin D /\ <<"entry", m, n, x, y>> \notin D
           /\ <<"entry", m>> \notin D /\ Entry \notin D /\ <<"entry", m, "name">> \notin D
    BY DEF Named, Entry

(* Making a detector's groups adds that detector. *)
LEMMA GroupedLaid ==
    ASSUME NEW c, NEW D, NEW m, NEW n, Sound(c), Laid(c, D, D), Roofed(c, D),
           m \notin RESERVED_ENTRY_NAMES, n # "name", <<"entry", m, n>> \notin DOMAIN c.tree
    PROVE  LET path == <<"entry", m, n>>
               d == Grouped(c, path)
           IN  Laid(d, D \cup {path}, D \cup {path}) /\ Roofed(d, D \cup {path})
<1> DEFINE path == <<"entry", m, n>>
           machine == <<"entry", m>>
           name == <<"entry", m, "name">>
           local == <<"entry", m, n, "local_name">>
           E == D \cup {path}
           b == With(c, machine, "NXinstrument")
           c1 == IF machine \in DOMAIN c.tree THEN c ELSE With(b, name, "data")
           c2 == With(c1, path, "NXdetector")
           d == With(c2, local, "data")
<1>1. Grouped(c, path) = d
  <2>1. Rules!Parent(path) = machine /\ Append(machine, "name") = name /\ Append(path, "local_name") = local
    BY MachineOf, AppendTwo, AppendThree
  <2> HIDE DEF path, machine, name, local
  <2> QED BY <2>1, Zenon DEF Grouped
<1>2. /\ \A p \in E : Named(p)
      /\ Laid(c, D, E)
  <2>1. \A p \in E : Named(p)
    BY DEF Laid, Named
  <2>2. D \subseteq E
    OBVIOUS
  <2> HIDE DEF E
  <2> QED BY <2>1, <2>2, LaidMore
<1>3. /\ machine \notin E /\ name \notin E /\ local \notin E
      /\ machine # <<>> /\ name # <<>> /\ path # <<>> /\ local # <<>>
      /\ machine # path /\ name # path /\ machine # name
  <2> HIDE DEF E
  <2>1. machine \notin E /\ name \notin E /\ local \notin E
    BY <1>2, NoDetector
  <2> QED BY <2>1
<1>4. Known(machine, E) /\ Known(name, E) /\ Known(path, E) /\ Known(local, E) /\ Houses(machine, E)
  <2>1. path \in E
    OBVIOUS
  <2> HIDE DEF E
  <2> QED BY <2>1 DEF Known, Houses, Below
<1>5. path \in E /\ D \subseteq E /\ path \notin DOMAIN c.tree /\ E = D \cup {path}
    OBVIOUS
<1> HIDE DEF E
<1>6. /\ Sound(c1) /\ Laid(c1, D, E)
      /\ DOMAIN c1.tree \in {DOMAIN c.tree, DOMAIN c.tree \cup {machine, name}}
      /\ machine \in DOMAIN c1.tree /\ name \in DOMAIN c1.tree
  <2>1. CASE machine \in DOMAIN c.tree
    <3>1. name \in DOMAIN c.tree
        BY <2>1 DEF Roofed
    <3>2. c1 = c
        BY <2>1
    <3> HIDE DEF c1
    <3> QED BY <1>2, <2>1, <3>1, <3>2
  <2>2. CASE machine \notin DOMAIN c.tree
    <3> HIDE DEF machine, name, path
    <3>1. Adds(b, c, {machine}) /\ b.objects[machine].class = "NXinstrument"
        BY WithClass
    <3> HIDE DEF b
    <3>2. Laid(b, D, E)
      <4>1. /\ {machine} \cap D = {} /\ {} \subseteq {machine} /\ {} \cap DOMAIN c.tree = {}
            /\ \A o \in {machine} :
                  /\ Known(o, E)
                  /\ b.objects[o].class = "NXdetector" <=> o \in {}
                  /\ b.objects[o].class = "NXinstrument" => o \notin DOMAIN c.tree /\ Houses(o, E)
        BY <1>3, <1>4, <1>5, <2>2, <3>1
      <4>2. Laid(b, D \cup {}, E)
        BY <1>2, <3>1, <4>1, AddsLaid
      <4> QED BY <4>2
    <3>3. Sound(b) /\ DOMAIN b.tree = DOMAIN c.tree \cup {machine}
      <4>1. <<>> \notin {machine}
        BY <1>3
      <4>2. Sound(b)
        BY <3>1, <4>1, AddsKeeps
      <4> QED BY <3>1, <4>2 DEF Adds
    <3>4. /\ Laid(With(b, name, "data"), D, E) /\ Sound(With(b, name, "data"))
          /\ DOMAIN With(b, name, "data").tree = DOMAIN b.tree \cup {name}
        BY <1>3, <1>4, <1>5, <3>2, <3>3, WithLaid
    <3> QED BY <2>2, <3>3, <3>4
  <2> QED BY <2>1, <2>2
<1> HIDE DEF c1
<1>7. path \notin DOMAIN c1.tree
  <2> HIDE DEF path, machine, name
  <2> QED BY <1>3, <1>5, <1>6
<1>8. Sound(c2) /\ Laid(c2, E, E) /\ DOMAIN c2.tree = DOMAIN c1.tree \cup {path}
  <2> HIDE DEF path
  <2>1. Adds(c2, c1, {path}) /\ c2.objects[path].class = "NXdetector"
    BY <1>6, WithClass
  <2> HIDE DEF c2
  <2>2. {path} \cap D = {}
    BY <1>6, <1>7 DEF Laid
  <2>3. /\ {path} \subseteq {path} /\ {path} \cap DOMAIN c1.tree = {}
        /\ \A o \in {path} :
              /\ Known(o, E)
              /\ c2.objects[o].class = "NXdetector" <=> o \in {path}
              /\ c2.objects[o].class = "NXinstrument" => o \notin DOMAIN c1.tree /\ Houses(o, E)
    BY <1>4, <1>7, <2>1
  <2>4. Laid(c2, D \cup {path}, E)
    BY <1>6, <2>1, <2>2, <2>3, AddsLaid
  <2>5. Sound(c2)
    BY <1>3, <1>6, <2>1, AddsKeeps
  <2> QED BY <1>5, <2>1, <2>4, <2>5 DEF Adds
<1> HIDE DEF c2
<1>9. Laid(d, E, E) /\ DOMAIN d.tree = DOMAIN c2.tree \cup {local}
  <2> HIDE DEF local
  <2> QED BY <1>3, <1>4, <1>8, WithLaid
<1>10. Roofed(d, E)
  <2> DEFINE T == DOMAIN d.tree
  <2>1. T \subseteq DOMAIN c.tree \cup {machine, name, path, local} /\ DOMAIN c.tree \subseteq T
        /\ machine \in T /\ name \in T
    <3> HIDE DEF machine, name, path, local
    <3> QED BY <1>6, <1>8, <1>9
  <2> HIDE DEF T, d
  <2>2. ASSUME NEW x, <<"entry", x>> \in T
        PROVE  x \in RESERVED_ENTRY_NAMES \/ <<"entry", x, "name">> \in T
    <3>1. CASE <<"entry", x>> \in DOMAIN c.tree
        BY <2>1, <3>1 DEF Roofed
    <3>2. CASE <<"entry", x>> \notin DOMAIN c.tree
      <4>1. <<"entry", x>> \in {machine, name, path, local}
        BY <2>1, <2>2, <3>2
      <4>2. x = m
        BY <4>1
      <4> QED BY <2>1, <4>2
    <3> QED BY <3>1, <3>2
  <2>3. ASSUME NEW x, NEW y, <<"entry", x, y>> \in E PROVE <<"entry", x>> \in T
    <3>1. CASE <<"entry", x, y>> \in D
        BY <2>1, <3>1 DEF Roofed
    <3>2. CASE <<"entry", x, y>> = path
        BY <2>1, <3>2
    <3> QED BY <1>5, <2>3, <3>1, <3>2
  <2> QED BY <2>2, <2>3 DEF Roofed, T
<1> QED BY <1>1, <1>5, <1>9, <1>10

(* What is above a dataset of a detector. *)
LEMMA AncestorsOfFields ==
    ASSUME NEW m, NEW n, NEW x, NEW y
    PROVE  /\ \A q \in Rules!Ancestors(<<"entry", m, n, x>>) :
                 q \in {Entry, <<"entry", m>>, <<"entry", m, n>>}
           /\ \A q \in Rules!Ancestors(<<"entry", m, n, x, y>>) :
                 q \in {Entry, <<"entry", m>>, <<"entry", m, n>>, <<"entry", m, n, x>>}
<1> DEFINE S == {"entry", m, n, x, y}
           s1 == <<"entry">>
           s2 == <<"entry", m>>
           s3 == <<"entry", m, n>>
           s4 == <<"entry", m, n, x>>
           s5 == <<"entry", m, n, x, y>>
<1>0. "entry" \in S /\ m \in S /\ n \in S /\ x \in S /\ y \in S
    OBVIOUS
<1> HIDE DEF S
<1>1. /\ s1 \in Seq(S) /\ Len(s1) = 1 /\ s1[1] = "entry"
      /\ s2 \in Seq(S) /\ Len(s2) = 2 /\ s2[1] = "entry" /\ s2[2] = m
      /\ s3 \in Seq(S) /\ Len(s3) = 3 /\ s3[1] = "entry" /\ s3[2] = m /\ s3[3] = n
      /\ s4 \in Seq(S) /\ Len(s4) = 4 /\ s4[1] = "entry" /\ s4[2] = m /\ s4[3] = n /\ s4[4] = x
      /\ s5 \in Seq(S) /\ Len(s5) = 5 /\ s5[1] = "entry" /\ s5[2] = m /\ s5[3] = n /\ s5[4] = x
    BY <1>0, Tuples
<1> HIDE DEF s1, s2, s3, s4, s5
<1>2. ASSUME NEW t \in {s4, s5}
      PROVE  SubSeq(t, 1, 1) = s1 /\ SubSeq(t, 1, 2) = s2 /\ SubSeq(t, 1, 3) = s3
  <2>1. t \in Seq(S) /\ 3 <= Len(t) /\ t[1] = "entry" /\ t[2] = m /\ t[3] = n /\ Len(t) \in {4, 5}
    BY <1>1
  <2>2. 1 \in Nat /\ 1 <= Len(t) /\ \A i \in 1 .. 1 : s1[i] = t[i]
    BY <1>1, <2>1
  <2>3. 2 \in Nat /\ 2 <= Len(t) /\ \A i \in 1 .. 2 : s2[i] = t[i]
    BY <1>1, <2>1
  <2>4. 3 \in Nat /\ 3 <= Len(t) /\ \A i \in 1 .. 3 : s3[i] = t[i]
    BY <1>1, <2>1
  <2>5. SubSeq(t, 1, 1) = s1
    BY <1>1, <2>1, <2>2, FirstOf
  <2>6. SubSeq(t, 1, 2) = s2
    BY <1>1, <2>1, <2>3, FirstOf
  <2>7. SubSeq(t, 1, 3) = s3
    BY <1>1, <2>1, <2>4, FirstOf
  <2> QED BY <2>5, <2>6, <2>7
<1>3. SubSeq(s5, 1, 4) = s4
  <2>1. 4 \in Nat /\ 4 <= Len(s5) /\ \A i \in 1 .. 4 : s4[i] = s5[i]
    BY <1>1
  <2> QED BY <1>1, <2>1, FirstOf
<1>4. ASSUME NEW q \in Rules!Ancestors(s4) PROVE q \in {s1, s2, s3}
  <2>1. PICK k \in 1 .. 3 : q = SubSeq(s4, 1, k)
    BY <1>1 DEF Rules!Ancestors
  <2>2. k \in {1, 2, 3}
    OBVIOUS
  <2> QED BY <1>2, <2>1, <2>2
<1>5. ASSUME NEW q \in Rules!Ancestors(s5) PROVE q \in {s1, s2, s3, s4}
  <2>1. PICK k \in 1 .. 4 : q = SubSeq(s5, 1, k)
    BY <1>1 DEF Rules!Ancestors
  <2>2. k \in {1, 2, 3, 4}
    OBVIOUS
  <2> QED BY <1>2, <1>3, <2>1, <2>2
<1> QED BY <1>4, <1>5 DEF s1, s2, s3, s4, s5, Entry

(* Paths added below a detector leave the machines as they were. *)
LEMMA RoofedStill ==
    ASSUME NEW c, NEW d, NEW D, Roofed(c, D), DOMAIN c.tree \subseteq DOMAIN d.tree,
           \A x : <<"entry", x>> \in DOMAIN d.tree => <<"entry", x>> \in DOMAIN c.tree
    PROVE  Roofed(d, D)
    BY DEF Roofed

(* A pack's fields are below their detector, with the groups they lack. *)
LEMMA FieldsLaid ==
    ASSUME NEW c, NEW D, NEW m, NEW n, NEW fields, Sound(c), Laid(c, D, D), Roofed(c, D),
           <<"entry", m, n>> \in D, fields \subseteq PackFields
    PROVE  LET d == Fields(c, <<"entry", m, n>>, fields)
           IN  Laid(d, D, D) /\ Roofed(d, D)
<1> DEFINE path == <<"entry", m, n>>
           datasets == Datasets(path, fields)
           N == datasets \cup Groups(c, datasets)
           d == Fields(c, path, fields)
           Deep(o) == (\E x : o = <<"entry", m, n, x>>) \/ (\E x, y : o = <<"entry", m, n, x, y>>)
<1>1. Adds(d, c, N)
    BY FieldsAdds
<1>2. \A o \in N : d.objects[o].class \in {"data", "NXcollection"}
    BY FieldsClasses
<1>3. path \in DOMAIN c.tree /\ <<"entry", m>> \in DOMAIN c.tree
    BY DEF Laid, Roofed
<1>4. \A o \in datasets : Deep(o)
  <2> SUFFICES ASSUME NEW f \in fields PROVE Deep(path \o f)
    BY DEF Datasets
  <2>1. f \in PackFields
    OBVIOUS
  <2> QED BY <2>1, DatasetsAre, Zenon
<1> HIDE DEF d, datasets
<1>5. ASSUME NEW o \in N PROVE o = Entry \/ Deep(o)
  <2>1. CASE o \in datasets
    BY <1>4, <2>1
  <2>2. CASE o \notin datasets
    <3>1. PICK e \in datasets : o \in Rules!Ancestors(e) /\ o \notin DOMAIN c.tree
        BY <1>5, <2>2 DEF Groups
    <3>2. o \in {Entry, <<"entry", m>>, path} \/ \E x : o = <<"entry", m, n, x>>
      <4>1. CASE \E x : e = <<"entry", m, n, x>>
        BY <3>1, <4>1, AncestorsOfFields, Zenon
      <4>2. CASE \E x, y : e = <<"entry", m, n, x, y>>
        <5>1. PICK x, y : e = <<"entry", m, n, x, y>>
            BY <4>2
        <5>2. o \in {Entry, <<"entry", m>>, <<"entry", m, n>>, <<"entry", m, n, x>>}
            BY <3>1, <5>1, AncestorsOfFields
        <5> QED BY <5>2
      <4> QED BY <1>4, <4>1, <4>2
    <3> QED BY <1>3, <3>1, <3>2
  <2> QED BY <2>1, <2>2
<1>6. \A o \in N : Known(o, D) /\ o \notin D /\ \A x : o # <<"entry", x>>
  <2> SUFFICES ASSUME NEW o \in N PROVE Known(o, D) /\ o \notin D /\ \A x : o # <<"entry", x>>
    OBVIOUS
  <2>1. CASE o = Entry
    BY <2>1 DEF Known, Laid, Named, Entry
  <2>2. CASE Deep(o)
    BY <2>2 DEF Known, Below, Laid, Named
  <2> QED BY <1>5, <2>1, <2>2
<1> HIDE DEF N, Deep
<1>7. Laid(d, D, D)
  <2>1. /\ N \cap D = {} /\ {} \subseteq N /\ {} \cap DOMAIN c.tree = {}
        /\ \A o \in N : /\ Known(o, D)
                        /\ d.objects[o].class = "NXdetector" <=> o \in {}
                        /\ d.objects[o].class = "NXinstrument" => o \notin DOMAIN c.tree /\ Houses(o, D)
    BY <1>2, <1>6
  <2>2. Laid(d, D \cup {}, D)
    BY <1>1, <2>1, AddsLaid
  <2> QED BY <2>2
<1>8. Roofed(d, D)
  <2>1. DOMAIN d.tree = DOMAIN c.tree \cup N
    BY <1>1 DEF Adds
  <2>2. \A x : <<"entry", x>> \in DOMAIN d.tree => <<"entry", x>> \in DOMAIN c.tree
    BY <1>6, <2>1
  <2> QED BY <2>1, <2>2, RoofedStill
<1> QED BY <1>7, <1>8 DEF d

(* So is a plot, and the second name it gives its signal. *)
LEMMA PlotLaid ==
    ASSUME NEW c, NEW D, NEW m, NEW n, NEW signal, Writable(c), Laid(c, D, D), Roofed(c, D),
           <<"entry", m, n>> \in D, signal \in {Packs!Image, Packs!Irradiance},
           <<"entry", m, n>> \o signal \in DOMAIN c.tree,
           c.tree[<<"entry", m, n>> \o signal] = <<"entry", m, n>> \o signal
    PROVE  LET d == Plot(c, <<"entry", m, n>>, signal)
           IN  Laid(d, D, D) /\ Roofed(d, D)
<1> DEFINE path == <<"entry", m, n>>
<1>2. PICK y : signal = <<"raw_data", y>>
    BY DEF Packs!Image, Packs!Irradiance
<1>3. path \o signal = <<"entry", m, n, "raw_data", y>> /\ signal[Len(signal)] = y
    BY <1>2, ConcatTuples
<1> DEFINE data == Append(path, "data")
           source == path \o signal
           object == [Rules!Object("NXdata") EXCEPT !.signal = c.tree[source]]
           made == Rules!Create(c, data, object)
           at_ == Append(data, y)
           d == Rules!HardLink(made, at_, source)
<1>4. data = <<"entry", m, n, "data">> /\ at_ = <<"entry", m, n, "data", y>>
  <2>1. data = <<"entry", m, n, "data">>
    BY AppendThree
  <2>2. Append(<<"entry", m, n, "data">>, y) = <<"entry", m, n, "data", y>>
    BY AppendFour
  <2> HIDE DEF data
  <2> QED BY <2>1, <2>2
<1>4a. source = <<"entry", m, n, "raw_data", y>>
    BY <1>3
<1>5. Plot(c, path, signal) = d
    BY <1>3 DEF Plot
<1>6. ObjectFields \subseteq DOMAIN object /\ object.class = "NXdata"
    BY DEF ObjectFields, Rules!Object
<1>7. Sound(c) /\ source \in DOMAIN c.tree /\ c.tree[source] = source
    BY DEF Writable
<1> HIDE DEF object, data, at_, source
<1>8. /\ Known(data, D) /\ Known(at_, D) /\ data \notin D /\ at_ \notin D /\ source \notin D
      /\ ~ Houses(source, D)
      /\ (\A x : data # <<"entry", x>> /\ at_ # <<"entry", x>>) /\ source # at_ /\ data # source
    BY <1>4, <1>4a DEF Known, Below, Laid, Named, Houses
<1>9. Adds(made, c, {data}) /\ made.objects[data] = object
    BY <1>6, <1>7, CreateAdds
<1> HIDE DEF made
<1>10. Laid(made, D, D)
  <2>1. /\ {data} \cap D = {} /\ {} \subseteq {data} /\ {} \cap DOMAIN c.tree = {}
        /\ \A o \in {data} : /\ Known(o, D)
                             /\ made.objects[o].class = "NXdetector" <=> o \in {}
                             /\ made.objects[o].class = "NXinstrument" => o \notin DOMAIN c.tree /\ Houses(o, D)
    BY <1>6, <1>8, <1>9
  <2>2. Laid(made, D \cup {}, D)
    BY <1>7, <1>9, <2>1, AddsLaid
  <2> QED BY <2>2
<1>11. /\ DOMAIN made.tree = DOMAIN c.tree \cup {data}
       /\ source \in DOMAIN made.tree /\ made.tree[source] = source
    BY <1>7, <1>8, <1>9 DEF Adds
<1>12. /\ DOMAIN d.tree = DOMAIN made.tree \cup {at_}
       /\ d.tree[at_] = source
       /\ \A p \in DOMAIN made.tree \ {at_} : d.tree[p] = made.tree[p]
       /\ d.objects = made.objects
    BY <1>9, <1>11 DEF Rules!HardLink, Adds
<1> HIDE DEF d
<1>13. Laid(d, D, D)
  <2>1. made.objects[source].class # "NXdetector" /\ made.objects[source].class # "NXinstrument"
    BY <1>8, <1>10, <1>11 DEF Laid
  <2>2. ASSUME NEW p \in DOMAIN d.tree
        PROVE  /\ d.objects[d.tree[p]].class = "NXdetector" => p \in D
               /\ d.objects[d.tree[p]].class = "NXinstrument" => Houses(p, D)
               /\ Known(p, D)
    <3>1. CASE p = at_
        BY <1>8, <1>12, <2>1, <3>1
    <3>2. CASE p # at_
        BY <1>10, <1>12, <3>2 DEF Laid
    <3> QED BY <3>1, <3>2
  <2>3. ASSUME NEW p \in D
        PROVE  p \in DOMAIN d.tree /\ d.tree[p] = p /\ d.objects[p].class = "NXdetector"
    BY <1>8, <1>10, <1>12 DEF Laid
  <2>4. \A p \in D : Named(p)
    BY DEF Laid
  <2> QED BY <2>2, <2>3, <2>4 DEF Laid
<1>14. Roofed(d, D)
  <2>1. \A x : <<"entry", x>> \in DOMAIN d.tree => <<"entry", x>> \in DOMAIN c.tree
    BY <1>8, <1>11, <1>12
  <2> QED BY <1>11, <1>12, <2>1, RoofedStill
<1> QED BY <1>5, <1>13, <1>14
-----------------------------------------------------------------------------
(* Packs write below their detector, and one left out leaves nothing. *)

(* What a pack writes of a detector stays below it. *)
LEMMA FilledLaid ==
    ASSUME NEW c, NEW D, NEW m, NEW n, NEW wrote, Writable(c), Laid(c, D, D), Roofed(c, D),
           <<"entry", m, n>> \in D, PackWrites(wrote)
    PROVE  LET d == Filled(c, <<"entry", m, n>>, wrote)
           IN  Laid(d, D, D) /\ Roofed(d, D)
<1> DEFINE path == <<"entry", m, n>>
           fields == wrote.arrays \cup wrote.values
           c1 == Fields(c, path, fields)
<1>1. IsDetector(path) /\ fields \subseteq PackFields /\ Sound(c)
  <2>1. m \notin RESERVED_ENTRY_NAMES
    BY DEF Laid, Named
  <2> QED BY <2>1 DEF IsDetector, RESERVED_ENTRY_NAMES, PackWrites, Writable
<1> HIDE DEF fields
<1>2. /\ Writable(c1) /\ Laid(c1, D, D) /\ Roofed(c1, D)
      /\ \A f \in fields : path \o f \in DOMAIN c1.tree /\ c1.tree[path \o f] = path \o f
  <2>1. Laid(c1, D, D) /\ Roofed(c1, D)
    BY <1>1, FieldsLaid
  <2> HIDE DEF path
  <2>2. /\ Writable(c1)
        /\ \A f \in fields : path \o f \in DOMAIN c1.tree /\ c1.tree[path \o f] = path \o f
    BY <1>1, FieldsWritable
  <2> QED BY <2>1, <2>2
<1> HIDE DEF c1
<1>3. CASE wrote.plot # None
  <2> DEFINE signal == wrote.plot
             d == Plot(c1, path, signal)
  <2>1. signal \in {Packs!Image, Packs!Irradiance} /\ signal \in fields
    BY <1>3 DEF PackWrites, fields
  <2> HIDE DEF signal
  <2>2. path \o signal \in DOMAIN c1.tree /\ c1.tree[path \o signal] = path \o signal
    BY <1>2, <2>1
  <2>3. Laid(d, D, D) /\ Roofed(d, D)
    BY <1>2, <2>1, <2>2, PlotLaid
  <2> HIDE DEF d
  <2>4. Filled(c, path, wrote) = d
    BY <1>3 DEF Filled, c1, fields, d, signal
  <2> QED BY <2>3, <2>4
<1>4. CASE wrote.plot = None
    BY <1>2, <1>4 DEF Filled, c1, fields
<1> QED BY <1>3, <1>4

(* And what is said of its files. *)
LEMMA DescribedLaid ==
    ASSUME NEW c, NEW D, NEW m, NEW n, Sound(c), Laid(c, D, D), Roofed(c, D), <<"entry", m, n>> \in D
    PROVE  LET d == Described(c, <<"entry", m, n>>)
           IN  Laid(d, D, D) /\ Roofed(d, D)
<1> DEFINE path == <<"entry", m, n>>
           role == Append(path, "timing_role")
           data == Append(path, "file_metadata")
           b == With(c, role, "data")
           d == With(b, data, "NXnote")
<1>1. role = <<"entry", m, n, "timing_role">> /\ data = <<"entry", m, n, "file_metadata">>
    BY AppendThree
<1>2. Described(c, path) = d
    BY DEF Described
<1> HIDE DEF role, data
<1>3. /\ Known(role, D) /\ role \notin D /\ role # <<>> /\ \A x : role # <<"entry", x>>
      /\ Known(data, D) /\ data \notin D /\ data # <<>> /\ \A x : data # <<"entry", x>>
    BY <1>1 DEF Known, Below, Laid, Named
<1>4. Laid(b, D, D) /\ Sound(b) /\ DOMAIN b.tree = DOMAIN c.tree \cup {role}
    BY <1>3, WithLaid
<1> HIDE DEF b
<1>5. Laid(d, D, D) /\ DOMAIN d.tree = DOMAIN b.tree \cup {data}
    BY <1>3, <1>4, WithLaid
<1> HIDE DEF d
<1>6. Roofed(d, D)
  <2>1. /\ DOMAIN c.tree \subseteq DOMAIN d.tree
        /\ \A x : <<"entry", x>> \in DOMAIN d.tree => <<"entry", x>> \in DOMAIN c.tree
    BY <1>3, <1>4, <1>5
  <2> QED BY <2>1, RoofedStill
<1> QED BY <1>2, <1>5, <1>6

(* The first names of short paths. *)
LEMMA FirstOfShort ==
    ASSUME NEW m, NEW n, NEW x
    PROVE  /\ SubSeq(<<"entry", m, n>>, 1, 3) = <<"entry", m, n>>
           /\ SubSeq(<<"entry", m, n, x>>, 1, 3) = <<"entry", m, n>>
           /\ SubSeq(<<"entry", m, n, x>>, 1, 2) = <<"entry", m>>
<1> DEFINE S == {"entry", m, n, x}
           s2 == <<"entry", m>>
           s3 == <<"entry", m, n>>
           s4 == <<"entry", m, n, x>>
<1>0. "entry" \in S /\ m \in S /\ n \in S /\ x \in S
    OBVIOUS
<1> HIDE DEF S
<1>1. /\ s2 \in Seq(S) /\ Len(s2) = 2 /\ s2[1] = "entry" /\ s2[2] = m
      /\ s3 \in Seq(S) /\ Len(s3) = 3 /\ s3[1] = "entry" /\ s3[2] = m /\ s3[3] = n
      /\ s4 \in Seq(S) /\ Len(s4) = 4 /\ s4[1] = "entry" /\ s4[2] = m /\ s4[3] = n /\ s4[4] = x
    BY <1>0, Tuples
<1> HIDE DEF s2, s3, s4
<1>2. SubSeq(s3, 1, 3) = s3
  <2>1. 3 \in Nat /\ 3 <= Len(s3) /\ \A i \in 1 .. 3 : s3[i] = s3[i]
    BY <1>1
  <2> QED BY <1>1, <2>1, FirstOf
<1>3. SubSeq(s4, 1, 3) = s3
  <2>1. 3 \in Nat /\ 3 <= Len(s4) /\ \A i \in 1 .. 3 : s3[i] = s4[i]
    BY <1>1
  <2> QED BY <1>1, <2>1, FirstOf
<1>4. SubSeq(s4, 1, 2) = s2
  <2>1. 2 \in Nat /\ 2 <= Len(s4) /\ \A i \in 1 .. 2 : s2[i] = s4[i]
    BY <1>1
  <2> QED BY <1>1, <2>1, FirstOf
<1> QED BY <1>2, <1>3, <1>4 DEF s2, s3, s4

(* A detector is above another when it is the other. *)
LEMMA DetectorPrefix ==
    ASSUME NEW a, NEW b, NEW m, NEW n
    PROVE  Rules!IsPrefix(<<"entry", a, b>>, <<"entry", m, n>>) <=> a = m /\ b = n
<1>1. Len(<<"entry", a, b>>) = 3 /\ Len(<<"entry", m, n>>) = 3
    OBVIOUS
<1>2. SubSeq(<<"entry", m, n>>, 1, 3) = <<"entry", m, n>>
    BY FirstOfShort
<1> QED BY <1>1, <1>2 DEF Rules!IsPrefix

(* Which names directly below a detector are below another, or its machine. *)
LEMMA ShortPrefix ==
    ASSUME NEW a, NEW b, NEW m, NEW n, NEW x
    PROVE  /\ Rules!IsPrefix(<<"entry", a, b>>, <<"entry", m, n, x>>) <=> a = m /\ b = n
           /\ Rules!IsPrefix(<<"entry", a>>, <<"entry", m, n, x>>) <=> a = m
<1>1. /\ Len(<<"entry", a, b>>) = 3 /\ Len(<<"entry", a>>) = 2 /\ Len(<<"entry", m, n, x>>) = 4
    OBVIOUS
<1>2. Rules!IsPrefix(<<"entry", a, b>>, <<"entry", m, n, x>>) <=> a = m /\ b = n
  <2>1. SubSeq(<<"entry", m, n, x>>, 1, 3) = <<"entry", m, n>>
    BY FirstOfShort
  <2> QED BY <1>1, <2>1 DEF Rules!IsPrefix
<1>3. Rules!IsPrefix(<<"entry", a>>, <<"entry", m, n, x>>) <=> a = m
  <2>1. SubSeq(<<"entry", m, n, x>>, 1, 2) = <<"entry", m>>
    BY FirstOfShort
  <2> QED BY <1>1, <2>1 DEF Rules!IsPrefix
<1> QED BY <1>2, <1>3

(* No machine is above the entry. *)
LEMMA EntryPrefix == ASSUME NEW a PROVE ~ Rules!IsPrefix(<<"entry", a>>, Entry)
<1>1. Len(<<"entry", a>>) = 2 /\ Len(<<"entry">>) = 1
    OBVIOUS
<1> QED BY <1>1 DEF Rules!IsPrefix, Entry

(* What is below a detector has its prefix, and that of its machine. *)
LEMMA BelowPrefix ==
    ASSUME NEW q, NEW m, NEW n, NEW a, NEW b, Below(q, m, n)
    PROVE  /\ Rules!IsPrefix(<<"entry", a, b>>, q) <=> a = m /\ b = n
           /\ Rules!IsPrefix(<<"entry", a>>, q) <=> a = m
<1>1. CASE q = <<"entry", m, n>>
  <2>1. /\ Rules!IsPrefix(<<"entry", a, b>>, <<"entry", m, n>>) <=> a = m /\ b = n
        /\ Rules!IsPrefix(<<"entry", a>>, <<"entry", m, n>>) <=> a = m
    BY DetectorPrefix, MachinePrefix
  <2>2. /\ Rules!IsPrefix(<<"entry", a, b>>, q) <=> a = m /\ b = n
        /\ Rules!IsPrefix(<<"entry", a>>, q) <=> a = m
    <3> DEFINE Goal(z) == /\ Rules!IsPrefix(<<"entry", a, b>>, z) <=> a = m /\ b = n
                          /\ Rules!IsPrefix(<<"entry", a>>, z) <=> a = m
               s3 == <<"entry", m, n>>
    <3>1. Goal(s3) /\ q = s3
        BY <1>1, <2>1
    <3> HIDE DEF s3
    <3>2. Goal(q)
        BY <3>1
    <3> QED BY <3>2
  <2> QED BY <2>2
<1>2. CASE \E x : q = <<"entry", m, n, x>>
  <2>1. PICK x : q = <<"entry", m, n, x>>
    BY <1>2
  <2>2. /\ Rules!IsPrefix(<<"entry", a, b>>, <<"entry", m, n, x>>) <=> a = m /\ b = n
        /\ Rules!IsPrefix(<<"entry", a>>, <<"entry", m, n, x>>) <=> a = m
    BY ShortPrefix
  <2> QED BY <2>1, <2>2
<1>3. CASE \E x, y : q = <<"entry", m, n, x, y>>
  <2>1. PICK x, y : q = <<"entry", m, n, x, y>>
    BY <1>3
  <2>2. /\ Rules!IsPrefix(<<"entry", a, b>>, <<"entry", m, n, x, y>>) <=> a = m /\ b = n
        /\ Rules!IsPrefix(<<"entry", a>>, <<"entry", m, n, x, y>>) <=> a = m
    BY DeepPrefix, MachinePrefixDeep
  <2> QED BY <2>1, <2>2
<1> QED BY <1>1, <1>2, <1>3 DEF Below

(* A detector left out goes with all that is below it, and its machine     *)
(* exactly if no other detector is there.                                  *)
LEMMA RemovedLaid ==
    ASSUME NEW c, NEW E, NEW a, NEW b, Sound(c), Laid(c, E, E), Roofed(c, E), <<"entry", a, b>> \in E
    PROVE  LET d == Removed(c, <<"entry", a, b>>)
               D == E \ {<<"entry", a, b>>}
           IN  Laid(d, D, D) /\ Roofed(d, D)
<1> DEFINE path == <<"entry", a, b>>
           machine == <<"entry", a>>
           name == <<"entry", a, "name">>
           left == {p \in DOMAIN c.tree : ~Rules!IsPrefix(path, p)}
           bare == {p \in left : Rules!Inside(p, machine)} \subseteq {name}
           L == IF bare THEN {q \in left : ~Rules!IsPrefix(machine, q)} ELSE left
           d == Removed(c, path)
           D == E \ {path}
<1>1. d = [c EXCEPT !.tree = [p \in L |-> c.tree[p]]]
  <2>1. Rules!Parent(path) = machine /\ Append(machine, "name") = name
    BY MachineOf, AppendTwo
  <2> HIDE DEF path, machine, name
  <2> QED BY <2>1, Zenon DEF Removed
<1>2. d.objects = c.objects /\ DOMAIN d.tree = L /\ \A p \in L : d.tree[p] = c.tree[p]
    BY <1>1 DEF Sound
<1>3. b # "name" /\ \A p \in E : Named(p)
    BY DEF Laid, Named
<1>4. \A m, n : <<"entry", m, n>> \in D <=> <<"entry", m, n>> \in E /\ ~(m = a /\ n = b)
    OBVIOUS
<1>5. D \subseteq E /\ \A p \in E : p \in D \/ p = path
    OBVIOUS
<1> HIDE DEF d, D
<1>6. ASSUME NEW m, NEW n, <<"entry", m, n>> \in D
      PROVE  <<"entry", m, n>> \in L /\ (bare => m # a)
  <2> DEFINE q == <<"entry", m, n>>
  <2>1. q \in DOMAIN c.tree /\ n # "name" /\ ~(m = a /\ n = b)
    BY <1>4, <1>5, <1>6 DEF Laid, Named
  <2>2. /\ Rules!IsPrefix(path, q) <=> a = m /\ b = n
        /\ Rules!IsPrefix(machine, q) <=> a = m
    BY DetectorPrefix, MachinePrefix
  <2>3. q \in left
    BY <2>1, <2>2
  <2>4. ASSUME bare PROVE m # a
    <3>1. SUFFICES ASSUME m = a PROVE FALSE
        OBVIOUS
    <3>2. Rules!Inside(q, machine)
        BY <2>2, <3>1 DEF Rules!Inside
    <3>3. q = name
        BY <2>3, <2>4, <3>2
    <3> QED BY <2>1, <3>3
  <2> HIDE DEF left, bare, machine
  <2>5. q \in L
    BY <2>2, <2>3, <2>4
  <2> QED BY <2>4, <2>5
<1>7. ASSUME NEW q \in left PROVE Known(q, D)
  <2>1. q \in DOMAIN c.tree /\ ~Rules!IsPrefix(path, q)
    OBVIOUS
  <2>2. Known(q, E)
    BY <2>1 DEF Laid
  <2>3. ASSUME NEW m, NEW n, <<"entry", m, n>> \in E, Below(q, m, n) PROVE <<"entry", m, n>> \in D
    <3>1. ~(a = m /\ b = n)
        BY <2>1, <2>3, BelowPrefix
    <3> QED BY <1>4, <2>3, <3>1
  <2> QED BY <2>2, <2>3 DEF Known
<1>8. L \subseteq left /\ left \subseteq DOMAIN c.tree
    OBVIOUS
<1>9. ASSUME NEW p \in L, c.objects[c.tree[p]].class = "NXdetector" PROVE p \in D
  <2>1. p \in E
    BY <1>8, <1>9 DEF Laid
  <2>2. p # path
    <3>1. Rules!IsPrefix(path, path)
        BY DetectorPrefix
    <3>2. p \in left
        BY <1>8
    <3> QED BY <3>1, <3>2
  <2> QED BY <1>5, <2>1, <2>2
<1>10. ASSUME NEW p \in L, c.objects[c.tree[p]].class = "NXinstrument" PROVE Houses(p, D)
  <2>1. Houses(p, E)
    BY <1>8, <1>10 DEF Laid
  <2>2. PICK m, n : <<"entry", m, n>> \in E /\ p = <<"entry", m>>
    BY <2>1 DEF Houses
  <2>3. CASE ~(m = a /\ n = b)
    BY <1>4, <2>2, <2>3 DEF Houses
  <2>4. CASE m = a /\ n = b
    <3>1. p = machine
        BY <2>2, <2>4
    <3>2. Rules!IsPrefix(machine, machine)
        BY GroupPrefix
    <3>3. ~ bare
      <4> HIDE DEF bare, left, machine
      <4> QED BY <3>1, <3>2
    <3>4. PICK q \in left : Rules!Inside(q, machine) /\ q # name
        BY <3>3
    <3>5. q # machine /\ Rules!IsPrefix(machine, q)
        BY <3>4 DEF Rules!Inside
    <3>6. Known(q, D)
        BY <1>7
    <3>7. q # Entry
        BY <3>5, EntryPrefix
    <3>8. \A x : q # <<"entry", x>>
        BY <3>5, GroupPrefix
    <3>9. \A x : q # <<"entry", x, "name">>
        BY <3>4, <3>5, MachinePrefix
    <3>10. PICK x, y : <<"entry", x, y>> \in D /\ Below(q, x, y)
        BY <3>6, <3>7, <3>8, <3>9 DEF Known
    <3>11. x = a
        BY <3>5, <3>10, BelowPrefix
    <3> QED BY <3>1, <3>10, <3>11 DEF Houses
  <2> QED BY <2>3, <2>4
<1>11. Laid(d, D, D)
  <2>1. ASSUME NEW p \in D
        PROVE  p \in DOMAIN d.tree /\ d.tree[p] = p /\ d.objects[p].class = "NXdetector"
    <3>1. p \in E
        BY <1>5
    <3>2. PICK m, n : p = <<"entry", m, n>>
        BY <1>3, <3>1 DEF Named
    <3>3. p \in L
        BY <1>6, <3>2
    <3>4. c.tree[p] = p /\ c.objects[p].class = "NXdetector"
        BY <3>1 DEF Laid
    <3> HIDE DEF L
    <3> QED BY <1>2, <3>3, <3>4
  <2>2. \A p \in DOMAIN d.tree : Known(p, D)
    <3> HIDE DEF L, left
    <3> QED BY <1>2, <1>7, <1>8
  <2>3. \A p \in DOMAIN d.tree : /\ d.objects[d.tree[p]].class = "NXdetector" => p \in D
                                 /\ d.objects[d.tree[p]].class = "NXinstrument" => Houses(p, D)
    <3> HIDE DEF L
    <3> QED BY <1>2, <1>9, <1>10
  <2>4. \A p \in D : Named(p)
    BY <1>3, <1>5
  <2> QED BY <2>1, <2>2, <2>3, <2>4 DEF Laid
<1>12. Roofed(d, D)
  <2>1. ASSUME NEW x, <<"entry", x>> \in L
        PROVE  x \in RESERVED_ENTRY_NAMES \/ <<"entry", x, "name">> \in L
    <3> DEFINE q == <<"entry", x, "name">>
    <3>1. CASE x \in RESERVED_ENTRY_NAMES
        BY <3>1
    <3>2. CASE x \notin RESERVED_ENTRY_NAMES
      <4>1. q \in DOMAIN c.tree
        BY <1>8, <2>1, <3>2 DEF Roofed
      <4>2. /\ Rules!IsPrefix(path, q) <=> a = x /\ b = "name"
            /\ Rules!IsPrefix(machine, q) <=> a = x
            /\ Rules!IsPrefix(machine, <<"entry", x>>) <=> a = x
        BY DetectorPrefix, MachinePrefix, GroupPrefix
      <4>3. q \in left
        BY <1>3, <4>1, <4>2
      <4> HIDE DEF left, bare, machine, q
      <4>4. q \in L
        BY <2>1, <4>2, <4>3
      <4> QED BY <4>4 DEF q
    <3> QED BY <3>1, <3>2
  <2>2. ASSUME NEW m, NEW n, <<"entry", m, n>> \in D PROVE <<"entry", m>> \in L
    <3>1. <<"entry", m>> \in DOMAIN c.tree
        BY <1>5, <2>2 DEF Roofed
    <3>2. ~ Rules!IsPrefix(path, <<"entry", m>>) /\ (Rules!IsPrefix(machine, <<"entry", m>>) <=> a = m)
        BY NotPrefix, GroupPrefix
    <3>3. <<"entry", m>> \in left
        BY <3>1, <3>2
    <3>4. bare => m # a
        BY <1>6, <2>2
    <3> HIDE DEF left, bare, machine
    <3> QED BY <3>2, <3>3, <3>4
  <2> HIDE DEF L
  <2> QED BY <1>2, <2>1, <2>2 DEF Roofed
<1> QED BY <1>11, <1>12 DEF d, D

(* The shot's own fields have no detector. *)
LEMMA OpenedLaid == Laid(Opened, {}, {}) /\ Roofed(Opened, {})
<1> DEFINE c0 == [tree |-> [p \in {Entry} |-> Entry],
                  objects |-> [o \in {Entry} |-> Rules!Object("NXentry")]]
           c1 == With(c0, <<"entry", "title">>, "data")
           c2 == IF ShotRow.fired_at THEN With(c1, <<"entry", "start_time">>, "data") ELSE c1
           c3 == IF ShotRow.labfrog THEN With(c2, <<"entry", "labfrog_shot">>, "NXcollection") ELSE c2
           Bare(c) == Sound(c) /\ Laid(c, {}, {}) /\ Roofed(c, {})
<1>1. Bare(c0)
  <2>1. Sound(c0)
    BY ObjectHas DEF Sound, Entry
  <2>2. Laid(c0, {}, {})
    BY ObjectClass DEF Laid, Known, Entry
  <2>3. Roofed(c0, {})
    BY DEF Roofed, Entry
  <2> QED BY <2>1, <2>2, <2>3
<1>2. ASSUME NEW c, NEW x \in RESERVED_ENTRY_NAMES, NEW class, Bare(c),
             class \notin {"NXdetector", "NXinstrument"}
      PROVE  Bare(With(c, <<"entry", x>>, class))
  <2> DEFINE path == <<"entry", x>>
             d == With(c, path, class)
  <2>1. Known(path, {}) /\ path \notin {} /\ path # <<>>
    BY DEF Known
  <2>2. /\ Laid(d, {}, {}) /\ Sound(d)
        /\ DOMAIN d.tree = DOMAIN c.tree \cup {path}
    <3> HIDE DEF path
    <3> QED BY <1>2, <2>1, WithLaid
  <2> HIDE DEF d
  <2>3. Roofed(d, {})
    BY <1>2, <2>2 DEF Roofed
  <2> QED BY <2>2, <2>3 DEF d
<1>3. {"title", "start_time", "labfrog_shot"} \subseteq RESERVED_ENTRY_NAMES
    BY DEF RESERVED_ENTRY_NAMES
<1> HIDE DEF Bare, c0
<1>4. Bare(c1)
    BY <1>1, <1>2, <1>3
<1> HIDE DEF c1
<1>5. Bare(c2)
    BY <1>2, <1>3, <1>4
<1> HIDE DEF c2
<1>6. Bare(c3)
    BY <1>2, <1>3, <1>5
<1>7. Opened = c3
    BY DEF Opened, c0, c1, c2
<1> QED BY <1>6, <1>7 DEF Bare
-----------------------------------------------------------------------------
(* What acquisitions are called. *)

(* What names acquisitions can take, and that instruments sort.            *)
Founding ==
    \A p \in DOMAIN acquisitions :
        /\ {"label", "seq"} \subseteq DOMAIN acquisitions[p]
        /\ Detector(p[2], acquisitions[p].label) \in DetectorNames(scene)
        /\ Suffix(p) \in Tails(scene)
        /\ Rank(p[2]) \in Int

(* The table lists finitely many files. *)
LEMMA FedFinite == ASSUME Read PROVE IsFiniteSet(Fed(table))
<1> DEFINE fed(i) == {<<i, path>> : path \in DOMAIN table[i].files}
           f == [i \in DOMAIN table |-> fed(i)]
           T == {fed(i) : i \in DOMAIN table}
<1>1. /\ Cardinality(DOMAIN table) \in Nat /\ DOMAIN table = 1 .. Cardinality(DOMAIN table)
      /\ \A i \in DOMAIN table : IsFiniteSet(DOMAIN table[i].files)
    BY ScenesAssumption, RowsAssumption DEF Read
<1>2. IsFiniteSet(DOMAIN table)
    BY <1>1, FS_Interval
<1>3. ASSUME NEW i \in DOMAIN table PROVE IsFiniteSet(fed(i))
  <2> DEFINE S == DOMAIN table[i].files
             g == [path \in S |-> <<i, path>>]
  <2>1. g \in Surjection(S, fed(i)) /\ IsFiniteSet(S)
    BY <1>1 DEF Surjection
  <2> HIDE DEF g, S, fed
  <2> QED BY <2>1, FS_Surjection
<1> HIDE DEF fed
<1>4. f \in Surjection(DOMAIN table, T)
    BY DEF Surjection
<1> HIDE DEF f
<1>5. IsFiniteSet(T)
    BY <1>2, <1>4, FS_Surjection
<1>6. \A X \in T : IsFiniteSet(X)
    BY <1>3
<1>7. IsFiniteSet(UNION T)
    BY <1>5, <1>6, FS_UNION
<1> QED BY <1>7 DEF Fed, fed

(* There are no more acquisitions than files listed. *)
LEMMA FewAcquisitions ==
    ASSUME Read, SlicesJoin, RowByRow
    PROVE  /\ IsFiniteSet(DOMAIN acquisitions)
           /\ Cardinality(DOMAIN acquisitions) \in Nat
           /\ Cardinality(Fed(table)) \in Nat
           /\ Cardinality(DOMAIN acquisitions) <= Cardinality(Fed(table))
<1> DEFINE row_at(i) == [table[i] EXCEPT !.at = i]
           S == Fed(table)
           f == [x \in S |-> Place(row_at(x[1]), x[2])]
           T == {f[x] : x \in S}
<1>1. IsFiniteSet(S)
    BY FedFinite
<1>2. \A p \in DOMAIN acquisitions : p \in T
  <2> TAKE p \in DOMAIN acquisitions
  <2>1. PICK r \in taken : p \in Places(r)
    BY DEF RowByRow
  <2>2. PICK path \in DOMAIN r.files : p = Place(r, path)
    BY <2>1 DEF Places
  <2>3. PICK i \in DOMAIN table : r = row_at(i)
    BY <2>1 DEF Read, SlicesJoin, Rows
  <2>4. RowFields \subseteq DOMAIN table[i]
    BY ScenesAssumption DEF Read
  <2>5. r.files = table[i].files
    BY <2>3, <2>4
  <2>6. <<i, path>> \in S
    BY <2>5, <2>2 DEF Fed
  <2>7. f[<<i, path>>] = Place(r, path)
    BY <2>3, <2>6
  <2> HIDE DEF f, S
  <2> QED BY <2>2, <2>6, <2>7
<1>3. f \in Surjection(S, T)
    BY DEF Surjection
<1> HIDE DEF f, S
<1>4. IsFiniteSet(T) /\ Cardinality(T) <= Cardinality(S)
    BY <1>1, <1>3, FS_Surjection
<1> HIDE DEF T
<1>5. /\ IsFiniteSet(DOMAIN acquisitions)
      /\ Cardinality(DOMAIN acquisitions) <= Cardinality(T)
    BY <1>2, <1>4, FS_Subset
<1>6. Cardinality(DOMAIN acquisitions) \in Nat /\ Cardinality(S) \in Nat /\ Cardinality(T) \in Nat
    BY <1>1, <1>4, <1>5, FS_CardinalityType
<1> QED BY <1>4, <1>5, <1>6 DEF S

(* A name, or what it is made safe as. *)
LEMMA SafeIs ==
    ASSUME NEW name PROVE Safe(name) = name \/ \E x \in DOMAIN scene.safe : Safe(name) = scene.safe[x]
    BY DEF Safe

(* A detector's name is one of those listed. *)
LEMMA DetectorListed ==
    ASSUME Read, SlicesJoin, NEW r \in rows
    PROVE  Detector(InstrumentId(r), Label(r)) \in DetectorNames(scene)
<1> DEFINE inst == InstrumentId(r)
           layout == Layout(inst, Label(r))
           safe == {scene.safe[name] : name \in DOMAIN scene.safe}
           entries == UNION {{e.instrument_name, e.display, e.detector_name} :
                                e \in {scene.catalogue[i] : i \in DOMAIN scene.catalogue}}
           watched == UNION {UNION {{t[i].watch_name, InstrumentId(t[i])} : i \in DOMAIN t} :
                                t \in scene.tables}
           N == DetectorNames(scene)
<1>1. N = {"detector", "name_detector"} \cup entries \cup watched \cup safe
    BY Zenon DEF DetectorNames
<1>2. r.watch_name \in watched /\ inst \in watched
  <2>1. PICK j \in Rows : r = [table[j] EXCEPT !.at = j]
    BY DEF SlicesJoin
  <2>2. RowFields \subseteq DOMAIN table[j] /\ table \in scene.tables /\ j \in DOMAIN table
    BY ScenesAssumption DEF Read, Rows
  <2>3. r.inst = table[j].inst /\ r.watch_name = table[j].watch_name /\ r.id = table[j].id
    BY <2>1, <2>2 DEF RowFields
  <2>4. inst = InstrumentId(table[j]) /\ r.watch_name = table[j].watch_name
    BY <2>3 DEF InstrumentId
  <2> QED BY <2>2, <2>4
<1>3. Catalogued(inst) => {scene.catalogue[inst].instrument_name, scene.catalogue[inst].display,
                        scene.catalogue[inst].detector_name} \subseteq entries
    BY DEF Catalogued
<1>4. \A name \in N : Safe(name) \in N
  <2>1. safe \subseteq N
    BY <1>1
  <2> HIDE DEF N
  <2> QED BY <2>1, SafeIs
<1>5. "detector" \in N /\ "name_detector" \in N /\ entries \subseteq N /\ watched \subseteq N
    BY <1>1
<1> HIDE DEF entries, watched, safe, N
<1>6. Label(r) \in N
    BY <1>2, <1>3, <1>5 DEF Label
<1>7. /\ layout.instrument_name \in N /\ (layout.display \in N \/ layout.display = "")
      /\ layout.detector_name \in N \/ layout.detector_name = ""
  <2>1. CASE Catalogued(inst)
    BY <1>3, <1>5, <2>1 DEF Layout
  <2>2. CASE ~ Catalogued(inst)
    BY <1>6, <2>2 DEF Layout
  <2> QED BY <2>1, <2>2
<1> HIDE DEF layout
<1>8. InstrumentName(inst, Label(r)) \in N
  <2>1. InstrumentName(inst, Label(r)) = Or(Or(layout.instrument_name, layout.display), Label(r))
    BY DEF InstrumentName, layout
  <2> QED BY <1>6, <1>7, <2>1 DEF Or
<1>9. Or(layout.detector_name, "detector") \in N
    BY <1>5, <1>7 DEF Or
<1>10. Detector(inst, Label(r)) \in {"name_detector", Safe(InstrumentName(inst, Label(r))),
                                  Safe(Or(layout.detector_name, "detector"))}
    BY DEF Detector, layout
<1> QED BY <1>4, <1>5, <1>8, <1>9, <1>10 DEF N

(* So is what is put after it. *)
LEMMA SuffixListed ==
    ASSUME Read, SlicesJoin, NEW r \in rows, NEW path \in DOMAIN r.files, NEW p, p = Place(r, path)
    PROVE  LET seq == ClaimOf(r, path).seq
           IN  (IF seq # None THEN ToString(seq) ELSE Safe(p[3][Len(p[3])])) \in Tails(scene)
<1> DEFINE file == scene.files[path]
           folder == FolderLabel(file, r.watch)
           claim == Claim(r.pack, file, folder)
           T == Tails(scene)
<1>1. file \in {scene.files[q] : q \in DOMAIN scene.files}
  <2>1. PICK j \in Rows : r = [table[j] EXCEPT !.at = j]
    BY DEF SlicesJoin
  <2>2. /\ RowFields \subseteq DOMAIN table[j] /\ table \in scene.tables /\ j \in DOMAIN table
        /\ DOMAIN table[j].files \subseteq DOMAIN scene.files
    BY ScenesAssumption, RowsAssumption DEF Read, Rows
  <2>3. r.files = table[j].files
    BY <2>1, <2>2
  <2> QED BY <2>2, <2>3
<1> DEFINE files == {scene.files[q] : q \in DOMAIN scene.files}
           of_files == UNION {{ToString(f.seq), f.stem, f.label} : f \in files}
           safe == {scene.safe[name] : name \in DOMAIN scene.safe}
<1>t. T = of_files \cup safe
    BY DEF Tails
<1>2. ToString(file.seq) \in T /\ file.stem \in T /\ file.label \in T
  <2> HIDE DEF T, files, safe, file
  <2>1. {ToString(file.seq), file.stem, file.label} \in {{ToString(f.seq), f.stem, f.label} : f \in files}
    BY <1>1 DEF files
  <2> QED BY <1>t, <2>1
<1>3. \A name \in T : Safe(name) \in T
  <2> HIDE DEF T, of_files
  <2>1. \A x \in DOMAIN scene.safe : scene.safe[x] \in T
    BY <1>t
  <2> HIDE DEF T
  <2> QED BY <2>1, SafeIs
<1>4. claim = ClaimOf(r, path) /\ p[3] = claim.key
    BY DEF ClaimOf, Place
<1> HIDE DEF T, folder, file
<1>5. /\ claim.seq \in {None, file.seq}
      /\ claim.key = <<folder, file.stem>> \/ claim.key = <<file.label>> \/ claim.key = <<file.stem>>
    BY DEF Claim
<1> HIDE DEF claim
<1>6. p[3][Len(p[3])] \in {file.stem, file.label}
  <2>1. /\ Len(<<folder, file.stem>>) = 2 /\ <<folder, file.stem>>[2] = file.stem
        /\ Len(<<file.label>>) = 1 /\ <<file.label>>[1] = file.label
        /\ Len(<<file.stem>>) = 1 /\ <<file.stem>>[1] = file.stem
    OBVIOUS
  <2> QED BY <1>4, <1>5, <2>1
<1>7. claim.seq # None => ToString(claim.seq) \in T
    BY <1>2, <1>5
<1>8. Safe(p[3][Len(p[3])]) \in T
    BY <1>2, <1>3, <1>6
<1> QED BY <1>4, <1>7, <1>8 DEF T

(* What an acquisition is called was settled when it was founded. *)
LEMMA FoundingStep ==
    ASSUME PlanInv, Founding, NEW r \in rows, TakeRow(r)
    PROVE  Founding'
<1> DEFINE old(p) == IF p \in DOMAIN acquisitions THEN acquisitions[p] ELSE Founded(r, p)
           Fit(p) == /\ {"label", "seq"} \subseteq DOMAIN acquisitions[p]
                     /\ Detector(p[2], acquisitions[p].label) \in DetectorNames(scene)
                     /\ Suffix(p) \in Tails(scene)
                     /\ Rank(p[2]) \in Int
<1>0. Read /\ SlicesJoin
    BY DEF PlanInv
<1>1. acquisitions' = AddEvent(r) /\ UNCHANGED scene
    BY DEF TakeRow
<1>2. /\ DOMAIN acquisitions' = DOMAIN acquisitions \cup Places(r)
      /\ \A p \in DOMAIN acquisitions \ Places(r) : acquisitions'[p] = acquisitions[p]
      /\ \A p \in Places(r) : acquisitions'[p] = Joined(old(p), r, p)
    BY <1>1 DEF AddEvent
<1>3. \A p \in Places(r) : /\ acquisitions'[p].label = old(p).label
                           /\ acquisitions'[p].seq = old(p).seq
                           /\ {"label", "seq"} \subseteq DOMAIN acquisitions'[p]
  <2>1. \A p \in Places(r) : {"label", "seq"} \subseteq DOMAIN old(p)
    BY DEF Founding, Founded
  <2> HIDE DEF old
  <2> QED BY <1>2, <2>1 DEF Joined
<1>4. ASSUME NEW p, Fit(p), acquisitions'[p].label = acquisitions[p].label,
             acquisitions'[p].seq = acquisitions[p].seq,
             {"label", "seq"} \subseteq DOMAIN acquisitions'[p]
      PROVE  Fit(p)'
    BY <1>1, <1>4 DEF Detector, InstrumentName, Layout, Catalogued, Safe, Suffix, Rank
<1>5. ASSUME NEW p \in Places(r), p \notin DOMAIN acquisitions PROVE Fit(p)'
  <2> DEFINE path == CHOOSE q \in DOMAIN r.files : Place(r, q) = p
  <2>1. \E q \in DOMAIN r.files : Place(r, q) = p
    BY DEF Places
  <2>2. path \in DOMAIN r.files /\ Place(r, path) = p
    BY <2>1
  <2>3. acquisitions'[p].label = Label(r) /\ acquisitions'[p].seq = ClaimOf(r, path).seq
    BY <1>3, <1>5 DEF Founded
  <2>4. p[2] = InstrumentId(r)
    BY <2>2 DEF Place
  <2> HIDE DEF path
  <2>5. Detector(p[2], Label(r)) \in DetectorNames(scene)
    BY <1>0, <2>4, DetectorListed
  <2>6. Rank(p[2]) \in Int
    <3>1. PICK j \in Rows : r = [table[j] EXCEPT !.at = j]
        BY <1>0 DEF SlicesJoin
    <3>2. /\ RowFields \subseteq DOMAIN table[j] /\ scene.rank[InstrumentId(table[j])] \in Int
        BY <1>0, ScenesAssumption, RowsAssumption DEF Read, Rows
    <3>3. r.inst = table[j].inst /\ r.watch_name = table[j].watch_name /\ r.id = table[j].id
        BY <3>1, <3>2 DEF RowFields
    <3> QED BY <2>4, <3>2, <3>3 DEF InstrumentId, Rank
  <2>7. Suffix(p)' \in Tails(scene)
    BY <1>0, <1>1, <2>2, <2>3, SuffixListed DEF Suffix, Safe
  <2>8. {"label", "seq"} \subseteq DOMAIN acquisitions'[p]
    BY <1>3
  <2> QED BY <1>1, <2>3, <2>5, <2>6, <2>7, <2>8 DEF Detector, InstrumentName, Layout, Catalogued, Safe, Rank
<1>6. ASSUME NEW p \in DOMAIN acquisitions PROVE Fit(p)'
  <2>1. Fit(p)
    BY DEF Founding
  <2>2. acquisitions'[p].label = acquisitions[p].label /\ acquisitions'[p].seq = acquisitions[p].seq
       /\ {"label", "seq"} \subseteq DOMAIN acquisitions'[p]
    BY <1>2, <1>3 DEF Founding
  <2> HIDE DEF Fit
  <2> QED BY <1>4, <2>1, <2>2
<1> HIDE DEF Fit
<1>7. \A p \in DOMAIN acquisitions' : Fit(p)'
    BY <1>2, <1>5, <1>6
<1> QED BY <1>7 DEF Fit, Founding
-----------------------------------------------------------------------------
(* Where an acquisition goes. *)

(* The name an acquisition takes when it is free. *)
Plain(p) == <<"entry", Machine(p[2], acquisitions[p].label), Detector(p[2], acquisitions[p].label)>>

(* Of the names of a machine that are taken, all but "name" are detectors. *)
LEMMA TakenNames ==
    ASSUME NEW c, NEW D, Laid(c, D, D), NEW m, NEW n, <<"entry", m, n>> \in DOMAIN c.tree
    PROVE  n = "name" \/ <<"entry", m, n>> \in D
<1> DEFINE q == <<"entry", m, n>>
<1>1. Known(q, D)
    BY DEF Laid
<1>2. q # Entry /\ (\A x : q # <<"entry", x>>) /\ \A x : q = <<"entry", x, "name">> => n = "name"
    BY DEF Entry
<1>3. \A x, y : Below(q, x, y) => q = <<"entry", x, y>>
    BY DEF Below
<1> HIDE DEF q
<1>4. n = "name" \/ q \in D
    BY <1>1, <1>2, <1>3 DEF Known
<1> QED BY <1>4 DEF q

(* A machine is no field of the shot's own, a detector no machine's name. *)
LEMMA PlainNamed == ASSUME NEW p PROVE Named(Plain(p))
<1> DEFINE i == p[2]
           label == acquisitions[p].label
           layout == Layout(i, label)
           machine == Safe(Or(layout.group, InstrumentName(i, label)))
           name == IF layout.group # "" THEN Safe(InstrumentName(i, label))
                   ELSE Safe(Or(layout.detector_name, "detector"))
<1>1. Machine(i, label) = IF machine \in RESERVED_ENTRY_NAMES THEN machine \o "_instrument" ELSE machine
    BY DEF Machine
<1>2. Detector(i, label) = IF name = "name" THEN "name_detector" ELSE name
    BY DEF Detector
<1> HIDE DEF machine, name
<1>3. Machine(i, label) \notin RESERVED_ENTRY_NAMES
    BY <1>1, TailAssumption
<1>4. Detector(i, label) # "name"
    BY <1>2
<1> QED BY <1>3, <1>4 DEF Named, Plain

(* Numbers have a least one. *)
LEMMA LeastOf ==
    ASSUME NEW S, S \subseteq Nat, S # {}
    PROVE  \E n \in S : \A k \in S : n <= k
<1> DEFINE R == OpToRel(<, Nat)
<1>1. IsWellFoundedOn(R, Nat)
    BY NatLessThanWellFounded
<1>2. \A k, n \in Nat : k < n => <<k, n>> \in R
    BY DEF OpToRel
<1> HIDE DEF R
<1>a. \E n \in S : \A k \in S : ~ (<<k, n>> \in R)
    BY <1>1, WFMin, Zenon
<1>3. PICK n \in S : \A k \in S : ~ (<<k, n>> \in R)
    BY <1>a, Zenon
<1>4. n \in Nat /\ \A k \in S : k \in Nat
    OBVIOUS
<1>5. \A k \in S : ~ (k < n)
    BY <1>2, <1>3, <1>4
<1>6. \A k \in S : n <= k
    BY <1>4, <1>5
<1> QED BY <1>6

(* An acquisition gets a path that nothing has, a detector's, and a tail   *)
(* only when the plain one is taken: of more tails than there can be       *)
(* detectors, one is free.                                                 *)
LEMMA NewPath ==
    ASSUME PlanInv, Founding, NEW p \in DOMAIN acquisitions, NEW c, NEW D, Laid(c, D, D), Roofed(c, D),
           IsFiniteSet(D), Cardinality(D) < Cardinality(DOMAIN acquisitions)
    PROVE  LET path == DetectorPath(c.tree, p)
           IN  /\ path \notin DOMAIN c.tree
               /\ Named(path)
               /\ path # Plain(p) => Plain(p) \in D
<1> DEFINE m == Machine(p[2], acquisitions[p].label)
           d == Detector(p[2], acquisitions[p].label)
           size == Cardinality(DOMAIN acquisitions)
           machine == <<"entry", m>>
           plain == Append(machine, d)
           tailed(n) == Append(machine, Tailed(d, Suffix(p), n))
           free == {n \in 1 .. (size + 1) : tailed(n) \notin DOMAIN c.tree}
           picked == CHOOSE n \in free : \A k \in free : n <= k
           path == DetectorPath(c.tree, p)
<1>1. path = IF plain \notin DOMAIN c.tree THEN plain ELSE tailed(picked)
    BY Zenon DEF DetectorPath
<1>2. /\ plain = <<"entry", m, d>> /\ plain = Plain(p)
      /\ \A n : tailed(n) = <<"entry", m, Tailed(d, Suffix(p), n)>>
    BY AppendTwo DEF Plain
<1>3. m \notin RESERVED_ENTRY_NAMES /\ d # "name"
    BY PlainNamed DEF Named, Plain
<1>4. size \in Nat /\ Cardinality(Fed(table)) \in Nat /\ size <= Cardinality(Fed(table))
    BY FewAcquisitions DEF PlanInv
<1>5. \A k, n \in 1 .. (size + 1) : tailed(k) = tailed(n) => k = n
  <2> DEFINE fed == Cardinality(Fed(table))
             leaf(n) == Tailed(d, Suffix(p), n)
  <2>1. scene \in Scenes /\ fed \in {Cardinality(Fed(t)) : t \in scene.tables}
    BY DEF PlanInv, Read
  <2>2. d \in DetectorNames(scene) /\ Suffix(p) \in Tails(scene)
    BY DEF Founding
  <2>3. \A k, n \in 1 .. (fed + 1) : leaf(k) = leaf(n) => k = n
    BY <2>1, <2>2, NumeralsAssumption
  <2>4. \A k, n : tailed(k) = tailed(n) => leaf(k) = leaf(n)
    BY <1>2
  <2> HIDE DEF fed, leaf, tailed, size
  <2>5. 1 .. (size + 1) \subseteq 1 .. (fed + 1)
    BY <1>4 DEF fed
  <2> QED BY <2>3, <2>4, <2>5
<1> HIDE DEF m, d, machine, plain, tailed, path, picked
<1>6. CASE plain \notin DOMAIN c.tree
    BY <1>1, <1>2, <1>3, <1>6 DEF Named, path
<1>7. CASE plain \in DOMAIN c.tree
  <2>1. plain \in D
    BY <1>2, <1>3, <1>7, TakenNames
  <2>2. <<"entry", m, "name">> \in DOMAIN c.tree
    BY <1>2, <1>3, <2>1 DEF Roofed
  <2>3. free # {}
    <3>1. SUFFICES ASSUME free = {} PROVE FALSE
        OBVIOUS
    <3> DEFINE name == <<"entry", m, "name">>
               S == 1 .. (size + 1)
               T == D \cup {name}
               f == [n \in S |-> tailed(n)]
    <3>2. \A n \in S : tailed(n) \in T
        BY <1>2, <3>1, TakenNames
    <3> HIDE DEF name, size
    <3>3. IsFiniteSet(S) /\ Cardinality(S) = size + 1
      <4>1. 1 \in Int /\ size + 1 \in Int /\ ~(1 > size + 1) /\ (size + 1) - 1 + 1 = size + 1
        BY <1>4
      <4> QED BY <4>1, FS_Interval
    <3>4. IsFiniteSet(T) /\ Cardinality(T) <= Cardinality(D) + 1 /\ Cardinality(D) \in Nat
      <4>1. Cardinality(D) \in Nat
        BY FS_CardinalityType
      <4>2. /\ IsFiniteSet(D \cup {name})
            /\ Cardinality(D \cup {name}) = IF name \in D THEN Cardinality(D) ELSE Cardinality(D) + 1
        BY FS_AddElement
      <4> QED BY <4>1, <4>2
    <3> HIDE DEF T
    <3>5. Cardinality(T) < Cardinality(S)
        <4>1. Cardinality(T) \in Nat /\ Cardinality(D) < size
            BY <3>4, FS_CardinalityType DEF size
        <4> QED BY <1>4, <3>3, <3>4, <4>1
    <3> HIDE DEF S
    <3>6. f \in [S -> T] /\ \A n \in S : f[n] = tailed(n)
        BY <3>2
    <3> HIDE DEF f
    <3>7. \E k, n \in S : k # n /\ f[k] = f[n]
        BY <3>3, <3>4, <3>5, <3>6, FS_PigeonHole
    <3> QED BY <1>5, <3>6, <3>7 DEF S
  <2>4. picked \in free
    <3>1. free \subseteq Nat
        OBVIOUS
    <3> HIDE DEF free
    <3>2. \E n \in free : \A k \in free : n <= k
        BY <2>3, <3>1, LeastOf
    <3> QED BY <3>2 DEF picked
  <2>5. path = tailed(picked) /\ path \notin DOMAIN c.tree
    BY <1>1, <1>7, <2>4
  <2>6. path = <<"entry", m, Tailed(d, Suffix(p), picked)>>
    BY <1>2, <2>5
  <2>7. Tailed(d, Suffix(p), picked) # "name"
    BY <2>2, <2>5, <2>6
  <2> QED BY <1>2, <1>3, <2>1, <2>5, <2>6, <2>7 DEF Named, path
<1> QED BY <1>6, <1>7
-----------------------------------------------------------------------------
(* The acquisitions tried. *)

(* The detectors kept, their acquisitions, and the one being streamed.     *)
Paths == {kept[k].path : k \in DOMAIN kept}
Ofs == {kept[k].of : k \in DOMAIN kept}
Writing == IF phase = "frames" THEN {at.path} ELSE {}

(* Each acquisition tried is kept, once, or left out and said to be. *)
Tried ==
    /\ phase = "plan" => written = {}
    /\ written \subseteq Planning
    /\ omitted \cup Ofs = written
    /\ omitted \cap Ofs = {}
    /\ \A p \in omitted : [about |-> p[2], why |-> "detector omitted"] \in result
    /\ \A k \in DOMAIN kept : kept[k].instrument = kept[k].of[2]
    /\ \A k, l \in DOMAIN kept : k # l => kept[k].path # kept[l].path /\ kept[k].of # kept[l].of
    /\ phase = "frames" => at.of \in Planning \ written /\ at.path \notin Paths

(* They are tried, and kept, in their order. *)
InOrder ==
    /\ \A k, l \in DOMAIN kept : k < l => Before(kept[k].of, kept[l].of)
    /\ \A p \in written : \A q \in Planning \ written : Before(p, q)
    /\ phase = "frames" => \A q \in Planning \ (written \cup {at.of}) : Before(at.of, q)

(* A name with a tail is taken after the plain one. *)
PlainFirst ==
    /\ \A k \in DOMAIN kept : kept[k].path # Plain(kept[k].of) =>
          \E l \in DOMAIN kept : l < k /\ kept[l].path = Plain(kept[k].of)
    /\ phase = "frames" /\ at.path # Plain(at.of) => Plain(at.of) \in Paths

(* The container's detectors are those kept, and the one being streamed;   *)
(* rows leave them detectors.                                              *)
Detectors ==
    /\ phase \in {"write", "frames"} =>
          /\ Laid(container, Paths \cup Writing, Paths \cup Writing)
          /\ Roofed(container, Paths \cup Writing)
    /\ phase \in {"map", "closed"} =>
          \A d \in Paths : /\ d \in DOMAIN container.tree
                           /\ container.objects[container.tree[d]].class = "NXdetector"

(* The list of detectors with one more. *)
LEMMA KeptMore ==
    ASSUME NEW one, \E S : kept \in Seq(S)
    PROVE  LET more == Append(kept, one)
           IN  /\ Len(kept) \in Nat /\ DOMAIN kept = 1 .. Len(kept)
               /\ DOMAIN more = DOMAIN kept \cup {Len(kept) + 1}
               /\ \A i \in DOMAIN kept : more[i] = kept[i]
               /\ more[Len(kept) + 1] = one
<1> DEFINE more == Append(kept, one)
<1>1. PICK S : kept \in Seq(S)
    OBVIOUS
<1>2. kept \in Seq(S \cup {one})
    BY <1>1, SeqMonotonic
<1>3. Len(kept) \in Nat /\ DOMAIN kept = 1 .. Len(kept)
    BY <1>1, LenProperties
<1>4. /\ more \in Seq(S \cup {one}) /\ Len(more) = Len(kept) + 1
      /\ \A i \in 1 .. Len(kept) : more[i] = kept[i]
      /\ more[Len(kept) + 1] = one
    BY <1>2, AppendProperties
<1>5. DOMAIN more = 1 .. Len(kept) + 1
    BY <1>4, LenProperties
<1> HIDE DEF more
<1>6. 1 .. Len(kept) + 1 = (1 .. Len(kept)) \cup {Len(kept) + 1}
    BY <1>3
<1> QED BY <1>3, <1>4, <1>5, <1>6 DEF more

(* No two detectors share a path, no two are of one acquisition. *)
LEMMA CountKept ==
    ASSUME Tried, \E S : kept \in Seq(S)
    PROVE  /\ IsFiniteSet(Paths) /\ Cardinality(Paths) = Len(kept)
           /\ IsFiniteSet(Ofs) /\ Cardinality(Ofs) = Len(kept)
<1> DEFINE I == DOMAIN kept
           f == [k \in I |-> kept[k].path]
           g == [k \in I |-> kept[k].of]
<1>1. Len(kept) \in Nat /\ I = 1 .. Len(kept)
    BY KeptMore
<1>2. IsFiniteSet(I) /\ Cardinality(I) = Len(kept)
  <2> HIDE DEF I
  <2>1. 1 \in Int /\ Len(kept) \in Int /\ (IF 1 > Len(kept) THEN 0 ELSE Len(kept) - 1 + 1) = Len(kept)
    BY <1>1
  <2> QED BY <1>1, <2>1, FS_Interval
<1>3. f \in Bijection(I, Paths) /\ g \in Bijection(I, Ofs)
  <2>1. \A k, l \in I : k # l => f[k] # f[l] /\ g[k] # g[l]
    BY DEF Tried
  <2>2. f \in [I -> Paths] /\ g \in [I -> Ofs]
    BY DEF Paths, Ofs
  <2>3. (\A x \in Paths : \E k \in I : f[k] = x) /\ \A x \in Ofs : \E k \in I : g[k] = x
    BY DEF Paths, Ofs
  <2> HIDE DEF f, g, I
  <2>4. f \in Injection(I, Paths) /\ g \in Injection(I, Ofs)
    BY <2>1, <2>2 DEF Injection, IsInjective
  <2>5. f \in Surjection(I, Paths) /\ g \in Surjection(I, Ofs)
    BY <2>2, <2>3 DEF Surjection
  <2> QED BY <2>4, <2>5 DEF Bijection
<1> HIDE DEF f, g, I
<1>4. ExistsBijection(I, Paths) /\ ExistsBijection(I, Ofs)
    BY <1>3 DEF ExistsBijection
<1> QED BY <1>2, <1>4, FS_Bijection

(* While one is left to try there are fewer detectors than acquisitions. *)
LEMMA RoomLeft ==
    ASSUME PlanInv, Tried, \E S : kept \in Seq(S), NEW p \in Planning \ written
    PROVE  IsFiniteSet(Paths) /\ Cardinality(Paths) < Cardinality(DOMAIN acquisitions)
<1> DEFINE A == DOMAIN acquisitions
<1>1. IsFiniteSet(A) /\ Cardinality(A) \in Nat
    BY FewAcquisitions DEF PlanInv
<1>2. p \in A /\ Ofs \subseteq A \ {p}
    BY DEF Planning, Tried
<1> HIDE DEF A
<1>3. IsFiniteSet(A \ {p}) /\ Cardinality(A \ {p}) = Cardinality(A) - 1
    BY <1>1, <1>2, FS_RemoveElement
<1>4. Cardinality(Ofs) <= Cardinality(A \ {p})
    BY <1>2, <1>3, FS_Subset
<1>5. IsFiniteSet(Paths) /\ Cardinality(Paths) = Cardinality(Ofs) /\ Cardinality(Paths) \in Nat
    BY CountKept, FS_CardinalityType
<1> QED BY <1>1, <1>3, <1>4, <1>5 DEF A

(* What a plan makes of an acquisition stays while the plan does. *)
LEMMA OrderSame ==
    ASSUME UNCHANGED planVars
    PROVE  /\ \A p, q : Before(p, q)' = Before(p, q)
           /\ \A p : Plain(p)' = Plain(p)
           /\ Planning' = Planning
<1> USE DEF planVars
<1>1. \A p, q : Before(p, q)' = Before(p, q)
    BY DEF Before, KeyBefore, Rank
<1>2. \A p : Plain(p)' = Plain(p)
    BY DEF Plain, Machine, Detector, InstrumentName, Layout, Catalogued, Safe
<1>3. Planning' = Planning
    BY DEF Planning, Shot
<1> QED BY <1>1, <1>2, <1>3

(* One more acquisition is tried. *)
LEMMA FinishTries ==
    ASSUME NEW c, NEW p \in Planning \ written, NEW path, NEW wrote, NEW says,
           \E S : kept \in Seq(S), Tried, InOrder, PlainFirst, path \notin Paths,
           path # Plain(p) => Plain(p) \in Paths,
           \A q \in Planning \ (written \cup {p}) : Before(p, q),
           Finish(c, p, path, wrote, says), UNCHANGED planVars, phase' = "write"
    PROVE  /\ Tried' /\ InOrder' /\ PlainFirst'
           /\ Paths' = IF Packs!Keeps(wrote) THEN Paths \cup {path} ELSE Paths
<1> DEFINE one == [path |-> path, instrument |-> p[2], of |-> p]
           more == Append(kept, one)
           keeps == Packs!Keeps(wrote)
           said == [about |-> p[2], why |-> "detector omitted"]
           last == Len(kept) + 1
<1>1. /\ kept' = IF keeps THEN more ELSE kept
      /\ omitted' = IF keeps THEN omitted ELSE omitted \cup {p}
      /\ written' = written \cup {p}
      /\ result' = result \cup says \cup {[about |-> p[2], why |-> w] : w \in wrote.says}
              \cup (IF keeps THEN {} ELSE {said})
    BY Zenon DEF Finish
<1>2. /\ result \subseteq result'
      /\ ~keeps => said \in result'
  <2> HIDE DEF keeps, said
  <2> QED BY <1>1
<1>3. /\ last \in Nat /\ last \notin DOMAIN kept /\ \A k \in DOMAIN kept : k \in Nat /\ k < last
      /\ DOMAIN more = DOMAIN kept \cup {last}
      /\ \A i \in DOMAIN kept : more[i] = kept[i]
      /\ more[last] = one
  <2>1. /\ Len(kept) \in Nat /\ DOMAIN kept = 1 .. Len(kept)
        /\ DOMAIN more = DOMAIN kept \cup {last}
        /\ \A i \in DOMAIN kept : more[i] = kept[i]
        /\ more[last] = one
    BY KeptMore
  <2> HIDE DEF more, one
  <2> QED BY <2>1
<1>4. one.path = path /\ one.instrument = p[2] /\ one.of = p
    OBVIOUS
<1>5. /\ \A q, r : Before(q, r)' = Before(q, r)
      /\ \A q : Plain(q)' = Plain(q)
      /\ Planning' = Planning
    BY OrderSame
<1> HIDE DEF one, more, keeps, last
<1>6. CASE ~ keeps
  <2>1. kept' = kept /\ omitted' = omitted \cup {p}
    BY <1>1, <1>6
  <2>2. Ofs' = Ofs /\ Paths' = Paths
    BY <2>1 DEF Ofs, Paths
  <2>3. p \notin Ofs /\ p \notin omitted
    BY DEF Tried
  <2>4. Tried'
    <3>1. \A q \in omitted' : [about |-> q[2], why |-> "detector omitted"] \in result'
        BY <1>2, <1>6, <2>1 DEF Tried
    <3>2. omitted' \cup Ofs' = written' /\ omitted' \cap Ofs' = {} /\ written' \subseteq Planning
        BY <1>1, <2>1, <2>2, <2>3 DEF Tried
    <3> QED BY <1>5, <2>1, <3>1, <3>2 DEF Tried
  <2>5. InOrder'
    BY <1>1, <1>5, <2>1 DEF InOrder
  <2>6. PlainFirst'
    BY <1>5, <2>1 DEF PlainFirst
  <2> QED BY <1>6, <2>2, <2>4, <2>5, <2>6 DEF keeps
<1>7. CASE keeps
  <2>1. kept' = more /\ omitted' = omitted
    BY <1>1, <1>7
  <2>2. Ofs' = Ofs \cup {p} /\ Paths' = Paths \cup {path}
    <3>1. Ofs' = {more[k].of : k \in DOMAIN more} /\ Paths' = {more[k].path : k \in DOMAIN more}
        BY <2>1 DEF Ofs, Paths
    <3>2. {more[k].of : k \in DOMAIN more} = Ofs \cup {p}
        BY <1>3, <1>4 DEF Ofs
    <3>3. {more[k].path : k \in DOMAIN more} = Paths \cup {path}
        BY <1>3, <1>4 DEF Paths
    <3> QED BY <3>1, <3>2, <3>3
  <2>3. p \notin Ofs /\ p \notin omitted /\ \A k \in DOMAIN kept : kept[k].of \in written
    <3>1. Ofs \subseteq written /\ omitted \subseteq written
        BY DEF Tried
    <3>2. \A k \in DOMAIN kept : kept[k].of \in Ofs
        BY DEF Ofs
    <3> QED BY <3>1, <3>2
  <2>4. \A k \in DOMAIN kept : kept[k].path \in Paths /\ kept[k].of \in Ofs
    BY DEF Paths, Ofs
  <2>5. Tried'
    <3>1. \A q \in omitted' : [about |-> q[2], why |-> "detector omitted"] \in result'
        BY <1>2, <2>1 DEF Tried
    <3>2. omitted' \cup Ofs' = written' /\ omitted' \cap Ofs' = {} /\ written' \subseteq Planning
        BY <1>1, <2>1, <2>2, <2>3 DEF Tried
    <3>3. ASSUME NEW k \in DOMAIN more PROVE more[k].instrument = more[k].of[2]
        BY <1>3, <1>4 DEF Tried
    <3>4. ASSUME NEW k \in DOMAIN more, NEW l \in DOMAIN more, k # l
          PROVE  more[k].path # more[l].path /\ more[k].of # more[l].of
      <4>1. CASE k \in DOMAIN kept /\ l \in DOMAIN kept
        <5>1. kept[k].path # kept[l].path /\ kept[k].of # kept[l].of
            BY <3>4, <4>1 DEF Tried
        <5> QED BY <1>3, <4>1, <5>1
      <4>2. CASE k = last
        BY <1>3, <1>4, <2>3, <2>4, <3>4, <4>2
      <4>3. CASE l = last
        BY <1>3, <1>4, <2>3, <2>4, <3>4, <4>3
      <4> QED BY <1>3, <4>1, <4>2, <4>3
    <3> QED BY <1>5, <2>1, <3>1, <3>2, <3>3, <3>4 DEF Tried
  <2>6. InOrder'
    <3>1. ASSUME NEW k \in DOMAIN more, NEW l \in DOMAIN more, k < l
          PROVE  Before(more[k].of, more[l].of)
      <4>1. k \in DOMAIN kept
        BY <1>3, <3>1
      <4>2. CASE l \in DOMAIN kept
        BY <1>3, <3>1, <4>1, <4>2 DEF InOrder
      <4>3. CASE l = last
        BY <1>3, <1>4, <2>3, <4>1, <4>3 DEF InOrder
      <4> QED BY <1>3, <4>2, <4>3
    <3>2. \A q \in written' : \A r \in Planning \ written' : Before(q, r)
        BY <1>1 DEF InOrder
    <3> QED BY <1>5, <2>1, <3>1, <3>2 DEF InOrder
  <2>7. PlainFirst'
    <3>1. ASSUME NEW k \in DOMAIN more, more[k].path # Plain(more[k].of)
          PROVE  \E l \in DOMAIN more : l < k /\ more[l].path = Plain(more[k].of)
      <4>1. CASE k \in DOMAIN kept
        <5>1. kept[k].path # Plain(kept[k].of)
            BY <1>3, <3>1, <4>1
        <5>2. PICK l \in DOMAIN kept : l < k /\ kept[l].path = Plain(kept[k].of)
            BY <4>1, <5>1 DEF PlainFirst
        <5> QED BY <1>3, <4>1, <5>2
      <4>2. CASE k = last
        <5>1. Plain(p) \in Paths /\ more[k].of = p
            BY <1>3, <1>4, <3>1, <4>2
        <5>2. PICK l \in DOMAIN kept : kept[l].path = Plain(p)
            BY <5>1 DEF Paths
        <5> QED BY <1>3, <4>2, <5>1, <5>2
      <4> QED BY <1>3, <4>1, <4>2
    <3> QED BY <1>5, <2>1, <3>1 DEF PlainFirst
  <2> QED BY <1>7, <2>2, <2>5, <2>6, <2>7 DEF keeps
<1> QED BY <1>6, <1>7

(* The account is of the container there is next. *)
LEMMA DetectorsAre ==
    ASSUME NEW d, NEW D, Laid(d, D, D), Roofed(d, D), container' = d, (Paths \cup Writing)' = D,
           phase' \in {"write", "frames"}
    PROVE  Detectors'
<1>1. container' = d /\ Paths' \cup Writing' = D
    OBVIOUS
<1>2. Laid(container', Paths' \cup Writing', Paths' \cup Writing') /\ Roofed(container', Paths' \cup Writing')
    BY <1>1
<1> QED BY <1>2 DEF Detectors

(* An acquisition that is finished leaves its detector, or nothing. *)
LEMMA FinishLays ==
    ASSUME NEW c, NEW p, NEW path, NEW wrote, NEW says, Writable(c), PackWrites(wrote), path \notin Paths,
           Laid(c, Paths \cup {path}, Paths \cup {path}), Roofed(c, Paths \cup {path}),
           Finish(c, p, path, wrote, says), phase' = "write",
           Paths' = IF Packs!Keeps(wrote) THEN Paths \cup {path} ELSE Paths
    PROVE  Detectors'
<1> DEFINE E == Paths \cup {path}
           filled == Filled(c, path, wrote)
           keeps == Packs!Keeps(wrote)
           described == Described(filled, path)
           removed == Removed(filled, path)
<1>1. container' = IF keeps THEN described ELSE removed
    BY Zenon DEF Finish
<1>2. PICK m, n : path = <<"entry", m, n>> /\ m \notin RESERVED_ENTRY_NAMES
    BY DEF Laid, Named
<1>3. IsDetector(path)
    BY <1>2 DEF IsDetector, RESERVED_ENTRY_NAMES
<1>4. path \in E /\ E \ {path} = Paths
    OBVIOUS
<1> HIDE DEF E
<1>5. Laid(c, E, E) /\ Roofed(c, E)
    BY DEF E
<1>6. Writable(filled) /\ Sound(filled)
    BY <1>3, FilledWritable DEF Writable
<1>7. Laid(filled, E, E) /\ Roofed(filled, E)
    BY <1>2, <1>4, <1>5, FilledLaid
<1> HIDE DEF filled
<1>8. Laid(described, E, E) /\ Roofed(described, E)
    BY <1>2, <1>4, <1>6, <1>7, DescribedLaid
<1>9. Laid(removed, Paths, Paths) /\ Roofed(removed, Paths)
    BY <1>2, <1>4, <1>6, <1>7, RemovedLaid
<1> HIDE DEF described, removed, keeps
<1>10. Writing' = {}
    BY DEF Writing
<1>11. CASE keeps
  <2>1. container' = described /\ (Paths \cup Writing)' = E
    BY <1>1, <1>10, <1>11 DEF keeps, E
  <2> QED BY <1>8, <2>1, DetectorsAre
<1>12. CASE ~ keeps
  <2>1. container' = removed /\ (Paths \cup Writing)' = Paths
    BY <1>1, <1>10, <1>12 DEF keeps
  <2> QED BY <1>9, <2>1, DetectorsAre
<1> QED BY <1>11, <1>12

(* Where the next acquisition goes, and what making its groups leaves. *)
LEMMA NextPlace ==
    ASSUME PlanInv, Founding, Containers, Tried, Detectors, phase = "write", NEW p \in Planning \ written
    PROVE  LET path == DetectorPath(container.tree, p)
               c == Grouped(container, path)
           IN  /\ path \notin Paths
               /\ path # Plain(p) => Plain(p) \in Paths
               /\ Writable(c)
               /\ Laid(c, Paths \cup {path}, Paths \cup {path}) /\ Roofed(c, Paths \cup {path})
<1> DEFINE path == DetectorPath(container.tree, p)
           c == Grouped(container, path)
<1>1. IsFiniteSet(Paths) /\ Cardinality(Paths) < Cardinality(DOMAIN acquisitions)
    BY RoomLeft DEF Containers
<1>2. /\ Laid(container, Paths, Paths) /\ Roofed(container, Paths)
      /\ Writable(container) /\ Sound(container) /\ p \in DOMAIN acquisitions
  <2>1. Paths \cup Writing = Paths
    BY DEF Writing
  <2> QED BY <2>1 DEF Detectors, Containers, Writable, Planning
<1>3. /\ path \notin DOMAIN container.tree
      /\ Named(path)
      /\ path # Plain(p) => Plain(p) \in Paths
    BY <1>1, <1>2, NewPath
<1> HIDE DEF path
<1>4. path \notin Paths
    BY <1>2, <1>3 DEF Laid
<1>5. PICK m, n : m \notin RESERVED_ENTRY_NAMES /\ n # "name" /\ path = <<"entry", m, n>>
    BY <1>3 DEF Named
<1>6. Laid(c, Paths \cup {path}, Paths \cup {path}) /\ Roofed(c, Paths \cup {path})
    BY <1>2, <1>3, <1>5, GroupedLaid
<1>7. IsDetector(path)
    BY <1>5 DEF IsDetector, RESERVED_ENTRY_NAMES
<1>8. Writable(c)
    BY <1>2, <1>7, GroupedWritable
<1> QED BY <1>3, <1>4, <1>6, <1>8 DEF path

(* A pack writes at once what it makes of an acquisition's files. *)
LEMMA AtOnce ==
    ASSUME NEW p, WriteAcquisition(p)
    PROVE  LET path == DetectorPath(container.tree, p)
           IN  /\ phase = "write" /\ UNCHANGED <<planVars, phase>> /\ p \in Planning \ written
               /\ \A q \in Planning \ (written \cup {p}) : Before(p, q)
               /\ \E wrote, says : PackWrites(wrote) /\ Finish(Grouped(container, path), p, path, wrote, says)
<1> DEFINE path == DetectorPath(container.tree, p)
           files == SortedFiles(p)
           pack == acquisitions[p].pack
           wrote == CASE pack = Camera -> Packs!CameraWrites(files)
                      [] pack = Spectrometer -> Packs!SpectrometerWrites(files)
                      [] OTHER -> Packs!SequenceWrites(files, acquisitions[p].seq, Packs!EmptyStack)
           c == Grouped(container, path)
<1>1. /\ phase = "write" /\ UNCHANGED <<planVars, phase>> /\ p \in Planning \ written
      /\ \A q \in Planning \ (written \cup {p}) : Before(p, q)
      /\ Finish(c, p, path, wrote, Missing(files))
    BY Zenon DEF WriteAcquisition
<1>2. PackWrites(wrote)
  <2>1. /\ PackWrites(Packs!CameraWrites(files))
        /\ PackWrites(Packs!SpectrometerWrites(files))
        /\ PackWrites(Packs!SequenceWrites(files, acquisitions[p].seq, Packs!EmptyStack))
    BY CameraWritesSo, SpectrometerWritesSo, SequenceWritesSo
  <2> HIDE DEF files, pack
  <2>2. wrote \in {Packs!CameraWrites(files), Packs!SpectrometerWrites(files),
                   Packs!SequenceWrites(files, acquisitions[p].seq, Packs!EmptyStack)}
    OBVIOUS
  <2> HIDE DEF wrote
  <2> QED BY <2>1, <2>2
<1> HIDE DEF wrote, c, files
<1> QED BY <1>1, <1>2 DEF c

(* What is tried, in which order, under which names. *)
Trials == Tried /\ InOrder /\ PlainFirst /\ Detectors

(* Writing acquisitions keeps the account of them. *)
LEMMA TrialsStep ==
    PlanInv /\ Founding /\ Settled /\ Containers /\ KeptDetectors /\ Trials /\ [Next]_vars => Trials'
<1> SUFFICES ASSUME PlanInv, Founding, Settled, Containers, KeptDetectors, Trials, [Next]_vars
             PROVE  Trials'
    OBVIOUS
<1>0. Tried /\ InOrder /\ PlainFirst /\ Detectors
    BY DEF Trials
<1>1. CASE phase = "plan" /\ ~ Open
  <2>1. UNCHANGED <<phase, written, kept, omitted, result>>
    BY <1>1 DEF Next, vars, writeVars, WriteAcquisition, OpenRecording, StreamFrame, FinishRecording,
                StartMapping, MapRow, EndMapping, ClaimRaises, NextMapping, Close
  <2>a. kept = <<>> /\ written = {}
    BY <1>0, <1>1 DEF KeptDetectors, Tried
  <2>2. kept = <<>> /\ DOMAIN kept = {} /\ written = {}
    BY <2>a
  <2>3. Ofs = {} /\ Ofs' = {}
    BY <2>1, <2>2 DEF Ofs
  <2>4. Tried'
    BY <1>0, <1>1, <2>1, <2>2, <2>3 DEF Tried
  <2> QED BY <1>1, <2>1, <2>2, <2>4 DEF Trials, InOrder, PlainFirst, Detectors
<1>2. CASE Open
  <2>1. phase' = "write" /\ container' = Opened /\ UNCHANGED <<written, kept, omitted>> /\ phase = "plan"
    BY <1>2 DEF Open
  <2>a. kept = <<>> /\ written = {}
    BY <1>0, <2>1 DEF KeptDetectors, Tried
  <2>2. kept = <<>> /\ DOMAIN kept = {} /\ written = {}
    BY <2>a
  <2>3. Ofs = {} /\ Ofs' = {} /\ Paths' = {} /\ Writing' = {}
    BY <2>1, <2>2 DEF Ofs, Paths, Writing
  <2>4. omitted = {}
    BY <1>0, <2>2 DEF Tried
  <2>5. Tried'
    BY <2>1, <2>2, <2>3, <2>4 DEF Tried
  <2>6. Detectors'
    BY <2>1, <2>3, OpenedLaid, DetectorsAre
  <2> QED BY <2>1, <2>2, <2>5, <2>6 DEF Trials, InOrder, PlainFirst
<1> SUFFICES ASSUME phase # "plan" PROVE Trials'
    BY <1>1, <1>2
<1>3. UNCHANGED planVars /\ ~ PlanNext
    BY PlanStands DEF Settled, Planned, PlanNext, ReadSlice, TakeRow
<1>4. /\ \A q, r : Before(q, r)' = Before(q, r)
      /\ \A q : Plain(q)' = Plain(q)
      /\ Planning' = Planning
    BY <1>3, OrderSame
<1>5. ASSUME UNCHANGED <<phase, container, at, written, kept, omitted, result>> PROVE Trials'
  <2>1. Ofs' = Ofs /\ Paths' = Paths /\ Writing' = Writing
    BY <1>5 DEF Ofs, Paths, Writing
  <2>2. Tried' /\ InOrder' /\ PlainFirst'
    BY <1>0, <1>4, <1>5, <2>1 DEF Tried, InOrder, PlainFirst
  <2>3. Detectors'
    <3>1. CASE phase \in {"write", "frames"}
        BY <1>0, <1>5, <2>1, <3>1, DetectorsAre DEF Detectors
    <3>2. CASE phase \notin {"write", "frames"}
        BY <1>0, <1>5, <2>1, <3>2 DEF Detectors
    <3> QED BY <3>1, <3>2
  <2> QED BY <2>2, <2>3 DEF Trials
<1>6. ASSUME NEW p \in Planning, WriteAcquisition(p) PROVE Trials'
  <2> DEFINE path == DetectorPath(container.tree, p)
             c == Grouped(container, path)
  <2>1. /\ phase = "write" /\ phase' = "write" /\ p \in Planning \ written
        /\ \A q \in Planning \ (written \cup {p}) : Before(p, q)
        /\ \E wrote, says : PackWrites(wrote) /\ Finish(c, p, path, wrote, says)
    BY <1>6, AtOnce
  <2>2. PICK wrote, says : PackWrites(wrote) /\ Finish(c, p, path, wrote, says)
    BY <2>1
  <2>3. /\ path \notin Paths
        /\ path # Plain(p) => Plain(p) \in Paths
        /\ Writable(c)
        /\ Laid(c, Paths \cup {path}, Paths \cup {path}) /\ Roofed(c, Paths \cup {path})
    BY <1>0, <2>1, NextPlace
  <2> HIDE DEF path, c
  <2>4. /\ Tried' /\ InOrder' /\ PlainFirst'
        /\ Paths' = IF Packs!Keeps(wrote) THEN Paths \cup {path} ELSE Paths
    BY <1>0, <1>3, <2>1, <2>2, <2>3, FinishTries DEF Containers
  <2>5. Detectors'
    BY <2>1, <2>2, <2>3, <2>4, FinishLays
  <2> QED BY <2>4, <2>5 DEF Trials
<1>7. ASSUME NEW p \in Planning, OpenRecording(p) PROVE Trials'
  <2> DEFINE path == DetectorPath(container.tree, p)
             c == Grouped(container, path)
  <2>1. /\ phase = "write" /\ phase' = "frames" /\ p \in Planning \ written
        /\ \A q \in Planning \ (written \cup {p}) : Before(p, q)
        /\ at' = [of |-> p, path |-> path] /\ container' = c
        /\ UNCHANGED <<written, kept, omitted, result>>
    BY <1>7, Zenon DEF OpenRecording
  <2>2. /\ path \notin Paths
        /\ path # Plain(p) => Plain(p) \in Paths
        /\ Laid(c, Paths \cup {path}, Paths \cup {path}) /\ Roofed(c, Paths \cup {path})
    BY <1>0, <2>1, NextPlace
  <2> HIDE DEF path, c
  <2>3. at'.of = p /\ at'.path = path
    BY <2>1
  <2>4. Ofs' = Ofs /\ Paths' = Paths /\ Writing' = {path}
    BY <2>1, <2>3 DEF Ofs, Paths, Writing
  <2>5. Tried'
    BY <1>0, <1>4, <2>1, <2>2, <2>3, <2>4 DEF Tried
  <2>6. InOrder'
    BY <1>0, <1>4, <2>1, <2>3 DEF InOrder
  <2>7. PlainFirst'
    BY <1>0, <1>4, <2>1, <2>2, <2>3, <2>4 DEF PlainFirst
  <2>8. Detectors'
    BY <2>1, <2>2, <2>4, DetectorsAre
  <2> QED BY <2>5, <2>6, <2>7, <2>8 DEF Trials
<1>8. CASE FinishRecording
  <2> DEFINE files == SortedFiles(at.of)
             wrote == Packs!SequenceWrites(files, acquisitions[at.of].seq, stack)
             p == at.of
             path == at.path
  <2>1. /\ phase = "frames" /\ phase' = "write"
        /\ Finish(container, p, path, wrote, Missing(files))
    BY <1>8, Zenon DEF FinishRecording
  <2>2. PackWrites(wrote)
    BY SequenceWritesSo
  <2> HIDE DEF files, wrote
  <2>3. /\ p \in Planning \ written /\ path \notin Paths
        /\ path # Plain(p) => Plain(p) \in Paths
        /\ \A q \in Planning \ (written \cup {p}) : Before(p, q)
    BY <1>0, <2>1 DEF Tried, InOrder, PlainFirst
  <2>4. /\ Writable(container)
        /\ Laid(container, Paths \cup {path}, Paths \cup {path}) /\ Roofed(container, Paths \cup {path})
    <3>1. Writing = {path}
        BY <2>1 DEF Writing
    <3> QED BY <1>0, <2>1, <3>1 DEF Detectors, Containers
  <2> HIDE DEF p, path
  <2>5. /\ Tried' /\ InOrder' /\ PlainFirst'
        /\ Paths' = IF Packs!Keeps(wrote) THEN Paths \cup {path} ELSE Paths
    BY <1>0, <1>3, <2>1, <2>3, FinishTries DEF Containers
  <2>6. Detectors'
    BY <2>1, <2>2, <2>3, <2>4, <2>5, FinishLays
  <2> QED BY <2>5, <2>6 DEF Trials
<1>9. CASE UNCHANGED vars \/ StreamFrame
    BY <1>5, <1>9 DEF vars, writeVars, StreamFrame
<1>10. ASSUME UNCHANGED <<written, kept, omitted, result>>, phase' \in {"map", "closed"},
              \A d \in Paths : /\ d \in DOMAIN container'.tree
                               /\ container'.objects[container'.tree[d]].class = "NXdetector"
       PROVE  Trials'
  <2>1. Ofs' = Ofs /\ Paths' = Paths
    BY <1>10 DEF Ofs, Paths
  <2> QED BY <1>0, <1>4, <1>10, <2>1 DEF Trials, Tried, InOrder, PlainFirst, Detectors
<1>11. CASE StartMapping
  <2>1. phase = "write" /\ phase' = "map" /\ UNCHANGED <<container, written, kept, omitted, result>>
    BY <1>11 DEF StartMapping
  <2>2. \A d \in Paths : d \in DOMAIN container.tree /\ container.objects[container.tree[d]].class = "NXdetector"
    BY <1>0, <2>1 DEF Detectors, Laid
  <2> QED BY <1>10, <2>1, <2>2
<1>12. CASE MapRow \/ EndMapping \/ ClaimRaises
  <2>1. phase = "map" /\ phase' = "map" /\ UNCHANGED <<written, kept, omitted, result>>
    BY <1>12 DEF MapRow, EndMapping, ClaimRaises, NextMapping
  <2>2. PICK d : container' = d /\ Follows(d, container)
    BY <1>12, MappingStep
  <2>3. \A x \in Paths : x \in DOMAIN container.tree /\ container.objects[container.tree[x]].class = "NXdetector"
    BY <1>0, <2>1 DEF Detectors
  <2>4. \A x \in Paths : x \in DOMAIN d.tree /\ d.objects[d.tree[x]].class = "NXdetector"
    BY <2>2, <2>3 DEF Follows
  <2> QED BY <1>10, <2>1, <2>2, <2>4
<1>13. CASE Close
  <2>1. phase = "map" /\ phase' = "closed" /\ UNCHANGED <<container, written, kept, omitted, result>>
    BY <1>13 DEF Close
  <2>2. \A d \in Paths : d \in DOMAIN container.tree /\ container.objects[container.tree[d]].class = "NXdetector"
    BY <1>0, <2>1 DEF Detectors
  <2> QED BY <1>10, <2>1, <2>2
<1> QED BY <1>3, <1>6, <1>7, <1>8, <1>9, <1>11, <1>12, <1>13 DEF Next, Open

(* The names acquisitions can take stay listed. *)
LEMMA FoundingStays == PlanInv /\ Founding /\ [Next]_vars => Founding'
<1> SUFFICES ASSUME PlanInv, Founding, [Next]_vars PROVE Founding'
    OBVIOUS
<1>1. CASE \E r \in rows : TakeRow(r)
    BY <1>1, FoundingStep
<1>2. CASE UNCHANGED <<scene, acquisitions>>
  <2>1. ASSUME NEW p \in DOMAIN acquisitions
        PROVE  (/\ {"label", "seq"} \subseteq DOMAIN acquisitions[p]
                /\ Detector(p[2], acquisitions[p].label) \in DetectorNames(scene)
                /\ Suffix(p) \in Tails(scene)
                /\ Rank(p[2]) \in Int)'
    <3>1. /\ {"label", "seq"} \subseteq DOMAIN acquisitions[p]
          /\ Detector(p[2], acquisitions[p].label) \in DetectorNames(scene)
          /\ Suffix(p) \in Tails(scene)
          /\ Rank(p[2]) \in Int
        BY DEF Founding
    <3> QED BY <1>2, <3>1 DEF Detector, InstrumentName, Layout, Catalogued, Safe, Suffix, Rank
  <2> QED BY <1>2, <2>1 DEF Founding
<1>3. UNCHANGED <<scene, acquisitions>> \/ \E r \in rows : TakeRow(r)
    BY DEF Next, vars, planVars, PlanNext, ReadSlice, Open, WriteAcquisition, OpenRecording, StreamFrame,
           FinishRecording, StartMapping, MapRow, EndMapping, ClaimRaises, NextMapping, Close
<1> QED BY <1>1, <1>2, <1>3

(* Of two detectors that could have had the same plain name the earlier    *)
(* acquisition's has it: the later was tried when it was taken.            *)
LEMMA PlainIsEarliest ==
    ASSUME PlanInv, Founding, Tried, InOrder, PlainFirst, \E S : kept \in Seq(S) PROVE EarliestIsPlain
<1>1. \A k \in DOMAIN kept : PlainPath(k) = Plain(kept[k].of)
    BY DEF PlainPath, Plain, Tried
<1>2. \A k \in DOMAIN kept : k \in Nat
    BY KeptMore
<1>3. \A k \in DOMAIN kept : kept[k].of \in DOMAIN acquisitions
  <2>1. \A k \in DOMAIN kept : kept[k].of \in Ofs
    BY DEF Ofs
  <2> QED BY <2>1 DEF Tried, Planning
<1> SUFFICES ASSUME NEW k \in DOMAIN kept, kept[k].path = PlainPath(k),
                    NEW l \in DOMAIN kept, l # k,
                    kept[l].instrument = kept[k].instrument, PlainPath(l) = PlainPath(k)
             PROVE  LET t == acquisitions[kept[k].of].when
                        u == acquisitions[kept[l].of].when
                    IN  u = 0 \/ (t # 0 /\ t <= u)
    BY DEF EarliestIsPlain
<1>4. kept[l].path # kept[k].path
    BY DEF Tried
<1>5. kept[l].path # Plain(kept[l].of)
    BY <1>1, <1>4
<1>6. PICK j \in DOMAIN kept : j < l /\ kept[j].path = Plain(kept[l].of)
    BY <1>5 DEF PlainFirst
<1>7. j = k
    BY <1>1, <1>6 DEF Tried
<1>8. Before(kept[k].of, kept[l].of)
    BY <1>6, <1>7 DEF InOrder
<1> DEFINE p == kept[k].of
           q == kept[l].of
           t == acquisitions[p].when
           u == acquisitions[q].when
<1>9. p[2] = q[2]
    BY DEF Tried
<1>10. Rank(p[2]) \in Int /\ t \in Nat /\ u \in Nat
    BY <1>3 DEF Founding, PlanInv, Shapes
<1>11. (t # 0 /\ (u = 0 \/ t < u)) \/ t = u
  <2> HIDE DEF p, q
  <2>1. ~ (Rank(p[2]) < Rank(q[2]))
    BY <1>9, <1>10
  <2>2. Before(p, q)
    BY <1>8 DEF p, q
  <2> QED BY <2>1, <2>2 DEF Before
<1> HIDE DEF t, u
<1>12. u = 0 \/ (t # 0 /\ t <= u)
    BY <1>10, <1>11
<1> QED BY <1>12 DEF t, u

(* The account is of the container. *)
LEMMA TrialsAccount ==
    ASSUME PlanInv, Founding, Containers, KeptDetectors, Trials PROVE DetectorsAccounted
<1>0. Tried /\ InOrder /\ PlainFirst /\ Detectors
    BY DEF Trials
<1> DEFINE writing == IF phase = "frames" THEN {at.path} ELSE {}
           groups == DetectorGroups(container.tree)
<1>1. Cardinality(Paths) = Len(kept)
    BY <1>0, CountKept DEF Containers
<1>2. /\ omitted \cup Ofs = written
      /\ omitted \cap Ofs = {}
      /\ \A p \in omitted : [about |-> p[2], why |-> "detector omitted"] \in result
    BY <1>0 DEF Tried
<1>3. writing = Writing
    BY DEF Writing
<1> HIDE DEF writing
<1>4. phase \in {"write", "frames"} =>
          /\ groups = Paths \cup Writing
          /\ \A path \in DOMAIN container.tree :
                Rules!ClassAt(container, path) = "NXinstrument" =>
                    \E d \in Paths \cup Writing : Rules!Parent(d) = path
  <2> SUFFICES ASSUME phase \in {"write", "frames"}
               PROVE  /\ groups = Paths \cup Writing
                      /\ \A path \in DOMAIN container.tree :
                            Rules!ClassAt(container, path) = "NXinstrument" =>
                                \E d \in Paths \cup Writing : Rules!Parent(d) = path
    OBVIOUS
  <2> DEFINE D == Paths \cup Writing
  <2>1. Laid(container, D, D)
    BY <1>0 DEF Detectors
  <2> HIDE DEF D
  <2>2. groups = D
    BY <2>1 DEF Laid, DetectorGroups, Rules!ClassAt
  <2>3. ASSUME NEW path \in DOMAIN container.tree, Rules!ClassAt(container, path) = "NXinstrument"
        PROVE  \E d \in D : Rules!Parent(d) = path
    <3>1. Houses(path, D)
        BY <2>1, <2>3 DEF Laid, Rules!ClassAt
    <3>2. PICK m, n : <<"entry", m, n>> \in D /\ path = <<"entry", m>>
        BY <3>1 DEF Houses
    <3>3. Rules!Parent(<<"entry", m, n>>) = path
        BY <3>2, MachineOf
    <3> QED BY <3>2, <3>3
  <2> QED BY <2>2, <2>3 DEF D
<1>5. Paths \cup Writing \subseteq groups
  <2>1. CASE phase \in {"write", "frames"}
    BY <1>4, <2>1
  <2>2. CASE phase \in {"map", "closed"}
    BY <1>0, <2>2 DEF Detectors, Writing, DetectorGroups, Rules!ClassAt
  <2>3. CASE phase = "plan"
    BY <2>3 DEF KeptDetectors, Paths, Writing
  <2> QED BY <2>1, <2>2, <2>3 DEF Containers
<1>6. EarliestIsPlain
    BY <1>0, PlainIsEarliest DEF Containers
<1> HIDE DEF groups
<1> QED BY <1>1, <1>2, <1>3, <1>4, <1>5, <1>6 DEF DetectorsAccounted, Paths, Ofs, groups, writing

(* Whatever acquisitions a shot has and whatever their files hold, each is *)
(* tried once, in order, and either has a detector group of its own or is  *)
(* left out, is said to be, and leaves no group behind; and the plain name *)
(* of several goes to the earliest (hzdr_containers.py: _write_shot,       *)
(* _detector_group).                                                       *)
THEOREM DetectorsAreAccounted == Spec => []DetectorsAccounted
<1> DEFINE Inv == ContainerInv /\ KeptDetectors /\ Founding /\ Trials
<1>1. Init => Inv
  <2>1. Init => KeptDetectors
    BY DEF Init, KeptDetectors
  <2>2. Init => Founding
    BY DEF Init, PlanInit, Founding
  <2>3. ASSUME Init PROVE Trials
    <3>1. phase = "plan" /\ kept = <<>> /\ written = {} /\ omitted = {} /\ DOMAIN kept = {}
        BY <2>3 DEF Init
    <3>2. Ofs = {}
        BY <3>1 DEF Ofs
    <3> QED BY <3>1, <3>2 DEF Trials, Tried, InOrder, PlainFirst, Detectors
  <2> QED BY <2>1, <2>2, <2>3, InitContainer
<1>2. Inv /\ [Next]_vars => Inv'
    BY ContainerStep, KeptStep, FoundingStays, TrialsStep DEF ContainerInv
<1>3. Inv => DetectorsAccounted
    BY TrialsAccount DEF ContainerInv
<1> HIDE DEF Inv
<1> QED BY <1>1, <1>2, <1>3, PTL DEF Spec
=============================================================================
