-------------------------- MODULE PublicationProofs --------------------------
(***************************************************************************)
(* The writer lock, and what the HDF5 builder publishes under it.          *)
(* The lock excludes on one host, and wherever nothing is reclaimed, for   *)
(* any number of processes, acquisitions and rounds; and on one host it    *)
(* refuses nobody for the sake of a dead process.  The file a build puts   *)
(* in place then agrees with the inputs it was made from, whatever these   *)
(* are: its rows and columns are the shots found in them, what it does not *)
(* write it leaves as it was, nothing of an earlier build stays in it, and *)
(* an event attached to a shot is attached by something said of it.        *)
(***************************************************************************)
EXTENDS WriterLock, NexusBuild, TLAPS, FiniteSetTheorems, NaturalsInduction,
        WellFoundedInduction

(* The lock. *)

\* Between its O_EXCL create and its unlink a process owns the lock's path.
Owner(p) == pc[p] \in {"write", "held", "release", "reread", "unlink"}
InGuard(p) == pc[p] \in {"create", "write", "judge", "rename", "check"}

\* A process that ever ran has an acquisition.
Counted == \A p \in Procs : pc[p] # "idle" => attempt[p] # 0

\* The file at the path is the owner's own, and says so once it is written.
OwnFile == \A p \in Procs : Owner(p) => file = Mine(p)
OwnRecord == \A p \in Procs : Owner(p) /\ pc[p] # "write" => Mine(p) \in written

\* Whoever creates or reclaims has the guard of its host, if there is one, and
\* nothing is reclaimed without.
GuardHeld == \A p \in Procs : InGuard(p) /\ guarded => guard[host[p]] = p
GuardedReclaim == \A p \in Procs : pc[p] \in {"rename", "check"} => guarded

\* What a process is about to move is nobody's.
ReclaimsNoLock == \A p, q \in Procs : pc[p] = "rename" => ~Owner(q)

Safe == OneHost \/ ~guarded
Exclusion == OwnFile /\ OwnRecord /\ GuardHeld /\ GuardedReclaim /\ ReclaimsNoLock

Inv == TypeOK /\ Counted /\ (Safe => Exclusion)
-----------------------------------------------------------------------------
\* The record of a process that ever ran is an acquisition's.
LEMMA MineIsAcquisition ==
    ASSUME TypeOK, Counted, NEW p \in Procs, pc[p] # "idle"
    PROVE  Mine(p) \in Acquisitions /\ Mine(p) # Nothing
  BY ConstantsOK DEF TypeOK, Counted, Mine, Acquisitions

\* At first every variable has its type.
LEMMA TypeInit == LockInit => TypeOK /\ Counted
  BY ConstantsOK DEF LockInit, TypeOK, Counted, Labels

\* Type correctness, one action at a time.
LEMMA TypeStep == TypeOK /\ Counted /\ [LockNext]_lockVars => TypeOK' /\ Counted'
  <1> SUFFICES ASSUME TypeOK, Counted, [LockNext]_lockVars PROVE TypeOK' /\ Counted'
    OBVIOUS
  <1> USE ConstantsOK DEF TypeOK, Counted, Labels, deployment, files, attempts
  <1>1. ASSUME NEW p \in Procs, Start(p) PROVE TypeOK' /\ Counted'
    BY <1>1 DEF Start, Goto
  <1>2. ASSUME NEW p \in Procs, GuardBusy(p) PROVE TypeOK' /\ Counted'
    BY <1>2 DEF GuardBusy, Goto
  <1>3. ASSUME NEW p \in Procs, EnterGuard(p) PROVE TypeOK' /\ Counted'
    BY <1>3 DEF EnterGuard, Enter, Goto
  <1>4. ASSUME NEW p \in Procs, Create(p) PROVE TypeOK' /\ Counted'
    BY <1>4, MineIsAcquisition DEF Create, Goto
  <1>5. ASSUME NEW p \in Procs, GiveUp(p) PROVE TypeOK' /\ Counted'
    BY <1>5 DEF GiveUp, Leave, Goto
  <1>6. ASSUME NEW p \in Procs, Write(p) PROVE TypeOK' /\ Counted'
    BY <1>6, MineIsAcquisition DEF Write, Leave, Goto
  <1>7. ASSUME NEW p \in Procs, Judge(p) PROVE TypeOK' /\ Counted'
    BY <1>7 DEF Judge, Leave, Goto, Text
  <1>8. ASSUME NEW p \in Procs, Rename(p) PROVE TypeOK' /\ Counted'
    BY <1>8 DEF Rename, Goto
  <1>9. ASSUME NEW p \in Procs, Check(p) PROVE TypeOK' /\ Counted'
    BY <1>9 DEF Check, Leave, Goto
  <1>10. ASSUME NEW p \in Procs, Refresh(p) PROVE TypeOK' /\ Counted'
    BY <1>10 DEF Refresh, Goto
  <1>11. ASSUME NEW p \in Procs, Finish(p) PROVE TypeOK' /\ Counted'
    BY <1>11 DEF Finish, Goto
  <1>12. ASSUME NEW p \in Procs, EnterRelease(p) PROVE TypeOK' /\ Counted'
    BY <1>12 DEF EnterRelease, Enter, Goto
  <1>13. ASSUME NEW p \in Procs, Reread(p) PROVE TypeOK' /\ Counted'
    BY <1>13 DEF Reread, Leave, Goto
  <1>14. ASSUME NEW p \in Procs, Unlink(p) PROVE TypeOK' /\ Counted'
    BY <1>14 DEF Unlink, Leave, Goto
  <1>15. ASSUME NEW p \in Procs, Crash(p) PROVE TypeOK' /\ Counted'
    BY <1>15 DEF Crash, Leave, Goto
  <1>16. CASE Age
    BY <1>16 DEF Age
  <1>17. CASE UNCHANGED lockVars
    BY <1>17 DEF lockVars
  <1> QED
    BY <1>1, <1>2, <1>3, <1>4, <1>5, <1>6, <1>7, <1>8, <1>9, <1>10, <1>11, <1>12,
       <1>13, <1>14, <1>15, <1>16, <1>17 DEF LockNext, Step

\* The lock's invariant holds initially: nobody has begun.
LEMMA ExclusionInit == LockInit => Exclusion
  BY DEF LockInit, Exclusion, OwnFile, OwnRecord, GuardHeld, GuardedReclaim, ReclaimsNoLock,
         Owner, InGuard

\* One process is at its host's guard at a time.
LEMMA OneInGuard ==
    ASSUME TypeOK, GuardHeld, GuardedReclaim, Safe,
           NEW p \in Procs, NEW q \in Procs, InGuard(p), InGuard(q), guarded
    PROVE  p = q
  BY DEF GuardHeld, Safe, OneHost, TypeOK

\* Two processes never own the path together.
LEMMA OneOwner ==
    ASSUME OwnFile, NEW p \in Procs, NEW q \in Procs, Owner(p), Owner(q)
    PROVE  p = q
  BY DEF OwnFile, Mine

\* What a process judges stale has no owner left.
LEMMA StaleIsNobodys ==
    ASSUME TypeOK, Counted, Exclusion, Safe, guarded,
           NEW p \in Procs, pc[p] = "judge", ~Held(p, file), file # Nothing,
           NEW q \in Procs
    PROVE  ~Owner(q)
  <1> SUFFICES ASSUME Owner(q) PROVE FALSE
    OBVIOUS
  <1>1. pc[q] # "write"
    <2> SUFFICES ASSUME pc[q] = "write" PROVE FALSE
      OBVIOUS
    <2>1. InGuard(p) /\ InGuard(q)
      BY DEF InGuard
    <2> QED
      BY <2>1, OneInGuard DEF Exclusion
  <1>2. file = Mine(q) /\ file \in written
    BY <1>1 DEF Exclusion, OwnFile, OwnRecord
  <1>3. host[q] = host[p]
    BY DEF Safe, OneHost
  <1>4. Alive(file)
    BY <1>2 DEF Alive, Mine, Owner
  <1> QED
    BY <1>2, <1>3, <1>4 DEF Held, Mine

\* Entering a guard takes it from nobody.
LEMMA EnterTakesNoGuard ==
    ASSUME TypeOK, GuardHeld, guarded, NEW p \in Procs, Enter(p)
    PROVE  /\ guard'[host[p]] = p
           /\ \A q \in Procs : InGuard(q) => guard'[host[q]] = q
  <1>1. \A q \in Procs : InGuard(q) => host[q] # host[p]
    BY ConstantsOK DEF GuardHeld, Enter
  <1> QED
    BY <1>1 DEF Enter, GuardHeld, TypeOK

\* The lock's invariant, one action at a time.
LEMMA ExclusionStep ==
    ASSUME TypeOK, Counted, Safe, Exclusion, [LockNext]_lockVars
    PROVE  Exclusion'
  <1> USE DEF Exclusion, OwnFile, OwnRecord, GuardHeld, GuardedReclaim, ReclaimsNoLock,
              Owner, InGuard, Mine, deployment, files, attempts, TypeOK
  <1>1. ASSUME NEW p \in Procs, Start(p) PROVE Exclusion'
    BY <1>1 DEF Start, Goto
  <1>2. ASSUME NEW p \in Procs, GuardBusy(p) PROVE Exclusion'
    BY <1>2 DEF GuardBusy, Goto
  <1>3. ASSUME NEW p \in Procs, EnterGuard(p) PROVE Exclusion'
    <2>1. OwnFile' /\ OwnRecord' /\ GuardedReclaim' /\ ReclaimsNoLock'
      BY <1>3 DEF EnterGuard, Goto
    <2>2. GuardHeld'
      BY <1>3, EnterTakesNoGuard DEF EnterGuard, Goto
    <2> QED
      BY <2>1, <2>2
  <1>4. ASSUME NEW p \in Procs, Create(p) PROVE Exclusion'
    <2>1. Mine(p) # Nothing
      BY <1>4, MineIsAcquisition DEF Create
    <2>2. CASE file = Nothing
      <3>1. \A q \in Procs : ~Owner(q)
        BY <2>2, MineIsAcquisition
      <3>2. \A q \in Procs : q # p => pc[q] # "rename"
        BY <1>4, OneInGuard DEF Create
      <3>3. OwnFile' /\ OwnRecord'
        BY <1>4, <2>2, <3>1 DEF Create, Goto
      <3>4. GuardHeld' /\ GuardedReclaim'
        BY <1>4 DEF Create, Goto
      <3>5. ReclaimsNoLock'
        BY <1>4, <2>2, <3>2 DEF Create, Goto
      <3> QED
        BY <3>3, <3>4, <3>5
    <2>3. CASE file # Nothing
      BY <1>4, <2>3 DEF Create, Goto
    <2> QED
      BY <2>2, <2>3
  <1>5. ASSUME NEW p \in Procs, GiveUp(p) PROVE Exclusion'
    BY <1>5 DEF GiveUp, Leave, Goto
  <1>6. ASSUME NEW p \in Procs, Write(p) PROVE Exclusion'
    BY <1>6 DEF Write, Leave, Goto
  <1>7. ASSUME NEW p \in Procs, Judge(p) PROVE Exclusion'
    BY <1>7, StaleIsNobodys DEF Judge, Leave, Goto
  <1>8. ASSUME NEW p \in Procs, Rename(p) PROVE Exclusion'
    BY <1>8 DEF Rename, Goto
  <1>9. ASSUME NEW p \in Procs, Check(p) PROVE Exclusion'
    BY <1>9, MineIsAcquisition DEF Check, Leave, Goto
  <1>10. ASSUME NEW p \in Procs, Refresh(p) PROVE Exclusion'
    BY <1>10 DEF Refresh, Goto
  <1>11. ASSUME NEW p \in Procs, Finish(p) PROVE Exclusion'
    BY <1>11 DEF Finish, Goto
  <1>12. ASSUME NEW p \in Procs, EnterRelease(p) PROVE Exclusion'
    <2>1. OwnFile' /\ OwnRecord' /\ GuardedReclaim' /\ ReclaimsNoLock'
      BY <1>12 DEF EnterRelease, Goto
    <2>2. GuardHeld'
      BY <1>12, EnterTakesNoGuard DEF EnterRelease, Goto
    <2> QED
      BY <2>1, <2>2
  <1>13. ASSUME NEW p \in Procs, Reread(p) PROVE Exclusion'
    BY <1>13 DEF Reread, Leave, Goto
  <1>14. ASSUME NEW p \in Procs, Unlink(p) PROVE Exclusion'
    <2>1. \A q \in Procs : q # p => ~Owner(q)
      BY <1>14, OneOwner DEF Unlink
    <2>2. OwnFile' /\ OwnRecord' /\ ReclaimsNoLock'
      BY <1>14, <2>1 DEF Unlink, Goto
    <2>3. GuardHeld' /\ GuardedReclaim'
      BY <1>14 DEF Unlink, Leave, Goto
    <2> QED
      BY <2>2, <2>3
  <1>15. ASSUME NEW p \in Procs, Crash(p) PROVE Exclusion'
    BY <1>15 DEF Crash, Leave, Goto
  <1>16. CASE Age
    BY <1>16 DEF Age
  <1>17. CASE UNCHANGED lockVars
    BY <1>17 DEF lockVars
  <1> QED
    BY <1>1, <1>2, <1>3, <1>4, <1>5, <1>6, <1>7, <1>8, <1>9, <1>10, <1>11, <1>12,
       <1>13, <1>14, <1>15, <1>16, <1>17 DEF LockNext, Step

\* At first nobody owns the lock's path.
LEMMA InvInit == LockInit => Inv
  BY TypeInit, ExclusionInit DEF Inv

\* Every step keeps the types, and the exclusion where it is claimed.
LEMMA InvStep == Inv /\ [LockNext]_lockVars => Inv'
  <1> SUFFICES ASSUME Inv, [LockNext]_lockVars PROVE Inv'
    OBVIOUS
  <1>1. TypeOK' /\ Counted'
    BY TypeStep DEF Inv
  <1>2. UNCHANGED <<host, guarded>>
    BY DEF LockNext, Step, lockVars, deployment, Start, GuardBusy, EnterGuard, Create, GiveUp, Write,
           Judge, Rename, Check, Refresh, Finish, EnterRelease, Reread, Unlink, Crash, Age
  <1>3. Safe' => Safe
    BY <1>2 DEF Safe, OneHost
  <1>4. Safe' => Exclusion'
    BY <1>3, ExclusionStep DEF Inv
  <1> QED
    BY <1>1, <1>4 DEF Inv

\* The types, and the exclusion where it is claimed, hold always.
LEMMA InvAlways == LockSpec => []Inv
  BY InvInit, InvStep, PTL DEF LockSpec

\* Every variable of the lock keeps its type, for any number of processes,
\* hosts, rounds and acquisitions (single_writer_lock, hzdr_nexus.py:444-487).
THEOREM TypeCorrect == LockSpec => []TypeOK
  <1>1. Inv => TypeOK
    BY DEF Inv
  <1> QED
    BY <1>1, InvAlways, PTL

\* hzdr_nexus.py:451-470: on one host, and on any hosts where nothing is
\* reclaimed for want of kernel locks, no two processes hold the lock, however
\* many there are, wherever they die and for however long they stall.
THEOREM Excludes == LockSpec => []AtMostOneHolder
  <1>1. Inv => AtMostOneHolder
    BY DEF Inv, AtMostOneHolder, Holders, Safe, Exclusion, OwnFile, Owner, Mine
  <1> QED
    BY <1>1, InvAlways, PTL
-----------------------------------------------------------------------------
\* On one host the guard also keeps what a process has seen: the path stays free
\* for whoever found it free or made it so, and the file it judged or moved goes
\* on saying what it said.  So nobody needs a third round.
SeenUnder(p) ==
    /\ pc[p] = "guard" => tries[p] = 0
    /\ pc[p] = "create" => tries[p] = 0 \/ (tries[p] = 1 /\ file = Nothing)
    /\ pc[p] \in {"judge", "rename", "check"} => tries[p] = 1
    /\ pc[p] = "rename" /\ file # Nothing => Text(file) = judged[p]
    /\ pc[p] = "check" => file = Nothing /\ Text(moved[p]) = judged[p]
Seen == \A p \in Procs : SeenUnder(p)

OneGuard == OneHost /\ guarded
InvSeen == Inv /\ (OneGuard => Seen)

\* At first nobody has judged or moved a file.
LEMMA SeenInit == LockInit => Seen
  BY DEF LockInit, Seen, SeenUnder

\* A step outside the guard: it creates nothing and writes nothing.
LEMMA SeenOutside ==
    ASSUME Seen, TypeOK, file' = file \/ file' = Nothing,
           UNCHANGED <<written, judged, moved, tries>>,
           NEW p \in Procs, pc'[p] \notin {"guard"} \cup {"create", "judge", "rename", "check"},
           \A q \in Procs : q # p => pc'[q] = pc[q]
    PROVE  Seen'
  BY DEF Seen, SeenUnder, Text

\* A step in the guard is the only one there is.
LEMMA AloneInGuard ==
    ASSUME TypeOK, Exclusion, OneGuard, NEW p \in Procs, InGuard(p)
    PROVE  \A q \in Procs : q # p =>
               pc[q] \notin {"create", "judge", "rename", "check"}
  BY OneInGuard DEF Exclusion, OneGuard, Safe, InGuard

\* Every step of one host keeps what is known of what was judged and moved.
LEMMA SeenStep ==
    ASSUME TypeOK, Counted, Exclusion, OneGuard, Seen, [LockNext]_lockVars
    PROVE  Seen'
  <1> USE ConstantsOK DEF TypeOK, deployment, files, attempts
  <1>1. ASSUME NEW p \in Procs, Start(p) PROVE Seen'
    BY <1>1 DEF Start, Goto, Seen, SeenUnder, Text
  <1>2. ASSUME NEW p \in Procs, GuardBusy(p) PROVE Seen'
    BY <1>2, SeenOutside DEF GuardBusy, Goto
  <1>3. ASSUME NEW p \in Procs, EnterGuard(p) PROVE Seen'
    BY <1>3 DEF EnterGuard, Goto, Seen, SeenUnder, Text
  <1>4. ASSUME NEW p \in Procs, Create(p) PROVE Seen'
    <2>1. \A q \in Procs : q # p => pc[q] \notin {"create", "judge", "rename", "check"}
      BY <1>4, AloneInGuard DEF Create, InGuard
    <2>2. Mine(p) # Nothing
      BY <1>4, MineIsAcquisition DEF Create
    <2> QED
      BY <1>4, <2>1, <2>2 DEF Create, Goto, Seen, SeenUnder, Text
  <1>5. ASSUME NEW p \in Procs, GiveUp(p) PROVE Seen'
    BY <1>5, SeenOutside DEF GiveUp, Goto
  <1>6. ASSUME NEW p \in Procs, Write(p) PROVE Seen'
    <2>1. \A q \in Procs : q # p => pc[q] \notin {"create", "judge", "rename", "check"}
      BY <1>6, AloneInGuard DEF Write, InGuard
    <2> QED
      BY <1>6, <2>1 DEF Write, Goto, Seen, SeenUnder
  <1>7. ASSUME NEW p \in Procs, Judge(p) PROVE Seen'
    BY <1>7 DEF Judge, Goto, Seen, SeenUnder, Text
  <1>8. ASSUME NEW p \in Procs, Rename(p) PROVE Seen'
    BY <1>8 DEF Rename, Goto, Seen, SeenUnder, Text
  <1>9. ASSUME NEW p \in Procs, Check(p) PROVE Seen'
    BY <1>9 DEF Check, Goto, Seen, SeenUnder, Text
  <1>10. ASSUME NEW p \in Procs, Refresh(p) PROVE Seen'
    BY <1>10, SeenOutside DEF Refresh, Goto
  <1>11. ASSUME NEW p \in Procs, Finish(p) PROVE Seen'
    BY <1>11, SeenOutside DEF Finish, Goto
  <1>12. ASSUME NEW p \in Procs, EnterRelease(p) PROVE Seen'
    BY <1>12, SeenOutside DEF EnterRelease, Goto
  <1>13. ASSUME NEW p \in Procs, Reread(p) PROVE Seen'
    BY <1>13, SeenOutside DEF Reread, Goto
  <1>14. ASSUME NEW p \in Procs, Unlink(p) PROVE Seen'
    BY <1>14, SeenOutside DEF Unlink, Goto
  <1>15. ASSUME NEW p \in Procs, Crash(p) PROVE Seen'
    BY <1>15, SeenOutside DEF Crash, Goto
  <1>16. CASE Age
    BY <1>16 DEF Age, Seen, SeenUnder, Text
  <1>17. CASE UNCHANGED lockVars
    BY <1>17 DEF lockVars, Seen, SeenUnder, Text
  <1> QED
    BY <1>1, <1>2, <1>3, <1>4, <1>5, <1>6, <1>7, <1>8, <1>9, <1>10, <1>11, <1>12,
       <1>13, <1>14, <1>15, <1>16, <1>17 DEF LockNext, Step

\* And what is known of judged and moved files holds always.
LEMMA InvSeenAlways == LockSpec => []InvSeen
  <1>1. LockInit => InvSeen
    BY InvInit, SeenInit DEF InvSeen
  <1>2. InvSeen /\ [LockNext]_lockVars => InvSeen'
    <2> SUFFICES ASSUME InvSeen, [LockNext]_lockVars PROVE InvSeen'
      OBVIOUS
    <2>1. Inv'
      BY InvStep DEF InvSeen
    <2>2. UNCHANGED <<host, guarded>>
      BY DEF LockNext, Step, lockVars, deployment, Start, GuardBusy, EnterGuard, Create, GiveUp, Write,
             Judge, Rename, Check, Refresh, Finish, EnterRelease, Reread, Unlink, Crash, Age
    <2>3. OneGuard' => OneGuard
      BY <2>2 DEF OneGuard, OneHost
    <2>4. OneGuard' => Seen'
      BY <2>3, SeenStep DEF InvSeen, Inv, OneGuard, Safe
    <2> QED
      BY <2>1, <2>4 DEF InvSeen
  <1> QED
    BY <1>1, <1>2, PTL DEF LockSpec

\* A process that leaves the guard empty-handed met a lock in use, or one too
\* young to tell.
LEMMA RefusalStep ==
    ASSUME InvSeen, OneGuard, [LockNext]_lockVars, NEW p \in Procs,
           pc[p] \in {"create", "judge", "check"}, pc'[p] = "idle"
    PROVE  file # Nothing /\ (Alive(file) \/ (file \notin written /\ file \notin old))
  <1> USE DEF InvSeen, Inv, TypeOK
  <1>1. \A q \in Procs : q # p => ~(Start(q) \/ GuardBusy(q) \/ Step(q) \/ Finish(q) \/ Crash(q))
    BY DEF Start, GuardBusy, Step, EnterGuard, Create, GiveUp, Write, Judge, Rename, Check,
           Refresh, Finish, EnterRelease, Reread, Unlink, Crash, Goto
  <1>2. GiveUp(p) \/ Judge(p) \/ Check(p)
    BY <1>1 DEF LockNext, lockVars, Age, Start, GuardBusy, Step, EnterGuard, Create, Write, Rename,
                Refresh, Finish, EnterRelease, Reread, Unlink, Crash, Goto
  <1>3. ~GiveUp(p)
    BY ConstantsOK DEF GiveUp, Seen, SeenUnder
  <1>4. ~Check(p)
    BY DEF Check, Seen, SeenUnder, Goto
  <1>5. Judge(p) /\ file # Nothing /\ Held(p, file)
    BY <1>2, <1>3, <1>4 DEF Judge, Goto, OneGuard
  <1>6. file \in Acquisitions
    BY <1>5
  <1> QED
    BY <1>5, <1>6 DEF Held, OneGuard, OneHost, Acquisitions

\* hzdr_nexus.py:458-460: on one host with kernel locks a process is refused
\* only for a lock whose process runs, or for one left empty that is too young to
\* tell, wherever the others died and whatever they were doing.
THEOREM RefusesForTheLiving == LockSpec => RefusedOnlyIfHeld
  <1>1. InvSeen /\ [LockNext]_lockVars =>
          [\A p \in Procs :
              /\ OneHost /\ guarded
              /\ pc[p] \in {"create", "judge", "check"} /\ pc'[p] = "idle"
              => file # Nothing /\ (Alive(file) \/ (file \notin written /\ file \notin old))]_lockVars
    BY RefusalStep DEF OneGuard
  <1> QED
    BY <1>1, InvSeenAlways, PTL DEF LockSpec, RefusedOnlyIfHeld

-----------------------------------------------------------------------------
(* Functions written by recursion: each is what its steps say. MergeShots. *)

\* A set of numbers that is not empty has a least one.
LEMMA Lowest ==
    ASSUME NEW S \in SUBSET Nat, S # {}
    PROVE  \E x \in S : \A y \in S : x <= y
<1>1. PICK t \in S : \A u \in S : ~ (<<u, t>> \in OpToRel(<, Nat))
    BY NatLessThanWellFounded, WFMin
<1>2. \A u \in S : ~(u < t)
    BY <1>1, Zenon DEF OpToRel
<1> QED BY <1>2

\* What is true at 0 and goes on from each number to the next is true up to N.
\* The set of a predicate's numbers stands for the predicate.
LEMMA UpTo ==
    ASSUME NEW N \in Nat, NEW S, 0 \in S, \A n \in 0 .. (N - 1) : n \in S => n + 1 \in S
    PROVE  \A n \in 0 .. N : n \in S
<1> DEFINE T == {n \in 0 .. N : n \notin S}
<1>1. SUFFICES ASSUME T # {} PROVE FALSE
    OBVIOUS
<1>2. PICK x \in T : \A y \in T : x <= y
  <2>1. T \in SUBSET Nat
    OBVIOUS
  <2> HIDE DEF T
  <2> QED BY <1>1, <2>1, Lowest
<1>3. x # 0 /\ x \in 0 .. N /\ x - 1 \in 0 .. (N - 1)
    OBVIOUS
<1>4. x - 1 \in S
    BY <1>2, <1>3
<1> QED BY <1>3, <1>4

MergeSteps(h, rows, n) == h = [k \in 0 .. n |-> IF k = 0 THEN <<>> ELSE Merged(h[k - 1], rows[k])]

\* The merge of n rows goes on to n + 1 of them.
LEMMA MergeGoesOn ==
    ASSUME NEW rows, NEW n \in Nat, NEW h, MergeSteps(h, rows, n)
    PROVE  \E g : MergeSteps(g, rows, n + 1)
<1> DEFINE g == [k \in 0 .. (n + 1) |-> IF k \in 0 .. n THEN h[k] ELSE Merged(h[n], rows[n + 1])]
           e(k) == IF k = 0 THEN <<>> ELSE Merged(g[k - 1], rows[k])
<1>1. ASSUME NEW k \in 0 .. (n + 1) PROVE g[k] = e(k)
  <2>1. CASE k = 0
    <3>1. g[k] = h[k]
        BY <2>1
    <3> HIDE DEF g
    <3> QED BY <2>1, <3>1 DEF MergeSteps
  <2>2. CASE k # 0 /\ k \in 0 .. n
    <3>1. g[k] = h[k] /\ g[k - 1] = h[k - 1]
        BY <2>2
    <3> HIDE DEF g
    <3>2. h[k] = Merged(h[k - 1], rows[k])
        BY <2>2 DEF MergeSteps
    <3> QED BY <2>2, <3>1, <3>2
  <2>3. CASE k = n + 1
    <3>1. g[k] = Merged(h[n], rows[n + 1]) /\ g[k - 1] = h[n] /\ k # 0
        BY <2>3
    <3> HIDE DEF g
    <3> QED BY <2>3, <3>1
  <2> QED BY <2>1, <2>2, <2>3
<1>2. g = [k \in 0 .. (n + 1) |-> e(k)]
  <2>1. DOMAIN g = 0 .. (n + 1) /\ g = [k \in DOMAIN g |-> g[k]]
    OBVIOUS
  <2> HIDE DEF g, e
  <2> QED BY <1>1, <2>1
<1>3. MergeSteps(g, rows, n + 1)
  <2> HIDE DEF g
  <2> QED BY <1>2 DEF MergeSteps
<1> QED BY <1>3

\* So there is a merge of any number of rows.
LEMMA MergeRuns ==
    ASSUME NEW rows, NEW N \in Nat
    PROVE  \E h : MergeSteps(h, rows, N)
<1> DEFINE S == {n \in Nat : \E h : MergeSteps(h, rows, n)}
<1>1. 0 \in S
  <2>1. MergeSteps([k \in {0} |-> <<>>], rows, 0)
    BY 0 .. 0 = {0} DEF MergeSteps
  <2> QED BY <2>1
<1>2. \A n \in Nat : n \in S => n + 1 \in S
    BY MergeGoesOn
<1>3. \A n \in 0 .. N : n \in S
  <2> HIDE DEF S
  <2> QED BY <1>1, <1>2, UpTo
<1> QED BY <1>3

\* MergeShots is its last value (merge_shots).
LEMMA MergeIs ==
    ASSUME NEW rows, Len(rows) \in Nat
    PROVE  \E h : MergeSteps(h, rows, Len(rows)) /\ MergeShots(rows) = h[Len(rows)]
<1> DEFINE H(h) == h = [k \in 0 .. Len(rows) |-> IF k = 0 THEN <<>> ELSE Merged(h[k - 1], rows[k])]
           merged == CHOOSE h : H(h)
<1>1. MergeShots(rows) = merged[Len(rows)]
    BY Zenon DEF MergeShots
<1>2. \E h : H(h)
    BY MergeRuns, Zenon DEF MergeSteps
<1>3. H(merged)
  <2> HIDE DEF H
  <2> QED BY <1>2, Zenon
<1>4. MergeSteps(merged, rows, Len(rows))
  <2> HIDE DEF merged
  <2> QED BY <1>3 DEF MergeSteps
<1> QED BY <1>1, <1>4, Zenon

\* A shot of any source has these fields.
IsShot(s) ==
    s = [record |-> s.record, number |-> s.number, authority |-> s.authority, day |-> s.day,
         time |-> s.time, campaign |-> s.campaign, experiment |-> s.experiment, meta |-> s.meta]

\* Completing a shot leaves what it says, and which shot it is.
LEMMA CompleteIs ==
    ASSUME NEW s, NEW t, IsShot(s), Identity(s) = Identity(t)
    PROVE  LET c == Complete(s, t)
           IN  /\ IsShot(c)
               /\ Identity(c) = Identity(s)
               /\ c.number = s.number \/ s.number = Unknown
               /\ c.time = s.time \/ s.time = Unknown
               /\ c.authority = s.authority \/ c.authority = t.authority
<1> DEFINE c == Complete(s, t)
<1>1. /\ IsShot(c) /\ c.record = s.record
      /\ c.number = Else(s.number, t.number, Unknown)
      /\ c.authority = Else(s.authority, t.authority, Unknown)
      /\ c.day = Else(s.day, t.day, Unknown)
      /\ c.time = Else(s.time, t.time, Unknown)
      /\ c.campaign = Else(s.campaign, t.campaign, "")
  BY DEF Complete, IsShot
<1> HIDE DEF c
<1>2. Identity(c) = Identity(s)
  <2>1. CASE s.record # ""
    BY <1>1, <2>1 DEF Identity
  <2>2. CASE s.record = ""
    <3>1. Identity(s) = <<"shot", s.campaign, s.day, s.number>>
        BY <2>2 DEF Identity
    <3>2. Identity(t)[1] = "shot" /\ Identity(t)[2] = s.campaign /\ Identity(t)[3] = s.day /\ Identity(t)[4] = s.number
        BY <3>1
    <3>3. t.record = ""
      <4> SUFFICES ASSUME t.record # "" PROVE FALSE
        OBVIOUS
      <4>1. Identity(t)[1] = "record"
        BY DEF Identity
      <4> QED BY <3>2, <4>1
    <3>4. t.campaign = s.campaign /\ t.day = s.day /\ t.number = s.number
        BY <3>2, <3>3 DEF Identity
    <3>5. c.campaign = s.campaign /\ c.day = s.day /\ c.number = s.number
        BY <1>1, <3>4 DEF Else
    <3> QED BY <1>1, <2>2, <3>5 DEF Identity
  <2> QED BY <2>1, <2>2
<1>3. /\ c.number = s.number \/ s.number = Unknown
      /\ c.time = s.time \/ s.time = Unknown
      /\ c.authority = s.authority \/ c.authority = t.authority
    BY <1>1 DEF Else
<1> QED BY <1>1, <1>2, <1>3, Zenon DEF c

\* Rows of the sources, in their order, and shots of their own; the first k are one shot each.
Rowed(rows) == IsSequence(rows) /\ \A r \in DOMAIN rows : IsShot(rows[r])
Apart(rows, k) == \A i, j \in 1 .. k : i # j => Identity(rows[i]) # Identity(rows[j])

\* What the first n rows have been merged into.
OneOfEach(m) ==
    /\ IsSequence(m)
    /\ \A i \in DOMAIN m : IsShot(m[i])
    /\ \A i, j \in DOMAIN m : i # j => Identity(m[i]) # Identity(m[j])
Covers(m, rows, n) == \A r \in 1 .. n : \E i \in DOMAIN m : Identity(m[i]) = Identity(rows[r])
FromRows(m, rows, n) ==
    \A i \in DOMAIN m :
        /\ \E r \in 1 .. n : Identity(rows[r]) = Identity(m[i])
        /\ m[i].authority # Unknown =>
              \E r \in 1 .. n : Identity(rows[r]) = Identity(m[i]) /\ rows[r].authority = m[i].authority
InPlace(m, rows, k) ==
    \A i \in 1 .. k :
        /\ i \in DOMAIN m /\ Identity(m[i]) = Identity(rows[i])
        /\ rows[i].number \in {Unknown, m[i].number}
        /\ rows[i].time \in {Unknown, m[i].time}
MergedSoFar(m, rows, k, n) ==
    /\ OneOfEach(m) /\ Covers(m, rows, n) /\ FromRows(m, rows, n)
    /\ n <= k => Len(m) = n /\ InPlace(m, rows, n)
    /\ n >= k => InPlace(m, rows, k)

\* Nothing is merged yet, of no rows.
LEMMA MergeNone ==
    ASSUME NEW rows, NEW k \in Nat
    PROVE  MergedSoFar(<<>>, rows, k, 0)
  BY DEF MergedSoFar, OneOfEach, Covers, FromRows, InPlace, IsSequence

\* A row of a shot that is there completes it.
LEMMA MergeCompletes ==
    ASSUME NEW rows, Rowed(rows), NEW k \in 0 .. Len(rows), Apart(rows, k),
           NEW n \in 0 .. (Len(rows) - 1), NEW m, MergedSoFar(m, rows, k, n),
           \E i \in DOMAIN m : Identity(m[i]) = Identity(rows[n + 1])
    PROVE  MergedSoFar(Merged(m, rows[n + 1]), rows, k, n + 1)
<1> DEFINE t == rows[n + 1]
           g == [i \in DOMAIN m |-> IF Identity(m[i]) = Identity(t) THEN Complete(m[i], t) ELSE m[i]]
<1>1. Merged(m, t) = g
    BY DEF Merged
<1>2. Len(rows) \in Nat /\ DOMAIN rows = 1 .. Len(rows) /\ n + 1 \in DOMAIN rows
    BY DEF Rowed, IsSequence
<1>3. Len(m) \in Nat /\ DOMAIN m = 1 .. Len(m)
    BY DEF MergedSoFar, OneOfEach, IsSequence
<1>4. DOMAIN g = DOMAIN m
    OBVIOUS
<1>5. ASSUME NEW i \in DOMAIN m
      PROVE  /\ IsShot(g[i]) /\ Identity(g[i]) = Identity(m[i])
             /\ g[i].number = m[i].number \/ m[i].number = Unknown
             /\ g[i].time = m[i].time \/ m[i].time = Unknown
             /\ \/ g[i].authority = m[i].authority
                \/ Identity(t) = Identity(m[i]) /\ g[i].authority = t.authority
  <2>1. IsShot(m[i])
    BY DEF MergedSoFar, OneOfEach
  <2>2. CASE Identity(m[i]) = Identity(t)
    <3>1. g[i] = Complete(m[i], t)
        BY <2>2
    <3> HIDE DEF g, t
    <3> QED BY <2>1, <2>2, <3>1, CompleteIs
  <2>3. CASE Identity(m[i]) # Identity(t)
    <3>1. g[i] = m[i]
        BY <2>3
    <3> HIDE DEF g, t
    <3> QED BY <2>1, <3>1
  <2> QED BY <2>2, <2>3
<1>6. IsSequence(g) /\ Len(g) = Len(m)
    BY <1>3 DEF IsSequence
<1>7. n + 1 > k
  <2> SUFFICES ASSUME n + 1 <= k PROVE FALSE
    BY <1>2
  <2>1. Len(m) = n /\ InPlace(m, rows, n)
    BY DEF MergedSoFar
  <2>2. PICK i \in DOMAIN m : Identity(m[i]) = Identity(rows[n + 1])
    OBVIOUS
  <2>3. i \in 1 .. n /\ Identity(rows[i]) = Identity(rows[n + 1])
    BY <1>3, <2>1, <2>2 DEF InPlace
  <2> QED BY <2>3, <1>2 DEF Apart
<1> HIDE DEF g
<1>8. OneOfEach(g)
    BY <1>4, <1>5, <1>6 DEF MergedSoFar, OneOfEach
<1>9. Covers(g, rows, n + 1)
  <2> SUFFICES ASSUME NEW r \in 1 .. (n + 1)
               PROVE  \E i \in DOMAIN g : Identity(g[i]) = Identity(rows[r])
    BY DEF Covers
  <2>1. \E i \in DOMAIN m : Identity(m[i]) = Identity(rows[r])
    BY DEF MergedSoFar, Covers
  <2> QED BY <2>1, <1>4, <1>5
<1>10. FromRows(g, rows, n + 1)
  <2> SUFFICES ASSUME NEW i \in DOMAIN m
               PROVE  /\ \E r \in 1 .. (n + 1) : Identity(rows[r]) = Identity(g[i])
                      /\ g[i].authority # Unknown =>
                            \E r \in 1 .. (n + 1) : /\ Identity(rows[r]) = Identity(g[i])
                                                   /\ rows[r].authority = g[i].authority
    BY <1>4 DEF FromRows
  <2>1. /\ \E r \in 1 .. n : Identity(rows[r]) = Identity(m[i])
        /\ m[i].authority # Unknown =>
              \E r \in 1 .. n : Identity(rows[r]) = Identity(m[i]) /\ rows[r].authority = m[i].authority
    BY DEF MergedSoFar, FromRows
  <2>2. n + 1 \in 1 .. (n + 1) /\ 1 .. n \subseteq 1 .. (n + 1)
    OBVIOUS
  <2> QED BY <1>5, <2>1, <2>2
<1>11. n + 1 >= k => InPlace(g, rows, k)
  <2> SUFFICES ASSUME NEW i \in 1 .. k
               PROVE  /\ i \in DOMAIN g /\ Identity(g[i]) = Identity(rows[i])
                      /\ rows[i].number \in {Unknown, g[i].number}
                      /\ rows[i].time \in {Unknown, g[i].time}
    BY DEF InPlace
  <2>1. n >= k
    BY <1>2, <1>7
  <2>2. /\ i \in DOMAIN m /\ Identity(m[i]) = Identity(rows[i])
        /\ rows[i].number \in {Unknown, m[i].number}
        /\ rows[i].time \in {Unknown, m[i].time}
    BY <2>1 DEF MergedSoFar, InPlace
  <2> QED BY <2>2, <1>4, <1>5
<1> QED BY <1>1, <1>2, <1>7, <1>8, <1>9, <1>10, <1>11 DEF MergedSoFar

\* A row of another shot comes last.
LEMMA MergeAppends ==
    ASSUME NEW rows, Rowed(rows), NEW k \in 0 .. Len(rows), Apart(rows, k),
           NEW n \in 0 .. (Len(rows) - 1), NEW m, MergedSoFar(m, rows, k, n),
           \A i \in DOMAIN m : Identity(m[i]) # Identity(rows[n + 1])
    PROVE  MergedSoFar(Merged(m, rows[n + 1]), rows, k, n + 1)
<1> DEFINE t == rows[n + 1]
           g == Append(m, t)
<1>1. Merged(m, t) = g
    BY DEF Merged
<1>2. Len(rows) \in Nat /\ DOMAIN rows = 1 .. Len(rows) /\ n + 1 \in DOMAIN rows /\ IsShot(t)
    BY DEF Rowed, IsSequence
<1>3. Len(m) \in Nat /\ DOMAIN m = 1 .. Len(m) /\ IsSequence(m)
    BY DEF MergedSoFar, OneOfEach, IsSequence
<1>4. DOMAIN g = 1 .. (Len(m) + 1) /\ Len(g) = Len(m) + 1 /\ g[Len(m) + 1] = t
      /\ (\A i \in DOMAIN m : g[i] = m[i]) /\ IsSequence(g)
  <2> DEFINE V == {m[i] : i \in DOMAIN m} \cup {t}
  <2>1. m \in Seq(V) /\ t \in V
    <3>1. m \in Seq({m[i] : i \in DOMAIN m})
        BY <1>3 DEF IsSequence
    <3> QED BY <3>1
  <2> HIDE DEF V, t
  <2>2. DOMAIN g = 1 .. (Len(m) + 1) /\ Len(g) = Len(m) + 1 /\ g[Len(m) + 1] = t
        /\ (\A i \in DOMAIN m : g[i] = m[i]) /\ g \in Seq(V)
    BY <1>3, <2>1
  <2> HIDE DEF g
  <2> QED BY <2>2, <1>3 DEF IsSequence
<1> HIDE DEF g, t
<1>5. \A i \in DOMAIN g : (i \in DOMAIN m /\ g[i] = m[i]) \/ (i = Len(m) + 1 /\ g[i] = t)
    BY <1>3, <1>4
<1>6. Len(m) + 1 \in DOMAIN g /\ DOMAIN m \subseteq DOMAIN g
    BY <1>3, <1>4
<1>8. OneOfEach(g)
  <2>1. \A i \in DOMAIN m : IsShot(m[i]) /\ Identity(m[i]) # Identity(t)
    BY DEF MergedSoFar, OneOfEach, t
  <2>2. \A i, j \in DOMAIN m : i # j => Identity(m[i]) # Identity(m[j])
    BY DEF MergedSoFar, OneOfEach
  <2> QED BY <1>2, <1>4, <1>5, <2>1, <2>2 DEF OneOfEach
<1>9. Covers(g, rows, n + 1)
  <2> SUFFICES ASSUME NEW r \in 1 .. (n + 1)
               PROVE  \E i \in DOMAIN g : Identity(g[i]) = Identity(rows[r])
    BY DEF Covers
  <2>1. CASE r = n + 1
    BY <1>4, <1>6, <2>1 DEF t
  <2>2. CASE r # n + 1
    <3>1. r \in 1 .. n
        BY <2>2
    <3>2. \E i \in DOMAIN m : Identity(m[i]) = Identity(rows[r])
        BY <3>1 DEF MergedSoFar, Covers
    <3> QED BY <3>2, <1>4, <1>6
  <2> QED BY <2>1, <2>2
<1>10. FromRows(g, rows, n + 1)
  <2> SUFFICES ASSUME NEW i \in DOMAIN g
               PROVE  /\ \E r \in 1 .. (n + 1) : Identity(rows[r]) = Identity(g[i])
                      /\ g[i].authority # Unknown =>
                            \E r \in 1 .. (n + 1) : /\ Identity(rows[r]) = Identity(g[i])
                                                   /\ rows[r].authority = g[i].authority
    BY DEF FromRows
  <2>1. n + 1 \in 1 .. (n + 1) /\ 1 .. n \subseteq 1 .. (n + 1)
    OBVIOUS
  <2>2. CASE i \in DOMAIN m /\ g[i] = m[i]
    <3>1. /\ \E r \in 1 .. n : Identity(rows[r]) = Identity(m[i])
          /\ m[i].authority # Unknown =>
                \E r \in 1 .. n : Identity(rows[r]) = Identity(m[i]) /\ rows[r].authority = m[i].authority
        BY <2>2 DEF MergedSoFar, FromRows
    <3> QED BY <2>1, <2>2, <3>1
  <2>3. CASE g[i] = t
    BY <2>1, <2>3 DEF t
  <2> QED BY <1>5, <2>2, <2>3
<1>11. ASSUME NEW j \in Nat, j <= n, InPlace(m, rows, j) PROVE InPlace(g, rows, j)
    BY <1>4, <1>6, <1>11 DEF InPlace
<1>12. n + 1 <= k => Len(g) = n + 1 /\ InPlace(g, rows, n + 1)
  <2> SUFFICES ASSUME n + 1 <= k PROVE Len(g) = n + 1 /\ InPlace(g, rows, n + 1)
    OBVIOUS
  <2>1. Len(m) = n /\ InPlace(m, rows, n)
    BY DEF MergedSoFar
  <2>2. InPlace(g, rows, n)
    BY <1>11, <2>1
  <2>3. n + 1 \in DOMAIN g /\ g[n + 1] = rows[n + 1]
    BY <1>4, <1>6, <2>1 DEF t
  <2>4. ASSUME NEW i \in 1 .. (n + 1)
        PROVE  /\ i \in DOMAIN g /\ Identity(g[i]) = Identity(rows[i])
               /\ rows[i].number \in {Unknown, g[i].number}
               /\ rows[i].time \in {Unknown, g[i].time}
    <3>1. CASE i = n + 1
        BY <2>3, <3>1
    <3>2. CASE i \in 1 .. n
        BY <2>2, <3>2 DEF InPlace
    <3> QED BY <3>1, <3>2
  <2> QED BY <1>4, <2>1, <2>4 DEF InPlace
<1>13. n + 1 >= k => InPlace(g, rows, k)
  <2>1. CASE n + 1 = k
    BY <1>12, <2>1
  <2>2. CASE n >= k
    BY <1>11, <2>2, <1>2 DEF MergedSoFar
  <2> QED BY <2>1, <2>2, <1>2
<1> QED BY <1>1, <1>2, <1>8, <1>9, <1>10, <1>12, <1>13 DEF MergedSoFar, t

\* Merging one row more: what is known of the merged shots stays known.
LEMMA MergeStep ==
    ASSUME NEW rows, Rowed(rows), NEW k \in 0 .. Len(rows), Apart(rows, k),
           NEW n \in 0 .. (Len(rows) - 1), NEW m, MergedSoFar(m, rows, k, n)
    PROVE  MergedSoFar(Merged(m, rows[n + 1]), rows, k, n + 1)
  BY MergeCompletes, MergeAppends, Zenon

\* Merging leaves one shot of each identity, in the order of the first source.
LEMMA MergeShotsIs ==
    ASSUME NEW rows, Rowed(rows), NEW k \in 0 .. Len(rows), Apart(rows, k)
    PROVE  MergedSoFar(MergeShots(rows), rows, k, Len(rows))
<1>1. Len(rows) \in Nat
    BY DEF Rowed, IsSequence
<1>2. PICK h : MergeSteps(h, rows, Len(rows)) /\ MergeShots(rows) = h[Len(rows)]
    BY <1>1, MergeIs, Zenon
<1> DEFINE S == {n \in 0 .. Len(rows) : MergedSoFar(h[n], rows, k, n)}
<1>3. 0 \in S
  <2>1. h[0] = <<>>
    BY <1>1, <1>2 DEF MergeSteps
  <2> QED BY <1>1, <2>1, MergeNone
<1>4. \A n \in 0 .. (Len(rows) - 1) : n \in S => n + 1 \in S
  <2> SUFFICES ASSUME NEW n \in 0 .. (Len(rows) - 1), n \in S PROVE n + 1 \in S
    OBVIOUS
  <2>1. h[n + 1] = Merged(h[n], rows[n + 1]) /\ n + 1 \in 0 .. Len(rows)
    <3>1. n + 1 \in 0 .. Len(rows) /\ n + 1 # 0 /\ (n + 1) - 1 = n
        BY <1>1
    <3> QED BY <1>2, <3>1 DEF MergeSteps
  <2>2. MergedSoFar(h[n], rows, k, n)
    OBVIOUS
  <2>3. MergedSoFar(Merged(h[n], rows[n + 1]), rows, k, n + 1)
    BY <2>2, MergeStep
  <2> QED BY <2>1, <2>3
<1>5. \A n \in 0 .. Len(rows) : n \in S
  <2> HIDE DEF S
  <2> QED BY <1>1, <1>3, <1>4, UpTo
<1>6. Len(rows) \in 0 .. Len(rows)
    BY <1>1
<1> QED BY <1>2, <1>5, <1>6

-----------------------------------------------------------------------------
(* What Picked keeps of a sequence, and what is put behind one. *)

PickSteps(h, s, chosen, n) ==
    h = [k \in 0 .. n |-> IF k = 0 THEN <<>>
                          ELSE IF k \in chosen THEN Append(h[k - 1], s[k]) ELSE h[k - 1]]

\* What is picked of n members goes on to n + 1 of them.
LEMMA PickGoesOn ==
    ASSUME NEW s, NEW chosen, NEW n \in Nat, NEW h, PickSteps(h, s, chosen, n)
    PROVE  \E g : PickSteps(g, s, chosen, n + 1)
<1> DEFINE last == IF n + 1 \in chosen THEN Append(h[n], s[n + 1]) ELSE h[n]
           g == [k \in 0 .. (n + 1) |-> IF k \in 0 .. n THEN h[k] ELSE last]
           e(k) == IF k = 0 THEN <<>> ELSE IF k \in chosen THEN Append(g[k - 1], s[k]) ELSE g[k - 1]
<1>1. ASSUME NEW k \in 0 .. (n + 1) PROVE g[k] = e(k)
  <2>1. CASE k = 0
    <3>1. g[k] = h[k]
        BY <2>1
    <3> HIDE DEF g
    <3> QED BY <2>1, <3>1 DEF PickSteps
  <2>2. CASE k # 0 /\ k \in 0 .. n
    <3>1. g[k] = h[k] /\ g[k - 1] = h[k - 1]
        BY <2>2
    <3> HIDE DEF g
    <3>2. h[k] = IF k \in chosen THEN Append(h[k - 1], s[k]) ELSE h[k - 1]
        BY <2>2 DEF PickSteps
    <3> QED BY <2>2, <3>1, <3>2
  <2>3. CASE k = n + 1
    <3>1. g[k] = last /\ g[k - 1] = h[n] /\ k # 0
        BY <2>3
    <3> HIDE DEF g
    <3> QED BY <2>3, <3>1
  <2> QED BY <2>1, <2>2, <2>3
<1>2. g = [k \in 0 .. (n + 1) |-> e(k)]
  <2>1. DOMAIN g = 0 .. (n + 1) /\ g = [k \in DOMAIN g |-> g[k]]
    OBVIOUS
  <2> HIDE DEF g, e
  <2> QED BY <1>1, <2>1
<1>3. PickSteps(g, s, chosen, n + 1)
  <2> HIDE DEF g
  <2> QED BY <1>2 DEF PickSteps
<1> QED BY <1>3

\* So there is a pick of any number of members.
LEMMA PickRuns ==
    ASSUME NEW s, NEW chosen, NEW N \in Nat
    PROVE  \E h : PickSteps(h, s, chosen, N)
<1> DEFINE S == {n \in Nat : \E h : PickSteps(h, s, chosen, n)}
<1>1. 0 \in S
  <2>1. PickSteps([k \in {0} |-> <<>>], s, chosen, 0)
    BY 0 .. 0 = {0} DEF PickSteps
  <2> QED BY <2>1
<1>2. \A n \in Nat : n \in S => n + 1 \in S
    BY PickGoesOn
<1>3. \A n \in 0 .. N : n \in S
  <2> HIDE DEF S
  <2> QED BY <1>1, <1>2, UpTo
<1> QED BY <1>3

\* Picked is its last value.
LEMMA PickIs ==
    ASSUME NEW s, NEW chosen, Len(s) \in Nat
    PROVE  \E h : PickSteps(h, s, chosen, Len(s)) /\ Picked(s, chosen) = h[Len(s)]
<1> DEFINE H(h) == h = [k \in 0 .. Len(s) |-> IF k = 0 THEN <<>>
                                              ELSE IF k \in chosen THEN Append(h[k - 1], s[k]) ELSE h[k - 1]]
           picked == CHOOSE h : H(h)
<1>1. Picked(s, chosen) = picked[Len(s)]
    BY Zenon DEF Picked
<1>2. \E h : H(h)
  <2>1. PICK h : PickSteps(h, s, chosen, Len(s))
    BY PickRuns
  <2>2. H(h)
    BY <2>1 DEF PickSteps
  <2> HIDE DEF H
  <2> QED BY <2>2
<1>3. H(picked)
  <2> HIDE DEF H
  <2> QED BY <1>2, Zenon
<1>4. PickSteps(picked, s, chosen, Len(s))
  <2> HIDE DEF picked
  <2> QED BY <1>3 DEF PickSteps
<1> QED BY <1>1, <1>4, Zenon

\* What is appended to a sequence is its last member.
LEMMA AppendIs ==
    ASSUME NEW m, IsSequence(m), NEW t
    PROVE  /\ IsSequence(Append(m, t)) /\ Len(Append(m, t)) = Len(m) + 1
           /\ Append(m, t)[Len(m) + 1] = t
           /\ \A i \in DOMAIN m : Append(m, t)[i] = m[i]
<1> DEFINE V == {m[i] : i \in DOMAIN m} \cup {t}
           g == Append(m, t)
<1>1. m \in Seq(V) /\ t \in V
  <2>1. m \in Seq({m[i] : i \in DOMAIN m})
    BY DEF IsSequence
  <2> QED BY <2>1
<1> HIDE DEF V
<1>2. DOMAIN g = 1 .. (Len(m) + 1) /\ Len(g) = Len(m) + 1 /\ g[Len(m) + 1] = t
        /\ (\A i \in DOMAIN m : g[i] = m[i]) /\ g \in Seq(V)
    BY <1>1
<1>3. IsSequence(g)
  <2> HIDE DEF g
  <2> QED BY <1>2 DEF IsSequence
<1> QED BY <1>2, <1>3

\* What is picked from a sequence is a sequence of its members that were chosen.
LEMMA PickedIs ==
    ASSUME NEW s, IsSequence(s), NEW chosen
    PROVE  /\ IsSequence(Picked(s, chosen))
           /\ \A i \in DOMAIN Picked(s, chosen) :
                 \E k \in chosen : k \in DOMAIN s /\ Picked(s, chosen)[i] = s[k]
<1> DEFINE P(m) == IsSequence(m) /\ \A i \in DOMAIN m : \E k \in chosen : k \in DOMAIN s /\ m[i] = s[k]
<1>1. Len(s) \in Nat /\ DOMAIN s = 1 .. Len(s)
    BY DEF IsSequence
<1>2. PICK h : PickSteps(h, s, chosen, Len(s)) /\ Picked(s, chosen) = h[Len(s)]
    BY <1>1, PickIs, Zenon
<1> DEFINE S == {n \in 0 .. Len(s) : P(h[n])}
<1>3. 0 \in S
  <2>1. h[0] = <<>>
    BY <1>1, <1>2 DEF PickSteps
  <2>2. P(<<>>)
    BY DEF IsSequence
  <2> QED BY <1>1, <2>1, <2>2
<1>4. ASSUME NEW n \in 0 .. (Len(s) - 1), n \in S PROVE n + 1 \in S
  <2>1. n + 1 \in 0 .. Len(s) /\ n + 1 \in DOMAIN s /\ n + 1 # 0 /\ (n + 1) - 1 = n
    BY <1>1
  <2>2. h[n + 1] = IF n + 1 \in chosen THEN Append(h[n], s[n + 1]) ELSE h[n]
    BY <1>2, <2>1 DEF PickSteps
  <2>3. P(h[n])
    BY <1>4
  <2>4. CASE n + 1 \notin chosen
    <3>1. h[n + 1] = h[n]
        BY <2>2, <2>4
    <3> QED BY <2>1, <2>3, <3>1
  <2>5. CASE n + 1 \in chosen
    <3> DEFINE g == Append(h[n], s[n + 1])
    <3>1. h[n + 1] = g
        BY <2>2, <2>5
    <3>2. /\ IsSequence(g) /\ Len(g) = Len(h[n]) + 1
          /\ g[Len(h[n]) + 1] = s[n + 1]
          /\ \A i \in DOMAIN h[n] : g[i] = h[n][i]
        BY <2>3, AppendIs
    <3>3. DOMAIN g = 1 .. Len(g) /\ Len(h[n]) \in Nat /\ DOMAIN h[n] = 1 .. Len(h[n])
        BY <2>3, <3>2 DEF IsSequence
    <3> HIDE DEF g
    <3>4. ASSUME NEW i \in DOMAIN g PROVE \E k \in chosen : k \in DOMAIN s /\ g[i] = s[k]
      <4>1. CASE i \in DOMAIN h[n]
        BY <2>3, <3>2, <4>1
      <4>2. CASE i = Len(h[n]) + 1
        BY <2>1, <2>5, <3>2, <4>2
      <4> QED BY <3>2, <3>3, <4>1, <4>2
    <3>5. P(g)
        BY <3>2, <3>4
    <3> QED BY <2>1, <3>1, <3>5
  <2> QED BY <2>4, <2>5
<1>5. \A n \in 0 .. Len(s) : n \in S
  <2> HIDE DEF S
  <2> QED BY <1>1, <1>3, <1>4, UpTo
<1>6. P(h[Len(s)])
    BY <1>1, <1>5
<1> QED BY <1>2, <1>6

-----------------------------------------------------------------------------
\* A function on 1..n is a sequence.
LEMMA SequenceOf ==
    ASSUME NEW n \in Nat, NEW s, DOMAIN s = 1 .. n, s = [i \in DOMAIN s |-> s[i]]
    PROVE  IsSequence(s) /\ Len(s) = n
  BY DEF IsSequence

\* One sequence behind another.
LEMMA Behind ==
    ASSUME NEW s, NEW t, IsSequence(s), IsSequence(t)
    PROVE  /\ IsSequence(s \o t) /\ Len(s \o t) = Len(s) + Len(t)
           /\ \A i \in DOMAIN s : i \in DOMAIN (s \o t) /\ (s \o t)[i] = s[i]
           /\ \A i \in DOMAIN (s \o t) :
                 \/ i \in DOMAIN s /\ (s \o t)[i] = s[i]
                 \/ /\ i > Len(s) /\ i - Len(s) \in DOMAIN t
                    /\ (s \o t)[i] = t[i - Len(s)]
<1> DEFINE V == {s[i] : i \in DOMAIN s} \cup {t[i] : i \in DOMAIN t}
           g == s \o t
<1>1. s \in Seq(V) /\ t \in Seq(V)
  <2>1. s \in Seq({s[i] : i \in DOMAIN s}) /\ t \in Seq({t[i] : i \in DOMAIN t})
    BY DEF IsSequence
  <2> QED BY <2>1
<1> HIDE DEF V
<1>2. Len(s) \in Nat /\ DOMAIN s = 1 .. Len(s) /\ Len(t) \in Nat /\ DOMAIN t = 1 .. Len(t)
    BY <1>1
<1>3. g \in Seq(V) /\ Len(g) = Len(s) + Len(t) /\ DOMAIN g = 1 .. (Len(s) + Len(t))
    BY <1>1
<1>4. \A i \in 1 .. Len(s) : g[i] = s[i]
    BY <1>1
<1>5. \A i \in 1 .. (Len(s) + Len(t)) : i > Len(s) => g[i] = t[i - Len(s)]
    BY <1>1
<1> HIDE DEF g
<1>6. IsSequence(g)
    BY <1>3 DEF IsSequence
<1>7. \A i \in DOMAIN s : i \in DOMAIN g /\ g[i] = s[i]
    BY <1>2, <1>3, <1>4
<1>8. \A i \in DOMAIN g : \/ i \in DOMAIN s /\ g[i] = s[i]
                          \/ /\ i > Len(s) /\ i - Len(s) \in DOMAIN t
                             /\ g[i] = t[i - Len(s)]
    BY <1>2, <1>3, <1>4, <1>5
<1> QED BY <1>3, <1>6, <1>7, <1>8 DEF g

-----------------------------------------------------------------------------
(* LabFrog's rows: each shot is in the reconciled table once. *)

\* A row of the NeXus export makes a shot.
LEMMA NexusShotIs == \A row : IsShot(NexusShot(row))
  BY DEF IsShot, NexusShot

\* A row of the SQLite export makes a shot.
LEMMA SqliteShotIs == \A row, variables : IsShot(SqliteShot(row, variables))
  BY DEF IsShot, SqliteShot

\* A document of LabFrog's database makes a shot.
LEMMA MongoShotIs == \A doc : IsShot(MongoShot(doc))
  BY DEF IsShot, MongoShot

\* The NeXus export makes a sequence of shots, one for each row.
LEMMA NexusRowed ==
    ASSUME NEW table, IsSequence(table)
    PROVE  Rowed(NexusShots(table)) /\ DOMAIN NexusShots(table) = DOMAIN table
<1> DEFINE s == NexusShots(table)
<1>1. Len(table) \in Nat /\ DOMAIN table = 1 .. Len(table)
    BY DEF IsSequence
<1>2. s = [i \in DOMAIN table |-> NexusShot(table[i])]
    BY DEF NexusShots
<1>3. DOMAIN s = DOMAIN table /\ s = [i \in DOMAIN s |-> s[i]]
    BY <1>2
<1>4. \A i \in DOMAIN s : s[i] = NexusShot(table[i])
    BY <1>2
<1> HIDE DEF s
<1>5. IsSequence(s)
    BY <1>1, <1>3, SequenceOf
<1> QED BY <1>3, <1>4, <1>5, NexusShotIs DEF Rowed, s

\* LabFrog's documents make a sequence of shots.
LEMMA MongoRowed ==
    ASSUME NEW docs, IsSequence(docs)
    PROVE  Rowed(MongoShots(docs))
<1> DEFINE numbered == Picked(docs, {i \in DOMAIN docs : docs[i].number # Unknown})
           s == MongoShots(docs)
<1>1. IsSequence(numbered)
    BY PickedIs
<1>2. s = [i \in DOMAIN numbered |-> MongoShot(numbered[i])]
    BY DEF MongoShots
<1> HIDE DEF numbered
<1>3. DOMAIN s = DOMAIN numbered /\ s = [i \in DOMAIN s |-> s[i]]
    BY <1>2
<1>4. \A i \in DOMAIN s : s[i] = MongoShot(numbered[i])
    BY <1>2
<1> HIDE DEF s
<1>5. IsSequence(s)
    BY <1>1, <1>3, SequenceOf DEF IsSequence
<1> QED BY <1>4, <1>5, MongoShotIs DEF Rowed, s

\* The SQLite export makes a sequence of shots.
LEMMA SqliteRowed ==
    ASSUME NEW export, IsFiniteSet(export.rows)
    PROVE  Rowed(SqliteShots(export))
<1> DEFINE sorted == InOrder(export.rows)
           read == [i \in DOMAIN sorted |-> SqliteShot(sorted[i], export.variables)]
           s == SqliteShots(export)
           n == Cardinality(export.rows)
<1>1. n \in Nat
    BY FS_CardinalityType
<1>2. DOMAIN sorted = 1 .. n
    BY DEF InOrder, Listing
<1>3. s = Superseded(read)
    BY DEF SqliteShots
<1>4. DOMAIN read = 1 .. n /\ \A i \in DOMAIN read : IsShot(read[i])
    BY <1>2, SqliteShotIs
<1> HIDE DEF read, n, sorted
<1>5. DOMAIN s = 1 .. n /\ s = [i \in DOMAIN s |-> s[i]]
    BY <1>3, <1>4 DEF Superseded
<1>6. ASSUME NEW i \in DOMAIN read PROVE IsShot(s[i])
  <2> DEFINE meta == IF IsActive(read[i]) THEN read[i].meta @@ [has_newer_version |-> FALSE]
                     ELSE [has_newer_version |-> TRUE] @@ read[i].meta
  <2>1. s[i] = read[i] \/ s[i] = [read[i] EXCEPT !.meta = meta]
    BY <1>3 DEF Superseded
  <2> HIDE DEF meta, s
  <2>2. IsShot(read[i])
    BY <1>4
  <2>3. IsShot([read[i] EXCEPT !.meta = meta])
    BY <2>2 DEF IsShot
  <2> QED BY <2>1, <2>2, <2>3
<1> HIDE DEF s
<1>7. IsSequence(s)
    BY <1>1, <1>5, SequenceOf
<1> QED BY <1>4, <1>5, <1>6, <1>7 DEF Rowed, s

\* The shots of two sources, one behind the other, are a sequence of shots.
LEMMA BothRowed ==
    ASSUME NEW s, NEW t, Rowed(s), Rowed(t)
    PROVE  Rowed(s \o t)
<1>1. IsSequence(s) /\ IsSequence(t)
    BY DEF Rowed
<1>2. /\ IsSequence(s \o t)
      /\ \A i \in DOMAIN (s \o t) :
                 \/ i \in DOMAIN s /\ (s \o t)[i] = s[i]
                 \/ /\ i > Len(s) /\ i - Len(s) \in DOMAIN t
                    /\ (s \o t)[i] = t[i - Len(s)]
    BY <1>1, Behind
<1> QED BY <1>2 DEF Rowed

WithinScene(i) ==
    /\ i = [arrived |-> i.arrived, exported |-> i.exported, curated |-> i.curated, staged |-> i.staged]
    /\ i.arrived \in 0 .. Len(scene.arrivals) /\ i.exported \in 0 .. Len(scene.exports)
    /\ i.curated \in 0 .. Len(scene.curated) /\ i.staged \in 0 .. Len(scene.exports)

\* No two rows of the NeXus export make one shot.
LEMMA NexusRowsAre ==
    ASSUME scene \in Scenes, NEW i, WithinScene(i)
    PROVE  Rowed(NexusRows(i)) /\ Apart(NexusRows(i), Len(NexusRows(i)))
<1>1. CASE i.exported = 0
    BY <1>1 DEF NexusRows, Rowed, Apart, IsSequence
<1>2. CASE i.exported # 0
  <2> DEFINE table == ExportAt(i.exported).rows
  <2>1. IsSequence(scene.exports) /\ \A n \in DOMAIN scene.exports : IsTable(scene.exports[n].rows)
    BY ScenesOK
  <2>2. IsTable(table)
    BY <1>2, <2>1 DEF WithinScene, IsSequence, ExportAt
  <2>3. NexusRows(i) = NexusShots(table)
    BY <1>2 DEF NexusRows
  <2> HIDE DEF table
  <2>4. Rowed(NexusShots(table)) /\ DOMAIN NexusShots(table) = DOMAIN table
    BY <2>2, NexusRowed DEF IsTable
  <2>5. \A j \in DOMAIN table : NexusShots(table)[j] = NexusShot(table[j])
    BY DEF NexusShots
  <2>6. DOMAIN table = 1 .. Len(NexusShots(table))
    BY <2>4 DEF Rowed, IsSequence
  <2>7. Apart(NexusShots(table), Len(NexusShots(table)))
    BY <2>2, <2>5, <2>6 DEF IsTable, Apart
  <2> QED BY <2>3, <2>4, <2>7
<1> QED BY <1>1, <1>2

\* The rows of all sources, of which the NeXus export's come first and stay apart.
LEMMA AllRowsAre ==
    ASSUME scene \in Scenes, NEW i, WithinScene(i)
    PROVE  /\ Rowed(AllRows(i))
           /\ Len(NexusRows(i)) \in 0 .. Len(AllRows(i))
           /\ \A j \in DOMAIN NexusRows(i) : j \in DOMAIN AllRows(i) /\ AllRows(i)[j] = NexusRows(i)[j]
           /\ Apart(AllRows(i), Len(NexusRows(i)))
<1> DEFINE a == NexusRows(i)
           b == SqliteRows(i)
           c == MongoShots(scene.mongo)
           d == a \o b
<1>1. Rowed(a) /\ Apart(a, Len(a))
    BY NexusRowsAre
<1>2. Rowed(b)
  <2>1. CASE i.curated = 0
    BY <2>1 DEF SqliteRows, Rowed, IsSequence
  <2>2. CASE i.curated # 0
    <3>1. IsSequence(scene.curated) /\ \A n \in DOMAIN scene.curated : IsFiniteSet(scene.curated[n].rows)
        BY ScenesOK
    <3>2. i.curated \in DOMAIN scene.curated
        BY <2>2, <3>1 DEF WithinScene, IsSequence
    <3>3. Rowed(SqliteShots(scene.curated[i.curated]))
        BY <3>1, <3>2, SqliteRowed
    <3> QED BY <2>2, <3>3 DEF SqliteRows
  <2> QED BY <2>1, <2>2
<1>3. Rowed(c)
  <2>1. IsSequence(scene.mongo)
    BY ScenesOK
  <2> QED BY <2>1, MongoRowed
<1>4. AllRows(i) = d \o c \/ AllRows(i) = a \o (b \o c)
    BY DEF AllRows
<1> HIDE DEF a, b, c, d
<1> DEFINE e == AllRows(i)
<1>5. /\ Rowed(e) /\ Len(a) \in 0 .. Len(e)
      /\ \A j \in DOMAIN a : j \in DOMAIN e /\ e[j] = a[j]
  <2>1. CASE AllRows(i) = d \o c
    <3>1. IsSequence(a) /\ IsSequence(b) /\ IsSequence(c)
        BY <1>1, <1>2, <1>3 DEF Rowed
    <3>2. /\ Rowed(d) /\ Len(d) = Len(a) + Len(b)
          /\ \A j \in DOMAIN a : j \in DOMAIN d /\ d[j] = a[j]
        BY <1>1, <1>2, <3>1, BothRowed, Behind DEF d
    <3>3. IsSequence(d)
        BY <3>2 DEF Rowed
    <3>4. /\ Rowed(d \o c) /\ Len(d \o c) = Len(d) + Len(c)
          /\ \A j \in DOMAIN d : j \in DOMAIN (d \o c) /\ (d \o c)[j] = d[j]
        BY <1>3, <3>1, <3>2, <3>3, BothRowed, Behind
    <3>5. Len(a) \in Nat /\ Len(b) \in Nat /\ Len(c) \in Nat
        BY <3>1 DEF IsSequence
    <3> QED BY <2>1, <3>2, <3>4, <3>5
  <2>2. CASE AllRows(i) = a \o (b \o c)
    <3>1. IsSequence(a) /\ IsSequence(b) /\ IsSequence(c)
        BY <1>1, <1>2, <1>3 DEF Rowed
    <3>2. Rowed(b \o c) /\ IsSequence(b \o c) /\ Len(b \o c) = Len(b) + Len(c)
        BY <1>2, <1>3, <3>1, BothRowed, Behind
    <3>4. /\ Rowed(a \o (b \o c)) /\ Len(a \o (b \o c)) = Len(a) + Len(b \o c)
          /\ \A j \in DOMAIN a : j \in DOMAIN (a \o (b \o c)) /\ (a \o (b \o c))[j] = a[j]
        BY <1>1, <3>1, <3>2, BothRowed, Behind
    <3>5. Len(a) \in Nat /\ Len(b) \in Nat /\ Len(c) \in Nat
        BY <3>1 DEF IsSequence
    <3> QED BY <2>2, <3>2, <3>4, <3>5
  <2> QED BY <1>4, <2>1, <2>2
<1>6. DOMAIN a = 1 .. Len(a)
    BY <1>1 DEF Rowed, IsSequence
<1>7. Apart(e, Len(a))
    BY <1>1, <1>5, <1>6 DEF Apart
<1> QED BY <1>5, <1>7 DEF a

\* What a build takes from LabFrog: one shot of each identity, the rows of the
\* NeXus export in their places.
LEMMA LabFrogShotsAre ==
    ASSUME scene \in Scenes, NEW i, WithinScene(i)
    PROVE  MergedSoFar(LabFrogShots(i), AllRows(i), Len(NexusRows(i)), Len(AllRows(i)))
  BY AllRowsAre, MergeShotsIs DEF LabFrogShots

\* RowsOnce, of the rows a build read.
RowsOnceIn(i) ==
    LET shots == LabFrogShots(i)
        rows == AllRows(i)
    IN  /\ \A m, n \in DOMAIN shots : m # n => Identity(shots[m]) # Identity(shots[n])
        /\ \A r \in DOMAIN rows : \E m \in DOMAIN shots : Identity(shots[m]) = Identity(rows[r])
        /\ \A m \in DOMAIN shots : shots[m].authority # Unknown =>
              \E r \in DOMAIN rows : /\ Identity(rows[r]) = Identity(shots[m])
                                     /\ rows[r].authority = shots[m].authority
        /\ \A m, n \in DOMAIN NexusRows(i) : m < n =>
              \E k, l \in DOMAIN shots :
                 /\ k <= l
                 /\ Identity(shots[k]) = Identity(NexusRows(i)[m])
                 /\ Identity(shots[l]) = Identity(NexusRows(i)[n])

\* merge_labfrog_shots: each shot LabFrog has in any of its exports is taken once, in
\* the order of the first, and its authority's number is one some export gives it.
LEMMA RowsAreOnce ==
    ASSUME scene \in Scenes, NEW i, WithinScene(i)
    PROVE  RowsOnceIn(i)
<1> DEFINE shots == LabFrogShots(i)
           rows == AllRows(i)
           mine == NexusRows(i)
<1>1. MergedSoFar(shots, rows, Len(mine), Len(rows))
    BY LabFrogShotsAre
<1>2. /\ Rowed(rows) /\ Len(mine) \in 0 .. Len(rows)
      /\ \A j \in DOMAIN mine : j \in DOMAIN rows /\ rows[j] = mine[j]
    BY AllRowsAre
<1>3. DOMAIN rows = 1 .. Len(rows) /\ Len(rows) \in Nat
    BY <1>2 DEF Rowed, IsSequence
<1>4. DOMAIN mine = 1 .. Len(mine)
    BY NexusRowsAre DEF Rowed, IsSequence
<1> HIDE DEF shots, rows, mine
<1>5. /\ OneOfEach(shots) /\ Covers(shots, rows, Len(rows)) /\ FromRows(shots, rows, Len(rows))
      /\ InPlace(shots, rows, Len(mine))
    BY <1>1, <1>2 DEF MergedSoFar
<1>6. \A m, n \in DOMAIN shots : m # n => Identity(shots[m]) # Identity(shots[n])
    BY <1>5 DEF OneOfEach
<1>7. \A r \in DOMAIN rows : \E m \in DOMAIN shots : Identity(shots[m]) = Identity(rows[r])
    BY <1>3, <1>5 DEF Covers
<1>8. \A m \in DOMAIN shots : shots[m].authority # Unknown =>
              \E r \in DOMAIN rows : /\ Identity(rows[r]) = Identity(shots[m])
                                     /\ rows[r].authority = shots[m].authority
    BY <1>3, <1>5 DEF FromRows
<1>9. ASSUME NEW m \in DOMAIN mine, NEW n \in DOMAIN mine, m < n
      PROVE  \E k, l \in DOMAIN shots :
                 /\ k <= l
                 /\ Identity(shots[k]) = Identity(mine[m])
                 /\ Identity(shots[l]) = Identity(mine[n])
  <2>1. m \in DOMAIN shots /\ Identity(shots[m]) = Identity(mine[m])
    BY <1>2, <1>4, <1>5 DEF InPlace
  <2>2. n \in DOMAIN shots /\ Identity(shots[n]) = Identity(mine[n])
    BY <1>2, <1>4, <1>5 DEF InPlace
  <2>3. m <= n
    BY <1>4, <1>9
  <2> QED BY <2>1, <2>2, <2>3
<1> QED BY <1>6, <1>7, <1>8, <1>9 DEF RowsOnceIn, shots, rows, mine

-----------------------------------------------------------------------------
(* The events of the input files. *)

\* Where an event comes from.
Spoken(e, doc, campaign) ==
    \/ doc.form = "event" /\ e = Spooled(doc)
    \/ doc.form = "watchdog" /\ e = WatchdogEvent(doc, campaign)
    \/ doc.form \in {"envelope", "legacy"} /\ e = TriggerEvent(doc, scene.explicit)

\* The documents of some forms are documents that arrived.
LEMMA DocsAre ==
    ASSUME NEW docs, IsSequence(docs), NEW forms
    PROVE  /\ IsSequence(Docs(docs, forms))
           /\ \A k \in DOMAIN Docs(docs, forms) :
                 \E l \in DOMAIN docs : docs[l].form \in forms /\ Docs(docs, forms)[k] = docs[l]
<1> DEFINE chosen == {i \in DOMAIN docs : docs[i].form \in forms}
<1>1. Docs(docs, forms) = Picked(docs, chosen)
    BY DEF Docs
<1>2. \A l \in chosen : l \in DOMAIN docs /\ docs[l].form \in forms
    OBVIOUS
<1> HIDE DEF chosen
<1> QED BY <1>1, <1>2, PickedIs

\* What a function makes of each member of a sequence is a sequence.
LEMMA MapIs ==
    ASSUME NEW s, IsSequence(s), NEW t, t = [k \in DOMAIN s |-> t[k]]
    PROVE  IsSequence(t)
<1>1. Len(s) \in Nat /\ DOMAIN s = 1 .. Len(s) /\ DOMAIN t = DOMAIN s
    BY DEF IsSequence
<1>2. t = [k \in DOMAIN t |-> t[k]]
    BY <1>1
<1> QED BY <1>1, <1>2, SequenceOf

\* Every event is made of one document, spooled, seen by the watchdog or triggered.
LEMMA EventsAre ==
    ASSUME NEW docs, IsSequence(docs), NEW shots, NEW stem
    PROVE  /\ IsSequence(Events(docs, scene.explicit, shots, stem))
           /\ \E campaign : \A k \in DOMAIN Events(docs, scene.explicit, shots, stem) :
                 \E l \in DOMAIN docs : Spoken(Events(docs, scene.explicit, shots, stem)[k], docs[l], campaign)
<1> DEFINE spool == Docs(docs, {"event"})
           watched == Docs(docs, {"watchdog"})
           triggers == Docs(docs, {"envelope", "legacy"})
           spooled == [i \in DOMAIN spool |-> Spooled(spool[i])]
           campaign == SelectExperiment(scene.explicit, spooled, shots, stem)
           seen == [i \in DOMAIN watched |-> WatchdogEvent(watched[i], campaign)]
           fired == [i \in DOMAIN triggers |-> TriggerEvent(triggers[i], scene.explicit)]
           two == spooled \o seen
           all == Events(docs, scene.explicit, shots, stem)
           P(e) == \E l \in DOMAIN docs : Spoken(e, docs[l], campaign)
<1>1. all = spooled \o seen \o fired
    BY DEF Events, Triggers
<1>2. IsSequence(spool) /\ IsSequence(watched) /\ IsSequence(triggers)
    BY DocsAre
<1>3. IsSequence(spooled) /\ IsSequence(seen) /\ IsSequence(fired)
  <2> HIDE DEF spool, watched, triggers, campaign
  <2>1. IsSequence(spooled)
    BY <1>2, MapIs
  <2>2. IsSequence(seen)
    BY <1>2, MapIs
  <2>3. IsSequence(fired)
    BY <1>2, MapIs
  <2> QED BY <2>1, <2>2, <2>3
<1>4. \A k \in DOMAIN spooled : P(spooled[k])
  <2> SUFFICES ASSUME NEW k \in DOMAIN spool PROVE P(Spooled(spool[k]))
    OBVIOUS
  <2>1. PICK l \in DOMAIN docs : docs[l].form \in {"event"} /\ spool[k] = docs[l]
    BY DocsAre
  <2> HIDE DEF spool, campaign
  <2> QED BY <2>1 DEF Spoken
<1>5. \A k \in DOMAIN seen : P(seen[k])
  <2> SUFFICES ASSUME NEW k \in DOMAIN watched PROVE P(WatchdogEvent(watched[k], campaign))
    OBVIOUS
  <2>1. PICK l \in DOMAIN docs : docs[l].form \in {"watchdog"} /\ watched[k] = docs[l]
    BY DocsAre
  <2> HIDE DEF watched, campaign
  <2> QED BY <2>1 DEF Spoken
<1>6. \A k \in DOMAIN fired : P(fired[k])
  <2> SUFFICES ASSUME NEW k \in DOMAIN triggers PROVE P(TriggerEvent(triggers[k], scene.explicit))
    OBVIOUS
  <2>1. PICK l \in DOMAIN docs : docs[l].form \in {"envelope", "legacy"} /\ triggers[k] = docs[l]
    BY DocsAre
  <2> HIDE DEF triggers, campaign
  <2> QED BY <2>1 DEF Spoken
<1> HIDE DEF P, spooled, seen, fired, all
<1>7. IsSequence(two) /\ \A k \in DOMAIN two : P(two[k])
    BY <1>3, <1>4, <1>5, Behind
<1>8. all = two \o fired \/ all = spooled \o (seen \o fired)
    BY <1>1
<1>9. IsSequence(all) /\ \A k \in DOMAIN all : P(all[k])
  <2>1. CASE all = two \o fired
    <3> HIDE DEF two
    <3> QED BY <1>3, <1>6, <1>7, <2>1, Behind
  <2>2. CASE all = spooled \o (seen \o fired)
    <3> DEFINE last == seen \o fired
    <3>1. IsSequence(last) /\ \A k \in DOMAIN last : P(last[k])
        BY <1>3, <1>5, <1>6, Behind
    <3> HIDE DEF last
    <3> QED BY <1>3, <1>4, <2>2, <3>1, Behind DEF last
  <2> QED BY <1>8, <2>1, <2>2
<1> QED BY <1>9, Zenon DEF P, all

\* The same for the documents that had arrived when a build read them.
LEMMA EventsOfAre ==
    ASSUME scene \in Scenes, NEW i, WithinScene(i)
    PROVE  /\ IsSequence(EventsOf(i))
           /\ \E campaign : \A k \in DOMAIN EventsOf(i) :
                 \E l \in DOMAIN scene.arrivals : Spoken(EventsOf(i)[k], scene.arrivals[l], campaign)
<1> DEFINE docs == DocsOf(i)
<1>1. IsSequence(scene.arrivals)
    BY ScenesOK
<1>2. IsSequence(docs) /\ \A l \in DOMAIN docs : l \in DOMAIN scene.arrivals /\ docs[l] = scene.arrivals[l]
  <2>1. i.arrived \in 0 .. Len(scene.arrivals) /\ Len(scene.arrivals) \in Nat
        /\ DOMAIN scene.arrivals = 1 .. Len(scene.arrivals)
    BY <1>1 DEF WithinScene, IsSequence
  <2>2. docs = [l \in 1 .. i.arrived |-> scene.arrivals[l]]
    BY <1>1, <2>1 DEF DocsOf, IsSequence
  <2> HIDE DEF docs
  <2> QED BY <2>1, <2>2, SequenceOf
<1> HIDE DEF docs
<1> DEFINE all == Events(docs, scene.explicit, LabFrogShots(i), Stem(i))
<1>3. /\ IsSequence(all)
      /\ \E campaign : \A k \in DOMAIN all : \E l \in DOMAIN docs : Spoken(all[k], docs[l], campaign)
    BY <1>2, EventsAre
<1>4. EventsOf(i) = all
    BY DEF EventsOf, docs
<1> HIDE DEF all
<1> QED BY <1>2, <1>3, <1>4

\* The events of a campaign are events that were read, with the campaign they were resolved to.
LEMMA SelectedAre ==
    ASSUME NEW events, IsSequence(events), NEW rows, NEW campaign
    PROVE  /\ IsSequence(Selected(events, rows, campaign))
           /\ \A j \in DOMAIN Selected(events, rows, campaign) :
                 \E k \in DOMAIN events :
                    Selected(events, rows, campaign)[j]
                        = [events[k] EXCEPT !.campaign = Resolve(events[k], rows, {}, NoRulings)]
<1> DEFINE resolved == Resolved(events, rows)
           chosen == {k \in DOMAIN resolved : resolved[k].campaign = campaign}
           ofCampaign == Picked(resolved, chosen)
           first == {k \in DOMAIN ofCampaign : \A j \in 1 .. (k - 1) : ofCampaign[j].id # ofCampaign[k].id}
           mine == Selected(events, rows, campaign)
<1>1. mine = Picked(ofCampaign, first)
    BY DEF Selected, FirstOfEach
<1>2. IsSequence(resolved)
    BY MapIs DEF Resolved
<1>3. \A k \in DOMAIN resolved :
         k \in DOMAIN events /\ resolved[k] = [events[k] EXCEPT !.campaign = Resolve(events[k], rows, {}, NoRulings)]
    BY DEF Resolved
<1> HIDE DEF resolved, chosen
<1>4. IsSequence(ofCampaign) /\ \A j \in DOMAIN ofCampaign : \E k \in chosen : k \in DOMAIN resolved /\ ofCampaign[j] = resolved[k]
    BY <1>2, PickedIs
<1> HIDE DEF ofCampaign, first, mine
<1>5. IsSequence(mine) /\ \A j \in DOMAIN mine : \E k \in first : k \in DOMAIN ofCampaign /\ mine[j] = ofCampaign[k]
    BY <1>1, <1>4, PickedIs
<1>6. ASSUME NEW j \in DOMAIN mine
      PROVE  \E k \in DOMAIN events : mine[j] = [events[k] EXCEPT !.campaign = Resolve(events[k], rows, {}, NoRulings)]
  <2>1. PICK k \in first : k \in DOMAIN ofCampaign /\ mine[j] = ofCampaign[k]
    BY <1>5
  <2>2. PICK l \in chosen : l \in DOMAIN resolved /\ ofCampaign[k] = resolved[l]
    BY <1>4, <2>1
  <2> QED BY <1>3, <2>1, <2>2
<1> QED BY <1>5, <1>6 DEF mine

-----------------------------------------------------------------------------
(* Reconciling shots and events; what a build reads. *)

\* What a function makes of a finite set is finite.
LEMMA ImageIsFinite ==
    ASSUME NEW S, IsFiniteSet(S), NEW f, DOMAIN f = S, f = [x \in S |-> f[x]]
    PROVE  IsFiniteSet({f[x] : x \in S})
<1> DEFINE T == {f[x] : x \in S}
<1>1. f \in Surjection(S, T)
    BY DEF Surjection
<1> HIDE DEF T
<1>2. IsFiniteSet(T)
    BY <1>1, FS_Surjection
<1> QED BY <1>2 DEF T

\* A sequence has finitely many places.
LEMMA PlacesAreFinite ==
    ASSUME NEW s, IsSequence(s)
    PROVE  IsFiniteSet(DOMAIN s)
<1>1. Len(s) \in Nat /\ DOMAIN s = 1 .. Len(s)
    BY DEF IsSequence
<1> QED BY <1>1, FS_Interval

\* The rows of a campaign are finitely many.
LEMMA RowsInFinite ==
    ASSUME NEW shots, IsSequence(shots), NEW campaign
    PROVE  IsFiniteSet(RowsIn(shots, campaign))
<1> DEFINE f == [k \in DOMAIN shots |-> [AsRow(shots[k]) EXCEPT !.campaign = campaign]]
<1>1. IsFiniteSet(DOMAIN shots)
    BY PlacesAreFinite
<1>2. DOMAIN f = DOMAIN shots /\ f = [k \in DOMAIN shots |-> f[k]]
    OBVIOUS
<1>3. RowsIn(shots, campaign) = {f[k] : k \in DOMAIN shots}
    BY DEF RowsIn
<1> HIDE DEF f
<1> QED BY <1>1, <1>2, <1>3, ImageIsFinite

\* The members of a sequence are finitely many.
LEMMA MembersFinite ==
    ASSUME NEW s, IsSequence(s)
    PROVE  IsFiniteSet(ToSet(s))
<1>1. s = [k \in DOMAIN s |-> s[k]]
    BY DEF IsSequence
<1>2. IsFiniteSet({s[k] : k \in DOMAIN s})
    BY <1>1, PlacesAreFinite, ImageIsFinite
<1> QED BY <1>2 DEF ToSet

\* The shots that are founded are finitely many, when the events and rows are.
LEMMA FoundedFinite ==
    ASSUME NEW events, IsFiniteSet(events), NEW rows, IsFiniteSet(rows), NEW campaign, NEW autoassign
    PROVE  IsFiniteSet(Founded(Reconcile(events, rows, campaign, autoassign), rows))
<1> DEFINE matches == Matches(events, rows, autoassign)
           unattached == {e \in DOMAIN matches : matches[e].rows = {}}
           found == FoundedShots(unattached, rows, campaign)
           result == Reconcile(events, rows, campaign, autoassign)
           f == [e \in events |-> EventShot(campaign, e)]
           g == [r \in rows |-> RowShot(campaign, r)]
           F == {f[e] : e \in events}
           G == {g[r] : r \in rows}
<1>1. DOMAIN matches = events
    BY DEF Matches
<1>2. result.shots = {RowShot(campaign, r) : r \in rows} \cup found
    BY DEF Reconcile, Settle, Verdicts
<1> HIDE DEF matches, result
<1>3. found \subseteq F
  <2>1. unattached \subseteq events
    BY <1>1
  <2> HIDE DEF unattached
  <2> QED BY <2>1 DEF FoundedShots, Numbered, Founders
<1>4. {RowShot(campaign, r) : r \in rows} = G
    OBVIOUS
<1> HIDE DEF found
<1>5. IsFiniteSet(F)
  <2>1. DOMAIN f = events /\ f = [e \in events |-> f[e]]
    OBVIOUS
  <2> HIDE DEF f
  <2> QED BY <2>1, ImageIsFinite
<1>6. IsFiniteSet(G)
  <2>1. DOMAIN g = rows /\ g = [r \in rows |-> g[r]]
    OBVIOUS
  <2> HIDE DEF g
  <2> QED BY <2>1, ImageIsFinite
<1> HIDE DEF F, G
<1>7. IsFiniteSet(G \cup F)
    BY <1>5, <1>6, FS_Union
<1>8. Founded(result, rows) \in SUBSET (G \cup F)
    BY <1>2, <1>3, <1>4 DEF Founded
<1>9. IsFiniteSet(Founded(result, rows))
    BY <1>7, <1>8, FS_Subset
<1> QED BY <1>9 DEF result

\* What a build reads: LabFrog's shots come first, in their places, and every
\* shot's number is its key's.
ShotsOf(read, shots) ==
    /\ IsSequence(read.shots) /\ Len(shots) <= Len(read.shots)
    /\ \A k \in DOMAIN shots :
          /\ k \in DOMAIN read.shots
          /\ read.shots[k].number = shots[k].number /\ read.shots[k].time = shots[k].time
    /\ \A k \in DOMAIN read.shots : read.shots[k].number = read.shots[k].key[3]

\* And every event is one that was selected, or a row of LabFrog's.
IsRowEvent(e) == e.id # NoId /\ e.id[1] = "labfrog"
EventsFrom(read, mine, verdicts) ==
    /\ IsSequence(read.events)
    /\ \A j \in DOMAIN read.events :
          \/ IsRowEvent(read.events[j])
          \/ \E k \in DOMAIN mine : read.events[j] = Listed(mine[k], verdicts)

\* The event made of a row of LabFrog's says so in its id.
LEMMA RowEventIs ==
    ASSUME NEW s, NEW shot, NEW campaign, NEW c, NEW d, NEW n, shot.key = <<c, d, n>>
    PROVE  IsRowEvent(RowEvent(s, shot, campaign))
<1> DEFINE e == RowEvent(s, shot, campaign)
<1>1. e.id = IF s.record # "" THEN <<"labfrog", s.record>> ELSE <<"labfrog">> \o shot.key
    BY DEF RowEvent
<1> HIDE DEF e
<1>2. CASE s.record # ""
  <2>1. e.id = <<"labfrog", s.record>>
    BY <1>1, <1>2
  <2> QED BY <2>1 DEF IsRowEvent, NoId, e
<1>3. CASE s.record = ""
  <2> DEFINE a == <<"labfrog">>
             b == <<c, d, n>>
  <2>1. e.id = a \o b
    BY <1>1, <1>3
  <2>2. Len(a) = 1 /\ Len(b) = 3 /\ a[1] = "labfrog" /\ 1 \in DOMAIN a
    OBVIOUS
  <2>4. IsSequence(a)
    <3>1. a \in Seq({"labfrog"}) /\ {a[k] : k \in DOMAIN a} = {"labfrog"}
        OBVIOUS
    <3> QED BY <3>1 DEF IsSequence
  <2>5. IsSequence(b)
    <3>1. DOMAIN b = 1 .. 3 /\ b = [k \in DOMAIN b |-> b[k]]
        OBVIOUS
    <3> HIDE DEF b
    <3> QED BY <3>1, SequenceOf
  <2> HIDE DEF a, b
  <2>3. Len(a \o b) = 4 /\ (a \o b)[1] = "labfrog"
    <3>1. /\ Len(a \o b) = Len(a) + Len(b)
          /\ \A i \in DOMAIN a : i \in DOMAIN (a \o b) /\ (a \o b)[i] = a[i]
        BY <2>4, <2>5, Behind
    <3> DEFINE g == a \o b
    <3> HIDE DEF g
    <3>2. Len(g) = Len(a) + Len(b) /\ (\A i \in DOMAIN a : i \in DOMAIN g /\ g[i] = a[i])
        BY <3>1 DEF g
    <3>3. Len(g) = 4 /\ g[1] = "labfrog"
        BY <2>2, <3>2
    <3> QED BY <3>3 DEF g
  <2> QED BY <2>1, <2>3 DEF IsRowEvent, NoId, e
<1> QED BY <1>2, <1>3

\* Reconciling keeps LabFrog's shots in their places, and lists only the events
\* selected and the rows'.
LEMMA ReconciledIs ==
    ASSUME NEW shots, IsSequence(shots), NEW events, IsSequence(events), NEW campaign
    PROVE  /\ ShotsOf(Reconciled(shots, events, campaign), shots)
           /\ \E verdicts : EventsFrom(Reconciled(shots, events, campaign),
                                       Selected(events, RowsIn(shots, campaign), campaign), verdicts)
<1> DEFINE rows == RowsIn(shots, campaign)
           mine == Selected(events, rows, campaign)
           result == Reconcile(ToSet(mine), rows, campaign, scene.autoassign)
           of(shot) == Picked(mine, {k \in DOMAIN mine : shot \in Attached(result.verdicts, mine[k])})
           row(k) == RowShot(campaign, [AsRow(shots[k]) EXCEPT !.campaign = campaign])
           canonical == [k \in DOMAIN shots |-> CanonicalRow(shots[k], campaign, of(row(k)))]
           added == InKeyOrder(Founded(result, rows), mine, result.verdicts)
           founded == [k \in DOMAIN added |-> CanonicalFounded(added[k], campaign, of(added[k]))]
           listed == [k \in DOMAIN mine |-> Listed(mine[k], result.verdicts)]
           asEvents == [k \in DOMAIN shots |-> RowEvent(shots[k], canonical[k], campaign)]
           read == Reconciled(shots, events, campaign)
<1>1. read = [shots |-> canonical \o founded, events |-> listed \o asEvents]
    BY DEF Reconciled
<1>2. read.shots = canonical \o founded /\ read.events = listed \o asEvents
  <2> DEFINE s == canonical \o founded
             t == listed \o asEvents
  <2>1. read = [shots |-> s, events |-> t]
    BY <1>1
  <2> HIDE DEF s, t, read
  <2>2. read.shots = s /\ read.events = t
    BY <2>1
  <2> QED BY <2>2 DEF s, t
<1>3. IsSequence(mine)
    BY SelectedAre
<1>4. IsFiniteSet(Founded(result, rows))
  <2>1. IsFiniteSet(rows)
    BY RowsInFinite
  <2>2. IsFiniteSet(ToSet(mine))
    BY <1>3, MembersFinite
  <2> HIDE DEF rows, mine
  <2> QED BY <2>1, <2>2, FoundedFinite
<1>5. IsSequence(founded)
  <2> DEFINE n == Cardinality(Founded(result, rows))
  <2>1. n \in Nat
    BY <1>4, FS_CardinalityType
  <2>2. DOMAIN added = 1 .. n
    BY DEF InKeyOrder, Listing
  <2> HIDE DEF n, added
  <2>3. DOMAIN founded = 1 .. n /\ founded = [k \in DOMAIN founded |-> founded[k]]
    BY <2>2
  <2> HIDE DEF founded
  <2> QED BY <2>1, <2>3, SequenceOf
<1>6. IsSequence(canonical)
    BY MapIs
<1>7. IsSequence(listed)
  <2> HIDE DEF mine, result
  <2> QED BY <1>3, MapIs
<1>8. IsSequence(asEvents)
  <2> HIDE DEF canonical
  <2> QED BY MapIs
<1>9. \A k \in DOMAIN shots : /\ k \in DOMAIN canonical
                              /\ canonical[k].number = shots[k].number /\ canonical[k].time = shots[k].time
                              /\ canonical[k].key = <<campaign, shots[k].day, shots[k].number>>
  <2> HIDE DEF of, row
  <2> QED BY DEF CanonicalRow, KeyOf
<1>10. \A k \in DOMAIN founded : founded[k].number = founded[k].key[3]
  <2> HIDE DEF of, added
  <2> QED BY DEF CanonicalFounded
<1>11. \A k \in DOMAIN asEvents : IsRowEvent(asEvents[k])
  <2> SUFFICES ASSUME NEW k \in DOMAIN shots PROVE IsRowEvent(RowEvent(shots[k], canonical[k], campaign))
    OBVIOUS
  <2> HIDE DEF canonical
  <2> QED BY <1>9, RowEventIs
<1>12. \A k \in DOMAIN listed : k \in DOMAIN mine /\ listed[k] = Listed(mine[k], result.verdicts)
    OBVIOUS
<1>13. DOMAIN canonical = DOMAIN shots
    OBVIOUS
<1> HIDE DEF canonical, founded, listed, asEvents, read, mine, result
<1>14. Len(canonical) = Len(shots) /\ Len(founded) \in Nat /\ Len(shots) \in Nat
    BY <1>5, <1>6, <1>13 DEF IsSequence
<1>15. ShotsOf(read, shots)
  <2>1. /\ IsSequence(read.shots) /\ Len(read.shots) = Len(canonical) + Len(founded)
        /\ \A k \in DOMAIN canonical : k \in DOMAIN read.shots /\ read.shots[k] = canonical[k]
        /\ \A k \in DOMAIN read.shots :
                 \/ k \in DOMAIN canonical /\ read.shots[k] = canonical[k]
                 \/ /\ k > Len(canonical) /\ k - Len(canonical) \in DOMAIN founded
                    /\ read.shots[k] = founded[k - Len(canonical)]
    <3> DEFINE g == canonical \o founded
    <3>1. /\ IsSequence(g) /\ Len(g) = Len(canonical) + Len(founded)
          /\ \A k \in DOMAIN canonical : k \in DOMAIN g /\ g[k] = canonical[k]
          /\ \A k \in DOMAIN g :
                 \/ k \in DOMAIN canonical /\ g[k] = canonical[k]
                 \/ /\ k > Len(canonical) /\ k - Len(canonical) \in DOMAIN founded
                    /\ g[k] = founded[k - Len(canonical)]
        BY <1>5, <1>6, Behind
    <3>2. read.shots = g
        BY <1>2
    <3> HIDE DEF g
    <3> QED BY <3>1, <3>2
  <2>2. Len(shots) <= Len(read.shots)
    BY <1>14, <2>1
  <2>3. \A k \in DOMAIN shots :
          /\ k \in DOMAIN read.shots
          /\ read.shots[k].number = shots[k].number /\ read.shots[k].time = shots[k].time
    BY <1>9, <2>1
  <2>4. ASSUME NEW k \in DOMAIN read.shots PROVE read.shots[k].number = read.shots[k].key[3]
    <3>1. CASE k \in DOMAIN canonical /\ read.shots[k] = canonical[k]
        BY <1>9, <1>13, <3>1
    <3>2. CASE k - Len(canonical) \in DOMAIN founded /\ read.shots[k] = founded[k - Len(canonical)]
        BY <1>10, <3>2
    <3> QED BY <2>1, <3>1, <3>2
  <2> QED BY <2>1, <2>2, <2>3, <2>4 DEF ShotsOf
<1>16. EventsFrom(read, mine, result.verdicts)
  <2>1. /\ IsSequence(read.events)
        /\ \A k \in DOMAIN read.events :
                 \/ k \in DOMAIN listed /\ read.events[k] = listed[k]
                 \/ /\ k > Len(listed) /\ k - Len(listed) \in DOMAIN asEvents
                    /\ read.events[k] = asEvents[k - Len(listed)]
    BY <1>2, <1>7, <1>8, Behind
  <2>2. ASSUME NEW j \in DOMAIN read.events
        PROVE  \/ IsRowEvent(read.events[j])
               \/ \E k \in DOMAIN mine : read.events[j] = Listed(mine[k], result.verdicts)
    BY <1>11, <1>12, <2>1
  <2> QED BY <2>1, <2>2 DEF EventsFrom
<1> QED BY <1>15, <1>16 DEF read, mine

\* The same for what a build reads of its inputs.
LEMMA ReadIs ==
    ASSUME scene \in Scenes, NEW i, WithinScene(i)
    PROVE  /\ ShotsOf(ReadAll(i), LabFrogShots(i))
           /\ \E verdicts :
                 EventsFrom(ReadAll(i), Selected(EventsOf(i), RowsIn(LabFrogShots(i), ExperimentOf(i)), ExperimentOf(i)),
                            verdicts)
<1>1. IsSequence(LabFrogShots(i))
    BY LabFrogShotsAre DEF MergedSoFar, OneOfEach
<1>2. IsSequence(EventsOf(i))
    BY EventsOfAre
<1> QED BY <1>1, <1>2, ReconciledIs DEF ReadAll

-----------------------------------------------------------------------------
(* The groups of the file. *)

\* A file has these fields.
IsFile(f) ==
    f = [owner |-> f.owner, rows |-> f.rows, prefix |-> f.prefix, columns |-> f.columns,
         foreign |-> f.foreign, bounds |-> f.bounds, laser |-> f.laser, series |-> f.series,
         sample |-> f.sample, vacuum |-> f.vacuum, diagnostics |-> f.diagnostics,
         payloads |-> f.payloads, events |-> f.events, indexes |-> f.indexes, products |-> f.products]

\* What the campaign's groups leave alone.
Keeps(f, g) ==
    /\ IsFile(g)
    /\ g.owner = f.owner /\ g.rows = f.rows /\ g.columns = f.columns /\ g.foreign = f.foreign
    /\ g.diagnostics = f.diagnostics /\ g.indexes = f.indexes

\* The bounds leave the other groups alone.
LEMMA BoundsKeep == ASSUME NEW f, IsFile(f), NEW shots PROVE Keeps(f, WithBounds(f, shots))
  BY DEF IsFile, Keeps, WithBounds

\* The laser group leaves the other groups alone.
LEMMA LaserKeeps == ASSUME NEW f, IsFile(f), NEW shots, NEW config PROVE Keeps(f, WithLaser(f, shots, config))
  BY DEF IsFile, Keeps, WithLaser

\* The time series leave the other groups alone.
LEMMA SeriesKeeps == ASSUME NEW f, IsFile(f), NEW shots PROVE Keeps(f, WithSeries(f, shots))
  BY DEF IsFile, Keeps, WithSeries

\* The sample group leaves the other groups alone.
LEMMA SampleKeeps == ASSUME NEW f, IsFile(f), NEW shots PROVE Keeps(f, WithSample(f, shots))
  BY DEF IsFile, Keeps, WithSample

\* The vacuum group leaves the other groups alone.
LEMMA VacuumKeeps == ASSUME NEW f, IsFile(f), NEW shots PROVE Keeps(f, WithVacuum(f, shots))
  BY DEF IsFile, Keeps, WithVacuum

\* What two steps leave alone one after the other, both leave alone.
LEMMA KeepsTwice ==
    ASSUME NEW f, NEW g, NEW h, Keeps(f, g), Keeps(g, h)
    PROVE  Keeps(f, h)
  BY DEF Keeps

\* Diagnostics take names that nothing else has.
LEMMA DiagnosticsKeep ==
    ASSUME NEW f, IsFile(f), NEW shots
    PROVE  LET g == WithDiagnostics(f, shots)
           IN  /\ IsFile(g)
               /\ g.owner = f.owner /\ g.rows = f.rows /\ g.columns = f.columns
               /\ g.foreign = f.foreign /\ g.indexes = f.indexes
               /\ \A n \in DOMAIN g.diagnostics : n \in DOMAIN f.diagnostics \/ n \notin f.foreign
<1> DEFINE names == {n \in KeysOf(shots, "diagnostic") : Claimable(f, n, DOMAIN f.diagnostics)}
           new == [n \in names |-> SeriesOf(shots, "diagnostic", n)]
           g == [f EXCEPT !.diagnostics = Over(new, f.diagnostics), !.foreign = f.foreign \ names]
<1>1. WithDiagnostics(f, shots) = g
    BY DEF WithDiagnostics
<1>2. \A n \in names : n \notin f.foreign
    BY DEF Claimable, Taken
<1>3. DOMAIN Over(new, f.diagnostics) = names \cup DOMAIN f.diagnostics
  <2> HIDE DEF names
  <2> QED BY DEF Over
<1>4. f.foreign \ names = f.foreign
  <2> HIDE DEF names
  <2> QED BY <1>2
<1>5. /\ IsFile(g) /\ g.owner = f.owner /\ g.rows = f.rows /\ g.columns = f.columns
      /\ g.foreign = f.foreign \ names /\ g.indexes = f.indexes
      /\ g.diagnostics = Over(new, f.diagnostics)
  <2> HIDE DEF names, new
  <2> DEFINE h == [f EXCEPT !.diagnostics = Over(new, f.diagnostics)]
  <2>1. /\ IsFile(h) /\ h.owner = f.owner /\ h.rows = f.rows /\ h.columns = f.columns
        /\ h.foreign = f.foreign /\ h.indexes = f.indexes
        /\ h.diagnostics = Over(new, f.diagnostics)
    BY DEF IsFile
  <2>2. g = [h EXCEPT !.foreign = f.foreign \ names]
    OBVIOUS
  <2> HIDE DEF g, h
  <2> QED BY <2>1, <2>2 DEF IsFile
<1> HIDE DEF names, new, g
<1> QED BY <1>1, <1>2, <1>3, <1>4, <1>5

\* All of them: rows, columns, foreign groups and indexes stay, and no diagnostic
\* takes the name of a foreign group.
LEMMA SemanticsKeep ==
    ASSUME NEW f, IsFile(f), NEW shots, NEW config
    PROVE  LET g == Semantics(f, shots, config)
           IN  /\ IsFile(g)
               /\ g.owner = f.owner /\ g.rows = f.rows /\ g.columns = f.columns
               /\ g.foreign = f.foreign /\ g.indexes = f.indexes
               /\ \A n \in DOMAIN g.diagnostics : n \in DOMAIN f.diagnostics \/ n \notin f.foreign
<1> DEFINE a == WithBounds(f, shots)
           b == WithLaser(a, shots, config)
           c == WithSeries(b, shots)
           d == WithSample(c, shots)
           e == WithVacuum(d, shots)
<1>1. Semantics(f, shots, config) = WithDiagnostics(e, shots)
    BY DEF Semantics
<1>2. Keeps(f, a)
    BY BoundsKeep
<1>3. Keeps(a, b)
  <2> HIDE DEF a
  <2> QED BY <1>2, LaserKeeps DEF Keeps
<1>4. Keeps(b, c)
  <2> HIDE DEF b
  <2> QED BY <1>3, SeriesKeeps DEF Keeps
<1>5. Keeps(c, d)
  <2> HIDE DEF c
  <2> QED BY <1>4, SampleKeeps DEF Keeps
<1>6. Keeps(d, e)
  <2> HIDE DEF d
  <2> QED BY <1>5, VacuumKeeps DEF Keeps
<1> HIDE DEF a, b, c, d, e
<1>7. Keeps(f, e)
    BY <1>2, <1>3, <1>4, <1>5, <1>6, KeepsTwice
<1> QED BY <1>1, <1>7, DiagnosticsKeep DEF Keeps

\* The shot table: whose it is, and its rows.
LEMMA TableOf ==
    ASSUME NEW f, IsFile(f), NEW shots
    PROVE  LET g == ShotTable(f, shots)
           IN  /\ IsFile(g)
               /\ g.owner = (IF f.rows = <<>> THEN "damnit" ELSE f.owner)
               /\ g.rows = Rows(f, shots)
               /\ g.columns = [i \in DOMAIN shots |-> Column(shots[i])]
               /\ g.foreign = f.foreign /\ g.indexes = f.indexes /\ g.diagnostics = f.diagnostics
<1> DEFINE rows == Rows(f, shots)
           columns == [i \in DOMAIN shots |-> Column(shots[i])]
           owner == IF f.rows = <<>> THEN "damnit" ELSE f.owner
           prefix == IF 0 < Len(f.rows) /\ Len(f.rows) < Len(shots) THEN Len(f.rows) ELSE f.prefix
           g1 == [f EXCEPT !.rows = rows]
           g2 == [g1 EXCEPT !.columns = columns]
           g3 == [g2 EXCEPT !.owner = owner]
           g4 == [g3 EXCEPT !.prefix = prefix]
<1>1. ShotTable(f, shots) = [f EXCEPT !.rows = rows, !.columns = columns, !.owner = owner, !.prefix = prefix]
    BY DEF ShotTable
<1>2. ShotTable(f, shots) = g4
    BY <1>1
<1> HIDE DEF rows, columns, owner, prefix
<1>3. /\ IsFile(g1) /\ g1.rows = rows /\ g1.owner = f.owner
      /\ g1.foreign = f.foreign /\ g1.indexes = f.indexes /\ g1.diagnostics = f.diagnostics
    BY DEF IsFile
<1> HIDE DEF g1
<1>4. /\ IsFile(g2) /\ g2.rows = rows /\ g2.columns = columns
      /\ g2.foreign = f.foreign /\ g2.indexes = f.indexes /\ g2.diagnostics = f.diagnostics
    BY <1>3 DEF IsFile
<1> HIDE DEF g2
<1>5. /\ IsFile(g3) /\ g3.rows = rows /\ g3.columns = columns /\ g3.owner = owner
      /\ g3.foreign = f.foreign /\ g3.indexes = f.indexes /\ g3.diagnostics = f.diagnostics
    BY <1>4 DEF IsFile
<1> HIDE DEF g3
<1>6. /\ IsFile(g4) /\ g4.rows = rows /\ g4.columns = columns /\ g4.owner = owner
      /\ g4.foreign = f.foreign /\ g4.indexes = f.indexes /\ g4.diagnostics = f.diagnostics
    BY <1>5 DEF IsFile
<1> HIDE DEF g4
<1> QED BY <1>2, <1>6 DEF rows, columns, owner

\* Instruments take names that nothing else has; the rest of a file is its events and products.
LEMMA TablesOf ==
    ASSUME NEW f, IsFile(f), NEW events, NEW products
    PROVE  LET g == Tables(f, events, products)
           IN  /\ IsFile(g)
               /\ g.owner = f.owner /\ g.rows = f.rows /\ g.columns = f.columns
               /\ g.diagnostics = f.diagnostics
               /\ g.events = events /\ g.products = products
               /\ Indexable(f, events) =>
                     /\ g.foreign = f.foreign
                     /\ \A n \in DOMAIN g.indexes : n \in DOMAIN f.indexes \/ n \notin f.foreign
<1> DEFINE p == WithPayloads(f, events)
           names == Instruments(events)
           new == [n \in names |-> IndexOf(events, n)]
           q == [p EXCEPT !.indexes = Over(new, p.indexes), !.foreign = p.foreign \ names]
           carried == {Payload(events[i]) : i \in {j \in DOMAIN events : events[j].values # {}}}
           paid == carried \cup {x \in f.payloads : \A y \in carried : y.path # x.path}
           q1 == [p EXCEPT !.indexes = Over(new, p.indexes)]
           g1 == [q EXCEPT !.events = events]
           g == [g1 EXCEPT !.products = products]
<1>1. /\ IsFile(p) /\ p.owner = f.owner /\ p.rows = f.rows /\ p.columns = f.columns
      /\ p.diagnostics = f.diagnostics /\ p.foreign = f.foreign /\ p.indexes = f.indexes
  <2>1. p = [f EXCEPT !.payloads = paid]
    BY DEF WithPayloads
  <2> HIDE DEF paid, p
  <2> QED BY <2>1 DEF IsFile
<1>2. Tables(f, events, products) = [q EXCEPT !.events = events, !.products = products]
    BY DEF Tables, WithIndexes
<1>a. Tables(f, events, products) = g
    BY <1>2
<1> HIDE DEF p, names, new
<1>3. /\ IsFile(q) /\ q.owner = p.owner /\ q.rows = p.rows /\ q.columns = p.columns
      /\ q.diagnostics = p.diagnostics /\ q.foreign = p.foreign \ names
      /\ q.indexes = Over(new, p.indexes)
  <2>1. /\ IsFile(q1) /\ q1.owner = p.owner /\ q1.rows = p.rows /\ q1.columns = p.columns
        /\ q1.diagnostics = p.diagnostics /\ q1.foreign = p.foreign
        /\ q1.indexes = Over(new, p.indexes)
    BY <1>1 DEF IsFile
  <2>2. q = [q1 EXCEPT !.foreign = p.foreign \ names]
    OBVIOUS
  <2> HIDE DEF q, q1
  <2> QED BY <2>1, <2>2 DEF IsFile
<1> HIDE DEF q
<1>4. DOMAIN Over(new, p.indexes) = names \cup DOMAIN f.indexes
  <2>1. DOMAIN new = names
    BY DEF new
  <2> QED BY <1>1, <2>1 DEF Over
<1>5. Indexable(f, events) => \A n \in names : n \notin f.foreign
    BY DEF Indexable, Claimable, Taken, names
<1>6. /\ IsFile(g1) /\ g1.owner = q.owner /\ g1.rows = q.rows /\ g1.columns = q.columns
      /\ g1.diagnostics = q.diagnostics /\ g1.foreign = q.foreign /\ g1.indexes = q.indexes
      /\ g1.events = events
    BY <1>3 DEF IsFile
<1> HIDE DEF g1
<1>7. /\ IsFile(g) /\ g.owner = q.owner /\ g.rows = q.rows /\ g.columns = q.columns
      /\ g.diagnostics = q.diagnostics /\ g.foreign = q.foreign /\ g.indexes = q.indexes
      /\ g.events = events /\ g.products = products
    BY <1>6 DEF IsFile
<1> HIDE DEF g
<1>8. Indexable(f, events) => f.foreign \ names = f.foreign
    BY <1>5
<1> QED BY <1>1, <1>a, <1>3, <1>4, <1>5, <1>7, <1>8

-----------------------------------------------------------------------------
(* A build, from what it read to the file it publishes. *)

\* A file whose shot table is LabFrog's has rows of LabFrog's.
Grounded(f) == IsFile(f) /\ IsSequence(f.rows) /\ (f.owner = "labfrog" => f.rows # <<>>)

\* A file as a build writes it from its inputs, on top of the last output.
MadeFrom(f, i, last) ==
    LET read == ReadAll(i)
        table == WithShots(StagedFrom(i.staged, last), read)
    IN  /\ WithinScene(i) /\ Grounded(last)
        /\ Extends(StagedFrom(i.staged, last), read.shots)
        /\ Indexable(table, read.events)
        /\ f = Tables(table, read.events, f.products)

\* The file no build has written yet.
LEMMA BlankIs == IsFile(Blank) /\ Blank.rows = <<>> /\ Blank.owner = "nobody" /\ Grounded(Blank)
  BY DEF Blank, IsFile, Grounded, IsSequence

\* The copy of a NeXus export has the export's rows, and none of the builder's groups.
LEMMA SourceIs ==
    ASSUME scene \in Scenes, NEW n \in 1 .. Len(scene.exports)
    PROVE  /\ IsFile(SourceFile(n)) /\ IsSequence(SourceFile(n).rows)
           /\ DOMAIN SourceFile(n).rows = DOMAIN ExportAt(n).rows
           /\ \A k \in DOMAIN ExportAt(n).rows :
                 /\ SourceFile(n).rows[k].number = ExportAt(n).rows[k].number
                 /\ SourceFile(n).rows[k].time = ExportAt(n).rows[k].time
           /\ SourceFile(n).owner = "labfrog"
           /\ DOMAIN SourceFile(n).diagnostics = {} /\ DOMAIN SourceFile(n).indexes = {}
<1> DEFINE table == ExportAt(n).rows
           groups == ExportAt(n).groups
           rows == [i \in DOMAIN table |->
                      [record |-> table[i].record, number |-> table[i].number, time |-> table[i].time]]
           g1 == [Blank EXCEPT !.owner = "labfrog"]
           g2 == [g1 EXCEPT !.foreign = groups]
           g3 == [g2 EXCEPT !.rows = rows]
<1>1. IsSequence(table)
  <2>1. IsSequence(scene.exports) /\ \A k \in DOMAIN scene.exports : IsTable(scene.exports[k].rows)
    BY ScenesOK
  <2>2. n \in DOMAIN scene.exports
    BY <2>1 DEF IsSequence
  <2> QED BY <2>1, <2>2 DEF IsTable, ExportAt
<1>2. SourceFile(n) = [Blank EXCEPT !.owner = "labfrog", !.foreign = groups, !.rows = rows]
    BY DEF SourceFile, ExportFile
<1>3. SourceFile(n) = g3
    BY <1>2
<1> HIDE DEF table, groups
<1>4. IsSequence(rows)
    BY <1>1, MapIs
<1>5. DOMAIN rows = DOMAIN table
      /\ \A k \in DOMAIN table : rows[k].number = table[k].number /\ rows[k].time = table[k].time
    OBVIOUS
<1> HIDE DEF rows
<1>6. /\ IsFile(g1) /\ g1.owner = "labfrog" /\ DOMAIN g1.diagnostics = {} /\ DOMAIN g1.indexes = {}
  <2>1. DOMAIN Blank.diagnostics = {} /\ DOMAIN Blank.indexes = {}
    BY DEF Blank
  <2> QED BY <2>1, BlankIs DEF IsFile
<1> HIDE DEF g1
<1>7. /\ IsFile(g2) /\ g2.owner = "labfrog" /\ DOMAIN g2.diagnostics = {} /\ DOMAIN g2.indexes = {}
    BY <1>6 DEF IsFile
<1> HIDE DEF g2
<1>8. /\ IsFile(g3) /\ g3.owner = "labfrog" /\ DOMAIN g3.diagnostics = {} /\ DOMAIN g3.indexes = {}
      /\ g3.rows = rows
    BY <1>7 DEF IsFile
<1> HIDE DEF g3
<1> QED BY <1>3, <1>4, <1>5, <1>8 DEF table

\* A build begins with the export, with an output of LabFrog's rows, or with nothing.
LEMMA StagedIs ==
    ASSUME scene \in Scenes, NEW n \in 0 .. Len(scene.exports), NEW last, Grounded(last)
    PROVE  /\ IsFile(StagedFrom(n, last)) /\ IsSequence(StagedFrom(n, last).rows)
           /\ n # 0 => StagedFrom(n, last) = SourceFile(n)
           /\ n = 0 => \/ StagedFrom(n, last) = Blank
                       \/ /\ StagedFrom(n, last).owner = "labfrog"
                          /\ StagedFrom(n, last).rows # <<>>
           /\ n = 0 => StagedFrom(n, Blank) = Blank
<1>1. CASE n = 0
    BY <1>1, BlankIs DEF StagedFrom, Staged, Grounded
<1>2. CASE n # 0
  <2>1. IsSequence(scene.exports)
    BY ScenesOK
  <2>2. Len(scene.exports) \in Nat
    BY <2>1 DEF IsSequence
  <2>3. n \in 1 .. Len(scene.exports)
    BY <1>2, <2>2
  <2>4. StagedFrom(n, last) = SourceFile(n)
    BY <1>2 DEF StagedFrom, Staged
  <2> QED BY <1>2, <2>3, <2>4, SourceIs
<1> QED BY <1>1, <1>2

\* A file with the shots written to it.
LEMMA ShotsWritten ==
    ASSUME NEW s, IsFile(s), NEW read
    PROVE  LET g == WithShots(s, read)
           IN  /\ IsFile(g)
               /\ g.owner = (IF s.rows = <<>> THEN "damnit" ELSE s.owner)
               /\ g.rows = Rows(s, read.shots)
               /\ g.columns = [k \in DOMAIN read.shots |-> Column(read.shots[k])]
               /\ g.foreign = s.foreign /\ g.indexes = s.indexes
               /\ \A n \in DOMAIN g.diagnostics : n \in DOMAIN s.diagnostics \/ n \notin s.foreign
<1> DEFINE f == Semantics(s, read.shots, scene.config)
           g == WithShots(s, read)
<1>1. /\ IsFile(f)
      /\ f.owner = s.owner /\ f.rows = s.rows /\ f.columns = s.columns
      /\ f.foreign = s.foreign /\ f.indexes = s.indexes
      /\ \A n \in DOMAIN f.diagnostics : n \in DOMAIN s.diagnostics \/ n \notin s.foreign
    BY SemanticsKeep
<1>2. g = ShotTable(f, read.shots)
    BY DEF WithShots
<1> HIDE DEF f
<1>3. /\ IsFile(g)
      /\ g.owner = (IF f.rows = <<>> THEN "damnit" ELSE f.owner)
      /\ g.rows = Rows(f, read.shots)
      /\ g.columns = [k \in DOMAIN read.shots |-> Column(read.shots[k])]
      /\ g.foreign = f.foreign /\ g.indexes = f.indexes /\ g.diagnostics = f.diagnostics
    BY <1>1, <1>2, TableOf
<1>4. Rows(f, read.shots) = Rows(s, read.shots)
    BY <1>1 DEF Rows
<1> HIDE DEF g
<1> QED BY <1>1, <1>3, <1>4, Zenon DEF g

\* The rows of a file: as many as shots, LabFrog's first; empty only with no shots.
LEMMA RowsAre ==
    ASSUME NEW s, IsSequence(s.rows), NEW shots, IsSequence(shots), Extends(s, shots)
    PROVE  LET rows == Rows(s, shots)
           IN  /\ IsSequence(rows) /\ Len(rows) = Len(shots)
               /\ s.rows = <<>> => \A k \in DOMAIN rows : rows[k] = RowOf(shots[k])
               /\ s.rows # <<>> =>
                     \A k \in DOMAIN rows : IF k \in DOMAIN s.rows THEN rows[k] = s.rows[k]
                                            ELSE rows[k] = AddedRow(shots[k])
               /\ DOMAIN s.rows \subseteq DOMAIN rows
<1>1. /\ Len(shots) \in Nat /\ DOMAIN shots = 1 .. Len(shots)
      /\ Len(s.rows) \in Nat /\ DOMAIN s.rows = 1 .. Len(s.rows) /\ Len(s.rows) <= Len(shots)
    BY DEF IsSequence, Extends
<1>2. CASE s.rows = <<>>
  <2> DEFINE rows == [k \in DOMAIN shots |-> RowOf(shots[k])]
  <2>1. Rows(s, shots) = rows
    BY <1>2 DEF Rows
  <2>2. DOMAIN rows = 1 .. Len(shots) /\ rows = [k \in DOMAIN rows |-> rows[k]]
        /\ \A k \in DOMAIN rows : rows[k] = RowOf(shots[k])
    BY <1>1
  <2> HIDE DEF rows
  <2>3. IsSequence(rows) /\ Len(rows) = Len(shots)
    BY <1>1, <2>2, SequenceOf
  <2> QED BY <1>1, <1>2, <2>1, <2>2, <2>3
<1>3. CASE s.rows # <<>>
  <2> DEFINE n == Len(shots) - Len(s.rows)
             more == [k \in 1 .. n |-> AddedRow(shots[Len(s.rows) + k])]
             rows == s.rows \o more
  <2>1. Rows(s, shots) = rows
    BY <1>3 DEF Rows
  <2>2. n \in Nat /\ Len(s.rows) + n = Len(shots)
    BY <1>1
  <2>3. DOMAIN more = 1 .. n /\ more = [k \in DOMAIN more |-> more[k]]
        /\ \A k \in DOMAIN more : more[k] = AddedRow(shots[Len(s.rows) + k])
    OBVIOUS
  <2> HIDE DEF more, n
  <2>4. IsSequence(more) /\ Len(more) = n
    BY <2>2, <2>3, SequenceOf
  <2>5. /\ IsSequence(rows) /\ Len(rows) = Len(s.rows) + Len(more)
        /\ \A k \in DOMAIN s.rows : k \in DOMAIN rows /\ rows[k] = s.rows[k]
        /\ \A k \in DOMAIN rows :
                 \/ k \in DOMAIN s.rows /\ rows[k] = s.rows[k]
                 \/ /\ k > Len(s.rows) /\ k - Len(s.rows) \in DOMAIN more
                    /\ rows[k] = more[k - Len(s.rows)]
    BY <2>4, Behind
  <2> HIDE DEF rows
  <2>6. DOMAIN rows = 1 .. Len(shots)
    BY <2>2, <2>4, <2>5 DEF IsSequence
  <2>7. ASSUME NEW k \in DOMAIN rows, k \notin DOMAIN s.rows PROVE rows[k] = AddedRow(shots[k])
    <3>1. k - Len(s.rows) \in DOMAIN more /\ rows[k] = more[k - Len(s.rows)]
        BY <2>5, <2>7
    <3>2. Len(s.rows) + (k - Len(s.rows)) = k
        BY <1>1, <2>6
    <3> QED BY <2>3, <3>1, <3>2
  <2> QED BY <1>3, <2>1, <2>2, <2>4, <2>5, <2>7
<1> QED BY <1>2, <1>3

-----------------------------------------------------------------------------
(* What a file is made of, when it is made from its inputs. *)

\* A file that a build wrote, by what it was begun from.
WrittenOn(f, s, read) ==
    /\ IsFile(f) /\ IsFile(s) /\ IsSequence(s.rows)
    /\ f.owner = (IF s.rows = <<>> THEN "damnit" ELSE s.owner)
    /\ f.rows = Rows(s, read.shots)
    /\ f.columns = [k \in DOMAIN read.shots |-> Column(read.shots[k])]
    /\ f.foreign = s.foreign
    /\ \A n \in DOMAIN f.diagnostics : n \in DOMAIN s.diagnostics \/ n \notin s.foreign
    /\ \A n \in DOMAIN f.indexes : n \in DOMAIN s.indexes \/ n \notin s.foreign
    /\ f.events = read.events
    /\ Extends(s, read.shots)

\* A file made from its inputs is written on the file it was begun from.
LEMMA MadeIs ==
    ASSUME scene \in Scenes, NEW f, NEW i, NEW last, MadeFrom(f, i, last)
    PROVE  WrittenOn(f, StagedFrom(i.staged, last), ReadAll(i))
<1> DEFINE s == StagedFrom(i.staged, last)
           read == ReadAll(i)
           table == WithShots(s, read)
<1>1. /\ Grounded(last) /\ Extends(s, read.shots) /\ Indexable(table, read.events)
      /\ f = Tables(table, read.events, f.products)
    BY DEF MadeFrom
<1>2. i.staged \in 0 .. Len(scene.exports)
    BY DEF MadeFrom, WithinScene
<1>3. IsFile(s) /\ IsSequence(s.rows)
    BY <1>1, <1>2, StagedIs
<1> HIDE DEF s, read
<1>4. /\ IsFile(table)
      /\ table.owner = (IF s.rows = <<>> THEN "damnit" ELSE s.owner)
      /\ table.rows = Rows(s, read.shots)
      /\ table.columns = [k \in DOMAIN read.shots |-> Column(read.shots[k])]
      /\ table.foreign = s.foreign /\ table.indexes = s.indexes
      /\ \A n \in DOMAIN table.diagnostics : n \in DOMAIN s.diagnostics \/ n \notin s.foreign
    BY <1>3, ShotsWritten
<1> HIDE DEF table
<1> DEFINE g == Tables(table, read.events, f.products)
<1>5. /\ IsFile(g)
      /\ g.owner = table.owner /\ g.rows = table.rows /\ g.columns = table.columns
      /\ g.diagnostics = table.diagnostics
      /\ g.events = read.events /\ g.products = f.products
      /\ g.foreign = table.foreign
      /\ \A n \in DOMAIN g.indexes : n \in DOMAIN table.indexes \/ n \notin table.foreign
    BY <1>1, <1>4, TablesOf
<1>6. f = g
    BY <1>1
<1> HIDE DEF g
<1> DEFINE shots == read.shots
<1>7. f.owner = (IF s.rows = <<>> THEN "damnit" ELSE s.owner)
    BY <1>4, <1>5, <1>6
<1>8. f.columns = [k \in DOMAIN shots |-> Column(shots[k])]
    BY <1>4, <1>5, <1>6
<1>9. /\ IsFile(f) /\ f.rows = Rows(s, shots) /\ f.foreign = s.foreign /\ f.events = read.events
      /\ \A n \in DOMAIN f.diagnostics : n \in DOMAIN s.diagnostics \/ n \notin s.foreign
      /\ \A n \in DOMAIN f.indexes : n \in DOMAIN s.indexes \/ n \notin s.foreign
    BY <1>4, <1>5, <1>6
<1> QED BY <1>1, <1>3, <1>7, <1>8, <1>9, Zenon DEF WrittenOn, s, read

\* What a build read has LabFrog's shots in their places.
LEMMA ReadShotsAre ==
    ASSUME scene \in Scenes, NEW i, WithinScene(i)
    PROVE  ShotsOf(ReadAll(i), LabFrogShots(i))
  BY ReadIs

\* The rows of a file that a build wrote, and whose they are.
RowsOn(f, s, shots) ==
    /\ IsSequence(shots) /\ IsSequence(f.rows) /\ Len(f.rows) = Len(shots)
    /\ s.rows = <<>> => \A k \in DOMAIN f.rows : f.rows[k] = RowOf(shots[k])
    /\ s.rows # <<>> =>
          \A k \in DOMAIN f.rows : IF k \in DOMAIN s.rows THEN f.rows[k] = s.rows[k]
                                   ELSE f.rows[k] = AddedRow(shots[k])
    /\ DOMAIN s.rows \subseteq DOMAIN f.rows

\* Its rows are the begun file's, and as many more as there are shots.
LEMMA MadeRows ==
    ASSUME scene \in Scenes, NEW f, NEW i, NEW last, MadeFrom(f, i, last)
    PROVE  RowsOn(f, StagedFrom(i.staged, last), ReadAll(i).shots)
<1> DEFINE s == StagedFrom(i.staged, last)
           shots == ReadAll(i).shots
<1>0. WrittenOn(f, StagedFrom(i.staged, last), ReadAll(i))
    BY MadeIs
<1>1. IsSequence(s.rows) /\ Extends(s, shots) /\ f.rows = Rows(s, shots)
    BY <1>0 DEF WrittenOn
<1>2. IsSequence(shots)
    BY ReadShotsAre DEF ShotsOf, MadeFrom
<1> HIDE DEF s, shots
<1> DEFINE rows == Rows(s, shots)
<1>3. /\ IsSequence(rows) /\ Len(rows) = Len(shots)
      /\ s.rows = <<>> => \A k \in DOMAIN rows : rows[k] = RowOf(shots[k])
      /\ s.rows # <<>> =>
            \A k \in DOMAIN rows : IF k \in DOMAIN s.rows THEN rows[k] = s.rows[k]
                                   ELSE rows[k] = AddedRow(shots[k])
      /\ DOMAIN s.rows \subseteq DOMAIN rows
    BY <1>1, <1>2, RowsAre
<1>4. rows = f.rows
    BY <1>1
<1> HIDE DEF rows
<1> QED BY <1>2, <1>3, <1>4, Zenon DEF RowsOn, s, shots

\* Where its shot table is LabFrog's, it has rows.
LEMMA MadeGrounded ==
    ASSUME scene \in Scenes, NEW f, NEW i, NEW last, MadeFrom(f, i, last)
    PROVE  Grounded(f)
<1> DEFINE s == StagedFrom(i.staged, last)
<1>0. WrittenOn(f, StagedFrom(i.staged, last), ReadAll(i))
    BY MadeIs
<1>a. RowsOn(f, StagedFrom(i.staged, last), ReadAll(i).shots)
    BY MadeRows
<1>1. IsFile(f) /\ IsSequence(f.rows) /\ f.owner = (IF s.rows = <<>> THEN "damnit" ELSE s.owner)
    BY <1>0, <1>a DEF WrittenOn, RowsOn
<1>2. IsSequence(s.rows) /\ DOMAIN s.rows \subseteq DOMAIN f.rows
    BY <1>0, <1>a DEF WrittenOn, RowsOn
<1> HIDE DEF s
<1>3. ASSUME f.owner = "labfrog" PROVE f.rows # <<>>
  <2>1. s.rows # <<>>
    BY <1>1, <1>3
  <2>2. 1 \in DOMAIN s.rows
    BY <1>2, <2>1 DEF IsSequence
  <2> QED BY <1>2, <2>2
<1> QED BY <1>1, <1>3 DEF Grounded

\* Where no old output of LabFrog's rows was grown, the file was begun from the export or from nothing.
LEMMA BegunAfresh ==
    ASSUME scene \in Scenes, NEW f, NEW i, NEW last, MadeFrom(f, i, last),
           ~(f.owner = "labfrog" /\ i.staged = 0)
    PROVE  StagedFrom(i.staged, last) = StagedFrom(i.staged, Blank)
           /\ (i.staged = 0 => StagedFrom(i.staged, last) = Blank)
<1> DEFINE s == StagedFrom(i.staged, last)
<1>0. WrittenOn(f, StagedFrom(i.staged, last), ReadAll(i))
    BY MadeIs
<1>1. f.owner = (IF s.rows = <<>> THEN "damnit" ELSE s.owner)
    BY <1>0 DEF WrittenOn
<1>2. Grounded(last) /\ i.staged \in 0 .. Len(scene.exports)
    BY DEF MadeFrom, WithinScene
<1>3. CASE i.staged = 0
  <2>1. StagedFrom(i.staged, Blank) = Blank
    BY <1>2, <1>3, StagedIs
  <2>2. s = Blank \/ (s.owner = "labfrog" /\ s.rows # <<>>)
    BY <1>2, <1>3, StagedIs
  <2>3. s = Blank
    BY <1>1, <1>3, <2>2
  <2> QED BY <1>3, <2>1, <2>3
<1>4. CASE i.staged # 0
    BY <1>2, <1>4, BlankIs, StagedIs
<1> QED BY <1>3, <1>4

\* Unless it goes on from LabFrog's rows in the last output, it is what it would
\* be without the last output.
LEMMA NothingLingersIn ==
    ASSUME scene \in Scenes, NEW f, NEW i, NEW last, MadeFrom(f, i, last),
           ~(f.owner = "labfrog" /\ i.staged = 0)
    PROVE  f = Tables(WithShots(StagedFrom(i.staged, Blank), ReadAll(i)), ReadAll(i).events, f.products)
<1>1. f = Tables(WithShots(StagedFrom(i.staged, last), ReadAll(i)), ReadAll(i).events, f.products)
    BY DEF MadeFrom
<1>2. StagedFrom(i.staged, last) = StagedFrom(i.staged, Blank)
    BY BegunAfresh
<1> QED BY <1>1, <1>2, Zenon

\* What it was copied from is still in it.
LEMMA PreservedIn ==
    ASSUME scene \in Scenes, NEW f, NEW i, NEW last, MadeFrom(f, i, last), i.staged # 0
    PROVE  LET source == SourceFile(i.staged)
           IN  /\ SubSeq(f.rows, 1, Len(source.rows)) = source.rows
               /\ source.foreign \subseteq f.foreign
               /\ f.foreign \cap (DOMAIN f.diagnostics \cup DOMAIN f.indexes) = {}
<1> DEFINE source == SourceFile(i.staged)
<1>0. WrittenOn(f, StagedFrom(i.staged, last), ReadAll(i))
    BY MadeIs
<1>a. RowsOn(f, StagedFrom(i.staged, last), ReadAll(i).shots)
    BY MadeRows
<1>1. Grounded(last) /\ i.staged \in 0 .. Len(scene.exports)
    BY DEF MadeFrom, WithinScene
<1>2. StagedFrom(i.staged, last) = source
    BY <1>1, StagedIs
<1>3. i.staged \in 1 .. Len(scene.exports)
  <2>1. IsSequence(scene.exports)
    BY ScenesOK
  <2> QED BY <1>1, <2>1 DEF IsSequence
<1>4. IsSequence(source.rows) /\ DOMAIN source.diagnostics = {} /\ DOMAIN source.indexes = {}
    BY <1>3, SourceIs
<1>5. /\ f.foreign = source.foreign
      /\ \A n \in DOMAIN f.diagnostics : n \in DOMAIN source.diagnostics \/ n \notin source.foreign
      /\ \A n \in DOMAIN f.indexes : n \in DOMAIN source.indexes \/ n \notin source.foreign
    BY <1>0, <1>2 DEF WrittenOn
<1>6. /\ IsSequence(f.rows)
      /\ source.rows # <<>> =>
                     \A k \in DOMAIN f.rows : IF k \in DOMAIN source.rows THEN f.rows[k] = source.rows[k]
                                              ELSE f.rows[k] = AddedRow(ReadAll(i).shots[k])
      /\ DOMAIN source.rows \subseteq DOMAIN f.rows
    BY <1>a, <1>2 DEF RowsOn
<1> HIDE DEF source
<1>7. SubSeq(f.rows, 1, Len(source.rows)) = source.rows
  <2>1. /\ Len(source.rows) \in Nat /\ DOMAIN source.rows = 1 .. Len(source.rows)
        /\ Len(f.rows) \in Nat /\ DOMAIN f.rows = 1 .. Len(f.rows)
        /\ source.rows = [k \in DOMAIN source.rows |-> source.rows[k]]
    BY <1>4, <1>6 DEF IsSequence
  <2>2. \A k \in DOMAIN source.rows : f.rows[k] = source.rows[k]
    <3>1. CASE source.rows = <<>>
        BY <3>1
    <3>2. CASE source.rows # <<>>
        BY <1>6, <3>2
    <3> QED BY <3>1, <3>2
  <2>3. SubSeq(f.rows, 1, Len(source.rows)) = [k \in 1 .. Len(source.rows) |-> f.rows[k]]
    <3>1. f.rows \in Seq({f.rows[k] : k \in DOMAIN f.rows})
        BY <1>6 DEF IsSequence
    <3>2. Len(source.rows) <= Len(f.rows)
        BY <1>6, <2>1
    <3> QED BY <2>1, <3>1, <3>2
  <2> QED BY <2>1, <2>2, <2>3
<1> QED BY <1>4, <1>5, <1>7 DEF source

\* Each of its rows is the shot of its column, when it was made undisturbed.
LEMMA RowsAgreeIn ==
    ASSUME scene \in Scenes, NEW f, NEW i, NEW last, MadeFrom(f, i, last),
           i.staged = i.exported, ~(f.owner = "labfrog" /\ i.staged = 0)
    PROVE  /\ Len(f.rows) = Len(f.columns)
           /\ \A k \in DOMAIN f.rows :
                 /\ f.rows[k].number \in {None, f.columns[k].key[3]}
                 /\ f.rows[k].time \in {None, f.columns[k].time}
<1> DEFINE s == StagedFrom(i.staged, last)
           shots == ReadAll(i).shots
           rows == LabFrogShots(i)
           mine == NexusRows(i)
<1>0. WrittenOn(f, StagedFrom(i.staged, last), ReadAll(i))
    BY MadeIs
<1>a. RowsOn(f, StagedFrom(i.staged, last), ReadAll(i).shots)
    BY MadeRows
<1>1. WithinScene(i) /\ Grounded(last)
    BY DEF MadeFrom
<1>2. ShotsOf(ReadAll(i), rows)
    BY <1>1, ReadShotsAre
<1>3. f.columns = [k \in DOMAIN shots |-> Column(shots[k])]
    BY <1>0 DEF WrittenOn
<1>4. /\ IsSequence(shots) /\ IsSequence(f.rows) /\ Len(f.rows) = Len(shots)
      /\ s.rows = <<>> => \A k \in DOMAIN f.rows : f.rows[k] = RowOf(shots[k])
      /\ s.rows # <<>> =>
                     \A k \in DOMAIN f.rows : IF k \in DOMAIN s.rows THEN f.rows[k] = s.rows[k]
                                              ELSE f.rows[k] = AddedRow(shots[k])
    BY <1>a DEF RowsOn
<1>5. \A k \in DOMAIN s.rows :
         /\ k \in DOMAIN rows
         /\ s.rows[k].number \in {Unknown, rows[k].number}
         /\ s.rows[k].time \in {Unknown, rows[k].time}
  <2>1. CASE i.staged = 0
    <3>1. s = Blank
        BY <2>1, BegunAfresh
    <3>2. DOMAIN s.rows = {}
        BY <3>1, BlankIs
    <3> QED BY <3>2
  <2>2. CASE i.staged # 0
    <3> DEFINE table == ExportAt(i.exported).rows
    <3>1. i.staged \in 1 .. Len(scene.exports)
      <4>1. IsSequence(scene.exports)
        BY ScenesOK
      <4> QED BY <1>1, <2>2, <4>1 DEF IsSequence, WithinScene
    <3>2. s = SourceFile(i.exported)
      <4>1. i.staged \in 0 .. Len(scene.exports)
        BY <1>1 DEF WithinScene
      <4> QED BY <1>1, <2>2, <4>1, StagedIs
    <3>3. DOMAIN s.rows = DOMAIN table
          /\ \A k \in DOMAIN table : s.rows[k].number = table[k].number /\ s.rows[k].time = table[k].time
        BY <3>1, <3>2, SourceIs
    <3>4. mine = [k \in DOMAIN table |-> NexusShot(table[k])]
        BY <2>2 DEF NexusRows, NexusShots
    <3>5. DOMAIN mine = DOMAIN table
          /\ \A k \in DOMAIN table : mine[k].number = table[k].number /\ mine[k].time = table[k].time
      <4>1. \A row : NexusShot(row).number = row.number /\ NexusShot(row).time = row.time
        BY DEF NexusShot
      <4> HIDE DEF mine, table
      <4> QED BY <3>4, <4>1
    <3>6. DOMAIN mine = 1 .. Len(mine)
        BY <1>1, NexusRowsAre DEF Rowed, IsSequence
    <3>7. InPlace(rows, AllRows(i), Len(mine))
      <4>1. MergedSoFar(rows, AllRows(i), Len(mine), Len(AllRows(i)))
        BY <1>1, LabFrogShotsAre
      <4>2. Len(AllRows(i)) >= Len(mine)
        BY <1>1, AllRowsAre
      <4> QED BY <4>1, <4>2 DEF MergedSoFar
    <3>8. \A k \in DOMAIN mine : AllRows(i)[k] = mine[k]
        BY <1>1, AllRowsAre
    <3> HIDE DEF s, rows, mine, table
    <3> QED BY <3>3, <3>5, <3>6, <3>7, <3>8 DEF InPlace
  <2> QED BY <2>1, <2>2
<1> HIDE DEF s, shots, rows
<1>6. /\ \A k \in DOMAIN rows :
            /\ k \in DOMAIN shots
            /\ shots[k].number = rows[k].number /\ shots[k].time = rows[k].time
      /\ \A k \in DOMAIN shots : shots[k].number = shots[k].key[3]
    BY <1>2 DEF ShotsOf, shots
<1>7. DOMAIN f.rows = DOMAIN shots /\ Len(f.columns) = Len(f.rows)
    BY <1>3, <1>4 DEF IsSequence
<1>8. ASSUME NEW k \in DOMAIN f.rows
      PROVE  /\ f.rows[k].number \in {None, f.columns[k].key[3]}
             /\ f.rows[k].time \in {None, f.columns[k].time}
  <2>1. f.columns[k].key = shots[k].key /\ f.columns[k].time = shots[k].time
    BY <1>3, <1>7 DEF Column
  <2>2. shots[k].number = shots[k].key[3]
    BY <1>6, <1>7
  <2>3. CASE f.rows[k] = RowOf(shots[k])
    <3>1. f.rows[k].number = shots[k].number /\ f.rows[k].time = shots[k].time
        BY <2>3 DEF RowOf
    <3> QED BY <2>1, <2>2, <3>1
  <2>4. CASE f.rows[k] = AddedRow(shots[k])
    <3> DEFINE row == AddedRow(shots[k])
    <3>2. row.number = shots[k].number /\ row.time = None
        BY DEF AddedRow
    <3> HIDE DEF row
    <3>1. f.rows[k].number = shots[k].number /\ f.rows[k].time = None
        BY <2>4, <3>2 DEF row
    <3> QED BY <2>1, <2>2, <3>1
  <2>5. CASE k \in DOMAIN s.rows /\ f.rows[k] = s.rows[k]
    BY <1>5, <1>6, <2>1, <2>2, <2>5 DEF None, Unknown
  <2> QED BY <1>4, <2>3, <2>4, <2>5
<1> QED BY <1>7, <1>8

-----------------------------------------------------------------------------
(* An event is attached to a shot by something it says. *)

\* An event that has an id, a campaign and a number; its id is not one that was
\* made up where d was given its own.
Owned(e, d) ==
    /\ {"id", "campaign", "number"} \subseteq DOMAIN e
    /\ e.id = d.id => e.campaign = Unassigned /\ e.number = d.number

\* An event without an id gets one that was made up; nothing else changes.
LEMMA HashedIs ==
    ASSUME NEW e, {"id", "campaign", "number"} \subseteq DOMAIN e
    PROVE  /\ {"id", "campaign", "number"} \subseteq DOMAIN Identified(e)
           /\ Identified(e).campaign = e.campaign /\ Identified(e).number = e.number
           /\ \/ e.id # NoId /\ Identified(e) = e
              \/ e.id = NoId /\ Identified(e).id # NoId /\ Identified(e).id[1] = "hash"
<1>1. CASE e.id # NoId
    BY <1>1 DEF Identified
<1>2. CASE e.id = NoId
  <2> DEFINE g == [e EXCEPT !.id = EventId(e)]
  <2>1. Identified(e) = g
    BY <1>2 DEF Identified
  <2>2. EventId(e) # NoId /\ EventId(e)[1] = "hash"
    BY DEF EventId, NoId
  <2>3. DOMAIN g = DOMAIN e /\ g.campaign = e.campaign /\ g.number = e.number /\ g.id = EventId(e)
    OBVIOUS
  <2> HIDE DEF g
  <2> QED BY <1>2, <2>1, <2>2, <2>3
<1> QED BY <1>1, <1>2

\* What speaks of a document that came with an id and no campaign, under that id,
\* has its number and no campaign either.
LEMMA SpokenOwned ==
    ASSUME NEW d, d.form = "envelope", d.campaign = Unassigned, NEW doc, SameEvent(d, doc),
           doc.form = "event" => {"id", "campaign", "number"} \subseteq DOMAIN doc.event,
           NEW campaign, NEW e, Spoken(e, doc, campaign)
    PROVE  Owned(e, d)
<1>1. d.id # NoId => d.id[1] = "given"
    BY DEF SameEvent
<1>2. CASE doc.form = "event" /\ e = Spooled(doc)
  <2> DEFINE sent == doc.event
  <2>1. {"id", "campaign", "number"} \subseteq DOMAIN sent /\ e = Identified(sent)
    BY <1>2 DEF Spooled
  <2>2. sent.id = d.id => sent.campaign = Unassigned /\ sent.number = d.number
    BY <1>2 DEF SameEvent
  <2> HIDE DEF sent
  <2> QED BY <1>1, <2>1, <2>2, HashedIs DEF Owned
<1>3. CASE doc.form = "watchdog" /\ e = WatchdogEvent(doc, campaign)
  <2> DEFINE ref == WatchdogRef(doc)
             sent == [id |-> NoId, source |-> "watchdog", campaign |-> campaign, number |-> doc.number,
                      local |-> Unknown, shotId |-> Else(doc.shotId, ShotId(doc.number), <<>>),
                      time |-> doc.time, position |-> PositionOf(ref), notes |-> doc.notes,
                      kind |-> <<"watchdog", doc.watch>>, transport |-> "kafka", ref |-> ref,
                      values |-> {}, instrument |-> doc.instrument, meta |-> <<>>]
  <2>1. e = Identified(sent)
    BY <1>3 DEF WatchdogEvent
  <2>2. {"id", "campaign", "number"} \subseteq DOMAIN sent /\ sent.id = NoId
    OBVIOUS
  <2> HIDE DEF sent
  <2>3. {"id", "campaign", "number"} \subseteq DOMAIN e /\ e.id # NoId /\ e.id[1] = "hash"
    BY <2>1, <2>2, HashedIs
  <2> QED BY <1>1, <2>3 DEF Owned
<1>4. CASE doc.form \in {"envelope", "legacy"} /\ e = TriggerEvent(doc, scene.explicit)
  <2> DEFINE base == TriggerBase(doc, scene.explicit)
             ref == CopyRef(doc.refs, CopyRef(doc.ref, [channel_id |-> doc.channel, key |-> "processed_message"]))
             legacy == [base EXCEPT !.ref = ref]
             sent == IF doc.form = "envelope" THEN Enveloped(doc, scene.explicit) ELSE Legacy(doc, scene.explicit)
             id == IF doc.number = Unknown THEN Stranded(sent.id) ELSE sent.shotId
             g1 == [sent EXCEPT !.position = PositionOf(sent.ref)]
             g2 == [g1 EXCEPT !.shotId = id]
  <2>1. /\ {"id", "campaign", "number", "shotId", "position"} \subseteq DOMAIN base
        /\ base.id = doc.id /\ base.number = doc.number
        /\ base.campaign = ChosenCampaign(scene.explicit, doc.campaign)
    BY DEF TriggerBase
  <2>2. doc.form = "envelope" => sent = base
    BY DEF Enveloped
  <2>3. doc.form # "envelope" => sent = Identified(legacy)
    BY DEF Legacy
  <2>4. e = [sent EXCEPT !.position = PositionOf(sent.ref), !.shotId = id]
    BY <1>4 DEF TriggerEvent
  <2>5. e = g2
    BY <2>4
  <2>6. doc.id = d.id => doc.campaign = Unassigned /\ doc.number = d.number
    BY <1>4 DEF SameEvent
  <2>7. doc.campaign = Unassigned => base.campaign = Unassigned
    BY <2>1 DEF ChosenCampaign
  <2> HIDE DEF base, ref
  <2>8. /\ {"id", "campaign", "number"} \subseteq DOMAIN legacy
        /\ legacy.id = base.id /\ legacy.number = base.number /\ legacy.campaign = base.campaign
    BY <2>1
  <2> HIDE DEF legacy, sent, id
  <2>9. Owned(sent, d)
    <3>1. CASE doc.form = "envelope"
        BY <2>1, <2>2, <2>6, <2>7, <3>1 DEF Owned
    <3>2. CASE doc.form # "envelope"
        BY <1>1, <2>1, <2>3, <2>6, <2>7, <2>8, <3>2, HashedIs DEF Owned
    <3> QED BY <3>1, <3>2
  <2>10. /\ DOMAIN g1 = DOMAIN sent /\ g1.id = sent.id /\ g1.campaign = sent.campaign /\ g1.number = sent.number
    BY <2>9 DEF Owned
  <2> HIDE DEF g1
  <2>11. /\ DOMAIN g2 = DOMAIN sent /\ g2.id = sent.id /\ g2.campaign = sent.campaign /\ g2.number = sent.number
    BY <2>9, <2>10 DEF Owned
  <2> HIDE DEF g2
  <2> QED BY <2>5, <2>9, <2>11 DEF Owned
<1> QED BY <1>2, <1>3, <1>4 DEF Spoken

\* Without windows and rulings only a row that has the number names a campaign.
LEMMA ResolvedByRow ==
    ASSUME NEW e, e.campaign = Unassigned, NEW rows, Resolve(e, rows, {}, NoRulings) # Unassigned
    PROVE  \E r \in rows : r.authority = e.number
<1>1. ~One(Scheduled(e, {}))
    BY DEF One, Scheduled
<1>2. e.number \notin DOMAIN NoRulings
    BY DEF NoRulings
<1>3. One(Recorded(e, rows))
    BY <1>1, <1>2, Zenon DEF Resolve
<1> QED BY <1>3 DEF One, Recorded

\* An event is listed under its own id and campaign.
LEMMA ListedIs ==
    ASSUME NEW e, {"id", "campaign", "number"} \subseteq DOMAIN e, NEW verdicts
    PROVE  Listed(e, verdicts).id = e.id /\ Listed(e, verdicts).campaign = e.campaign
<1> DEFINE key == IF Attached(verdicts, e) = {} THEN <<>> ELSE (CHOOSE s \in Attached(verdicts, e) : TRUE).key
           new == [key |-> key, status |-> verdicts[e].quality]
<1>1. Listed(e, verdicts) = Over(new, e)
    BY DEF Listed
<1>2. "id" \notin DOMAIN new /\ "campaign" \notin DOMAIN new
    OBVIOUS
<1> HIDE DEF new
<1>3. Over(new, e).id = e.id /\ Over(new, e).campaign = e.campaign
    BY <1>2 DEF Over
<1> QED BY <1>1, <1>3

ClaimedIn(events, i) ==
    LET shots == LabFrogShots(i)
    IN  \A k \in DOMAIN DocsOf(i), j \in DOMAIN events :
           LET d == DocsOf(i)[k]
           IN  /\ d.form = "envelope" /\ d.campaign = Unassigned
               /\ events[j].id = d.id
               => \/ events[j].campaign = Unassigned
                  \/ \E m \in DOMAIN shots : shots[m].authority = d.number

\* The documents a build read are those that arrived first.
LEMMA DocIs ==
    ASSUME scene \in Scenes, NEW i, WithinScene(i), NEW k \in DOMAIN DocsOf(i)
    PROVE  k \in DOMAIN scene.arrivals /\ DocsOf(i)[k] = scene.arrivals[k]
<1> DEFINE docs == DocsOf(i)
<1>1. IsSequence(scene.arrivals)
    BY ScenesOK
<1>2. i.arrived \in 0 .. Len(scene.arrivals) /\ Len(scene.arrivals) \in Nat
        /\ DOMAIN scene.arrivals = 1 .. Len(scene.arrivals)
    BY <1>1 DEF WithinScene, IsSequence
<1>3. docs = [l \in 1 .. i.arrived |-> scene.arrivals[l]]
    BY <1>1, <1>2 DEF DocsOf, IsSequence
<1> HIDE DEF docs
<1>4. k \in DOMAIN docs
    BY DEF docs
<1>5. k \in DOMAIN scene.arrivals /\ docs[k] = scene.arrivals[k]
    BY <1>2, <1>3, <1>4
<1> QED BY <1>5 DEF docs

\* An unassigned envelope's event that a campaign lists is there for a row that
\* its number names.
LEMMA ClaimedAre ==
    ASSUME scene \in Scenes, NEW i, WithinScene(i)
    PROVE  ClaimedIn(ReadAll(i).events, i)
<1> DEFINE shots == LabFrogShots(i)
           campaign == ExperimentOf(i)
           rows == RowsIn(shots, campaign)
           events == EventsOf(i)
           mine == Selected(events, rows, campaign)
           told == ReadAll(i).events
<1>1. PICK verdicts : EventsFrom(ReadAll(i), mine, verdicts)
    BY ReadIs
<1>2. IsSequence(events) /\ \E c : \A k \in DOMAIN events :
                 \E l \in DOMAIN scene.arrivals : Spoken(events[k], scene.arrivals[l], c)
    BY EventsOfAre
<1>3. PICK c : \A k \in DOMAIN events :
                 \E l \in DOMAIN scene.arrivals : Spoken(events[k], scene.arrivals[l], c)
    BY <1>2
<1> SUFFICES ASSUME NEW k \in DOMAIN DocsOf(i), NEW j \in DOMAIN told,
                    DocsOf(i)[k].form = "envelope", DocsOf(i)[k].campaign = Unassigned,
                    told[j].id = DocsOf(i)[k].id, told[j].campaign # Unassigned
             PROVE  \E m \in DOMAIN shots : shots[m].authority = DocsOf(i)[k].number
  <2> HIDE DEF shots, told
  <2> QED BY Zenon DEF ClaimedIn, shots, told
<1> DEFINE d == DocsOf(i)[k]
<1>4. k \in DOMAIN scene.arrivals /\ d = scene.arrivals[k]
    BY DocIs
<1> HIDE DEF d
<1>5. d.form = "envelope" /\ d.campaign = Unassigned /\ told[j].id = d.id
    BY DEF d
<1>6. \A l \in DOMAIN scene.arrivals :
         /\ SameEvent(d, scene.arrivals[l])
         /\ scene.arrivals[l].form = "event" =>
               {"id", "campaign", "number"} \subseteq DOMAIN scene.arrivals[l].event
    BY <1>4, <1>5, ScenesOK
<1>7. ~IsRowEvent(told[j])
  <2>1. SameEvent(d, d)
    BY <1>4, <1>6
  <2> QED BY <1>5, <2>1 DEF IsRowEvent, SameEvent
<1>8. PICK n \in DOMAIN mine : told[j] = Listed(mine[n], verdicts)
  <2> HIDE DEF mine
  <2> QED BY <1>1, <1>7 DEF EventsFrom
<1>9. PICK q \in DOMAIN events :
         mine[n] = [events[q] EXCEPT !.campaign = Resolve(events[q], rows, {}, NoRulings)]
  <2> HIDE DEF events, rows, campaign
  <2> QED BY <1>2, SelectedAre
<1>10. PICK l \in DOMAIN scene.arrivals : Spoken(events[q], scene.arrivals[l], c)
    BY <1>3
<1> DEFINE e == events[q]
<1> HIDE DEF mine, events, rows, campaign, told
<1>11. Owned(e, d)
    BY <1>5, <1>6, <1>10, SpokenOwned
<1> DEFINE resolved == Resolve(e, rows, {}, NoRulings)
           g == [e EXCEPT !.campaign = resolved]
<1> HIDE DEF e, resolved
<1>12. DOMAIN g = DOMAIN e /\ g.id = e.id /\ g.campaign = resolved
    BY <1>11 DEF Owned
<1>13. mine[n] = g
    BY <1>9 DEF e, resolved
<1> HIDE DEF g
<1>14. told[j].id = e.id /\ told[j].campaign = resolved
  <2>1. {"id", "campaign", "number"} \subseteq DOMAIN g
    BY <1>11, <1>12 DEF Owned
  <2> QED BY <1>8, <1>12, <1>13, <2>1, ListedIs
<1>15. e.campaign = Unassigned /\ e.number = d.number
    BY <1>5, <1>11, <1>14 DEF Owned
<1>16. \E r \in rows : r.authority = d.number
    BY <1>14, <1>15, ResolvedByRow DEF resolved
<1>17. \A r \in rows : \E m \in DOMAIN shots : r.authority = shots[m].authority
  <2> HIDE DEF shots
  <2> SUFFICES ASSUME NEW m \in DOMAIN shots
               PROVE  [AsRow(shots[m]) EXCEPT !.campaign = campaign].authority = shots[m].authority
    BY DEF rows, RowsIn
  <2> QED BY DEF AsRow
<1> QED BY <1>16, <1>17 DEF d

-----------------------------------------------------------------------------
(* The inductive invariant, and the theorems. *)

\* The inputs are in a state of the scene.
InputsInPlace ==
    /\ scene \in Scenes
    /\ arrived \in 0 .. Len(scene.arrivals) /\ exported \in 0 .. Len(scene.exports)
    /\ curated \in 0 .. Len(scene.curated)

\* Between its steps a build holds what its inputs said when it read them.
IsBuild ==
    /\ build = [at |-> build.at, read |-> build.read, products |-> build.products,
                file |-> build.file, from |-> build.from]
    /\ build.at \in {"idle", "gathered", "discovered", "staged", "shots", "tables"}
Begun == build.at # "idle" => WithinScene(build.from) /\ build.read = ReadAll(build.from)

\* Between its steps a build has the file that its steps so far make of what it
\* read, on top of the output in place.
InHand ==
    LET s == StagedFrom(build.from.staged, output)
    IN  /\ build.at = "staged" => build.file = s
        /\ build.at = "shots" => Extends(s, ReadAll(build.from).shots)
                                 /\ build.file = WithShots(s, ReadAll(build.from))
        /\ build.at = "tables" => MadeFrom(build.file, build.from, output)

\* And what was put in place was made from the inputs it says it was made from,
\* on top of some earlier output.
Published == Grounded(output) /\ (made # <<>> => \E last : MadeFrom(output, made, last))

\* The inductive invariant of the builder.
NexusInv == InputsInPlace /\ IsBuild /\ Begun /\ InHand /\ Published

\* None of these looks at anything but the scene.
LEMMA ReadSame ==
    ASSUME scene' = scene
    PROVE  \A i : ReadAll(i)' = ReadAll(i)
  BY DEF ReadAll, Reconciled, LabFrogShots, AllRows, NexusRows, SqliteRows, ExportAt, EventsOf, DocsOf, Stem, ExperimentOf
LEMMA StagedFromSame ==
    ASSUME scene' = scene
    PROVE  \A n, last : StagedFrom(n, last)' = StagedFrom(n, last)
  BY DEF StagedFrom, SourceFile, ExportAt
LEMMA WithShotsSame ==
    ASSUME scene' = scene
    PROVE  \A f, read : WithShots(f, read)' = WithShots(f, read)
  BY DEF WithShots
LEMMA WithinSame ==
    ASSUME scene' = scene
    PROVE  \A i : WithinScene(i)' <=> WithinScene(i)
  BY DEF WithinScene
LEMMA MadeSame ==
    ASSUME scene' = scene
    PROVE  \A f, i, last : MadeFrom(f, i, last)' <=> MadeFrom(f, i, last)
<1> SUFFICES ASSUME NEW f, NEW i, NEW last PROVE MadeFrom(f, i, last)' <=> MadeFrom(f, i, last)
    OBVIOUS
<1>1. ReadAll(i)' = ReadAll(i) /\ (WithinScene(i)' <=> WithinScene(i))
    BY ReadSame, WithinSame
<1>2. StagedFrom(i.staged, last)' = StagedFrom(i.staged, last)
    BY StagedFromSame
<1>3. WithShots(StagedFrom(i.staged, last), ReadAll(i))' = WithShots(StagedFrom(i.staged, last), ReadAll(i))
    BY <1>1, <1>2 DEF WithShots
<1> QED BY <1>1, <1>2, <1>3 DEF MadeFrom

\* What a build reads does not depend on what it stages.
LEMMA StagedSame ==
    ASSUME NEW i, NEW n, i = [arrived |-> i.arrived, exported |-> i.exported, curated |-> i.curated, staged |-> i.staged]
    PROVE  ReadAll([i EXCEPT !.staged = n]) = ReadAll(i)
<1>1. LET j == [i EXCEPT !.staged = n] IN j.arrived = i.arrived /\ j.exported = i.exported /\ j.curated = i.curated
  OBVIOUS
<1> QED
  BY <1>1 DEF ReadAll, LabFrogShots, AllRows, NexusRows, SqliteRows, EventsOf, DocsOf, Stem, ExperimentOf

\* At first there is no build, and no output.
LEMMA NexusInit == Init => NexusInv
<1> SUFFICES ASSUME Init PROVE NexusInv
    OBVIOUS
<1>1. scene \in Scenes /\ arrived = 0 /\ exported = scene.first.exported /\ curated = scene.first.curated
      /\ build = NoBuild /\ output = Blank /\ made = <<>>
    BY DEF Init
<1>2. InputsInPlace
  <2>1. IsSequence(scene.arrivals) /\ scene.first.exported \in 0 .. Len(scene.exports)
        /\ scene.first.curated \in 0 .. Len(scene.curated)
    BY <1>1, ScenesOK
  <2> QED BY <1>1, <2>1 DEF InputsInPlace, IsSequence
<1>3. IsBuild /\ Begun /\ InHand
    BY <1>1 DEF IsBuild, Begun, InHand, NoBuild
<1>4. Published
    BY <1>1, BlankIs DEF Published
<1> QED BY <1>2, <1>3, <1>4 DEF NexusInv

\* What is true of a build and an output stays true while only the inputs change.
LEMMA BuildStays ==
    ASSUME NexusInv, UNCHANGED <<scene, build, output, made>>
    PROVE  IsBuild' /\ Begun' /\ InHand' /\ Published'
<1>1. IsBuild'
    BY DEF NexusInv, IsBuild
<1>2. Begun'
  <2>1. \A i : WithinScene(i)' <=> WithinScene(i)
    BY WithinSame
  <2>2. \A i : ReadAll(i)' = ReadAll(i)
    BY ReadSame
  <2> QED BY <2>1, <2>2 DEF NexusInv, Begun
<1>3. InHand'
    BY ReadSame, StagedFromSame, WithShotsSame, MadeSame DEF NexusInv, InHand
<1>4. Published'
    BY MadeSame DEF NexusInv, Published
<1> QED BY <1>1, <1>2, <1>3, <1>4

\* The output stays what it was made from while it is left alone.
LEMMA OutputStays ==
    ASSUME NexusInv, UNCHANGED <<scene, output, made>>
    PROVE  Published'
  BY MadeSame DEF NexusInv, Published

\* A build that is over holds nothing.
LEMMA BuildEnds ==
    ASSUME build' = NoBuild
    PROVE  IsBuild' /\ Begun' /\ InHand'
  BY DEF IsBuild, Begun, InHand, NoBuild

\* The inputs stay in place while they are left alone.
LEMMA InputsStay ==
    ASSUME NexusInv, UNCHANGED <<scene, inputs>>
    PROVE  InputsInPlace'
  BY DEF NexusInv, InputsInPlace, inputs

\* A document arrives.
LEMMA ArriveStep == ASSUME NexusInv, Arrive PROVE NexusInv'
<1>1. scene' = scene /\ exported' = exported /\ curated' = curated
      /\ arrived < Len(scene.arrivals) /\ arrived' = arrived + 1
    BY DEF Arrive
<1>2. UNCHANGED <<scene, build, output, made>>
    BY DEF Arrive
<1>3. InputsInPlace'
  <2>1. IsSequence(scene.arrivals)
    BY ScenesOK DEF NexusInv, InputsInPlace
  <2> QED BY <1>1, <2>1 DEF NexusInv, InputsInPlace, IsSequence
<1> QED BY <1>2, <1>3, BuildStays DEF NexusInv

\* LabFrog replaces its NeXus export.
LEMMA ReplaceExportStep == ASSUME NexusInv, ReplaceExport PROVE NexusInv'
<1>1. scene' = scene /\ arrived' = arrived /\ curated' = curated
      /\ exported < Len(scene.exports) /\ exported' = exported + 1
    BY DEF ReplaceExport
<1>2. UNCHANGED <<scene, build, output, made>>
    BY DEF ReplaceExport
<1>3. InputsInPlace'
  <2>1. IsSequence(scene.exports)
    BY ScenesOK DEF NexusInv, InputsInPlace
  <2> QED BY <1>1, <2>1 DEF NexusInv, InputsInPlace, IsSequence
<1> QED BY <1>2, <1>3, BuildStays DEF NexusInv

\* LabFrog replaces its SQLite export.
LEMMA ReplaceCuratedStep == ASSUME NexusInv, ReplaceCurated PROVE NexusInv'
<1>1. scene' = scene /\ arrived' = arrived /\ exported' = exported
      /\ curated < Len(scene.curated) /\ curated' = curated + 1
    BY DEF ReplaceCurated
<1>2. UNCHANGED <<scene, build, output, made>>
    BY DEF ReplaceCurated
<1>3. InputsInPlace'
  <2>1. IsSequence(scene.curated)
    BY ScenesOK DEF NexusInv, InputsInPlace
  <2> QED BY <1>1, <2>1 DEF NexusInv, InputsInPlace, IsSequence
<1> QED BY <1>2, <1>3, BuildStays DEF NexusInv

\* LabFrog's NeXus export goes.
LEMMA DropSourceStep == ASSUME NexusInv, DropSource PROVE NexusInv'
<1>1. scene' = scene /\ arrived' = arrived /\ curated' = curated /\ exported' = 0
    BY DEF DropSource
<1>2. UNCHANGED <<scene, build, output, made>>
    BY DEF DropSource
<1>3. InputsInPlace'
  <2>1. IsSequence(scene.exports)
    BY ScenesOK DEF NexusInv, InputsInPlace
  <2> QED BY <1>1, <2>1 DEF NexusInv, InputsInPlace, IsSequence
<1> QED BY <1>2, <1>3, BuildStays DEF NexusInv

\* A build is given up.
LEMMA AbandonStep == ASSUME NexusInv, Abandon PROVE NexusInv'
<1>1. build' = NoBuild /\ UNCHANGED <<scene, inputs>> /\ UNCHANGED <<scene, output, made>>
    BY DEF Abandon
<1> QED BY <1>1, BuildEnds, InputsStay, OutputStays DEF NexusInv

\* A build reads its inputs.
LEMMA GatherStep == ASSUME NexusInv, Gather PROVE NexusInv'
<1>1. build' = [NoBuild EXCEPT !.at = "gathered", !.read = ReadAll(Inputs), !.from = Inputs]
      /\ UNCHANGED <<scene, inputs>> /\ UNCHANGED <<scene, output, made>>
    BY DEF Gather
<1> DEFINE read == ReadAll(Inputs)
<1> HIDE DEF read
<1>2. build' = [at |-> "gathered", read |-> read, products |-> <<>>, file |-> Blank, from |-> Inputs]
    BY <1>1 DEF NoBuild, read
<1>3. WithinScene(Inputs)
    BY DEF NexusInv, InputsInPlace, WithinScene, Inputs
<1>4. IsBuild' /\ InHand'
    BY <1>2 DEF IsBuild, InHand
<1>5. Begun'
  <2>1. build'.from = Inputs /\ build'.read = ReadAll(Inputs)
    BY <1>2 DEF read
  <2>2. \A i : WithinScene(i)' <=> WithinScene(i)
    BY <1>1, WithinSame
  <2>3. \A i : ReadAll(i)' = ReadAll(i)
    BY <1>1, ReadSame
  <2> QED BY <1>3, <2>1, <2>2, <2>3 DEF Begun
<1> QED BY <1>1, <1>4, <1>5, InputsStay, OutputStays DEF NexusInv

\* It looks into the export for arrays.
LEMMA DiscoverStep == ASSUME NexusInv, Discover PROVE NexusInv'
<1> DEFINE products == EventProducts(build.read)
                       \o Arrays(build.read, IF build.from.exported = 0 THEN 0 ELSE exported)
<1>1. build' = [build EXCEPT !.at = "discovered", !.products = products]
      /\ UNCHANGED <<scene, inputs>> /\ UNCHANGED <<scene, output, made>> /\ build.at = "gathered"
    BY DEF Discover, At
<1> HIDE DEF products
<1>2. build' = [at |-> "discovered", read |-> build.read, products |-> products,
                file |-> build.file, from |-> build.from]
  <2> DEFINE g1 == [build EXCEPT !.at = "discovered"]
  <2>1. g1 = [at |-> "discovered", read |-> build.read, products |-> build.products,
              file |-> build.file, from |-> build.from]
    BY DEF NexusInv, IsBuild
  <2>2. build' = [g1 EXCEPT !.products = products]
    BY <1>1
  <2> HIDE DEF g1
  <2> QED BY <2>1, <2>2
<1>3. IsBuild' /\ InHand'
    BY <1>2 DEF IsBuild, InHand
<1>4. Begun'
  <2>1. build'.from = build.from /\ build'.read = build.read
    BY <1>2
  <2>2. \A i : WithinScene(i)' <=> WithinScene(i)
    BY <1>1, WithinSame
  <2>3. \A i : ReadAll(i)' = ReadAll(i)
    BY <1>1, ReadSame
  <2> QED BY <1>1, <2>1, <2>2, <2>3 DEF NexusInv, Begun
<1> QED BY <1>1, <1>3, <1>4, InputsStay, OutputStays DEF NexusInv

\* It stages a copy of the export that is in place by then, or of the output.
LEMMA StageStep == ASSUME NexusInv, Stage PROVE NexusInv'
<1> DEFINE n == IF build.from.exported = 0 THEN 0 ELSE exported
           newFile == StagedFrom(n, output)
           from == [build.from EXCEPT !.staged = n]
<1>1. build' = [build EXCEPT !.at = "staged", !.file = newFile, !.from.staged = n]
      /\ UNCHANGED <<scene, inputs>> /\ UNCHANGED <<scene, output, made>> /\ build.at = "discovered"
    BY DEF Stage, At
<1>2. n \in 0 .. Len(scene.exports)
  <2>1. IsSequence(scene.exports)
    BY ScenesOK DEF NexusInv, InputsInPlace
  <2> QED BY <2>1 DEF NexusInv, InputsInPlace, IsSequence
<1> HIDE DEF n, newFile
<1>3. build' = [at |-> "staged", read |-> build.read, products |-> build.products,
                file |-> newFile, from |-> from]
  <2> DEFINE g1 == [build EXCEPT !.at = "staged"]
             g2 == [g1 EXCEPT !.file = newFile]
  <2>1. g1 = [at |-> "staged", read |-> build.read, products |-> build.products,
              file |-> build.file, from |-> build.from]
    BY DEF NexusInv, IsBuild
  <2>2. build' = [g2 EXCEPT !.from.staged = n]
    BY <1>1
  <2> HIDE DEF g1
  <2>3. g2 = [at |-> "staged", read |-> build.read, products |-> build.products,
              file |-> newFile, from |-> build.from]
    BY <2>1
  <2> HIDE DEF g2
  <2> QED BY <2>2, <2>3
<1>4. WithinScene(build.from) /\ build.read = ReadAll(build.from)
    BY <1>1 DEF NexusInv, Begun
<1>5. WithinScene(from) /\ from.staged = n
    BY <1>2, <1>4 DEF WithinScene
<1>6. ReadAll(from) = ReadAll(build.from)
    BY <1>4, StagedSame DEF WithinScene
<1> HIDE DEF from
<1>7. IsBuild'
    BY <1>3 DEF IsBuild
<1>8. InHand'
  <2>1. build'.at = "staged" /\ build'.file = newFile /\ build'.from.staged = n
    BY <1>3, <1>5
  <2>2. \A m, last : StagedFrom(m, last)' = StagedFrom(m, last)
    BY <1>1, StagedFromSame
  <2> QED BY <1>1, <2>1, <2>2 DEF InHand, newFile
<1>9. Begun'
  <2>1. build'.from = from /\ build'.read = build.read
    BY <1>3
  <2>2. \A i : WithinScene(i)' <=> WithinScene(i)
    BY <1>1, WithinSame
  <2>3. \A i : ReadAll(i)' = ReadAll(i)
    BY <1>1, ReadSame
  <2> QED BY <1>4, <1>5, <1>6, <2>1, <2>2, <2>3 DEF Begun
<1> QED BY <1>1, <1>7, <1>8, <1>9, InputsStay, OutputStays DEF NexusInv

\* It writes the shots.
LEMMA WriteShotsStep == ASSUME NexusInv, WriteShots PROVE NexusInv'
<1> DEFINE newFile == WithShots(build.file, build.read)
           s == StagedFrom(build.from.staged, output)
<1>1. build' = [build EXCEPT !.at = "shots", !.file = newFile]
      /\ UNCHANGED <<scene, inputs>> /\ UNCHANGED <<scene, output, made>> /\ build.at = "staged"
      /\ Extends(build.file, build.read.shots)
    BY DEF WriteShots, At
<1>2. WithinScene(build.from) /\ build.read = ReadAll(build.from) /\ build.file = s
    BY <1>1 DEF NexusInv, Begun, InHand
<1>3. newFile = WithShots(s, ReadAll(build.from)) /\ Extends(s, ReadAll(build.from).shots)
    BY <1>1, <1>2
<1> HIDE DEF newFile, s
<1>4. build' = [at |-> "shots", read |-> build.read, products |-> build.products,
                file |-> newFile, from |-> build.from]
  <2> DEFINE g1 == [build EXCEPT !.at = "shots"]
  <2>1. g1 = [at |-> "shots", read |-> build.read, products |-> build.products,
              file |-> build.file, from |-> build.from]
    BY DEF NexusInv, IsBuild
  <2>2. build' = [g1 EXCEPT !.file = newFile]
    BY <1>1
  <2> HIDE DEF g1
  <2> QED BY <2>1, <2>2
<1>5. IsBuild'
    BY <1>4 DEF IsBuild
<1>6. build'.at = "shots" /\ build'.file = newFile /\ build'.from = build.from /\ build'.read = build.read
    BY <1>4
<1>7. InHand'
  <2>1. \A m, last : StagedFrom(m, last)' = StagedFrom(m, last)
    BY <1>1, StagedFromSame
  <2>2. \A i : ReadAll(i)' = ReadAll(i)
    BY <1>1, ReadSame
  <2>3. \A f, read : WithShots(f, read)' = WithShots(f, read)
    BY <1>1, WithShotsSame
  <2> QED BY <1>1, <1>3, <1>6, <2>1, <2>2, <2>3 DEF InHand, s
<1>8. Begun'
  <2>2. \A i : WithinScene(i)' <=> WithinScene(i)
    BY <1>1, WithinSame
  <2>3. \A i : ReadAll(i)' = ReadAll(i)
    BY <1>1, ReadSame
  <2> QED BY <1>2, <1>6, <2>2, <2>3 DEF Begun
<1> QED BY <1>1, <1>5, <1>7, <1>8, InputsStay, OutputStays DEF NexusInv

\* It writes its other groups.
LEMMA WriteTablesStep == ASSUME NexusInv, WriteTables PROVE NexusInv'
<1> DEFINE newFile == Tables(build.file, build.read.events, build.products)
           s == StagedFrom(build.from.staged, output)
           table == WithShots(s, ReadAll(build.from))
<1>1. build' = [build EXCEPT !.at = "tables", !.file = newFile]
      /\ UNCHANGED <<scene, inputs>> /\ UNCHANGED <<scene, output, made>> /\ build.at = "shots"
      /\ Indexable(build.file, build.read.events)
    BY DEF WriteTables, At
<1>2. /\ WithinScene(build.from) /\ build.read = ReadAll(build.from)
      /\ Extends(s, ReadAll(build.from).shots) /\ build.file = table
      /\ Grounded(output) /\ IsFile(table)
  <2>1. /\ WithinScene(build.from) /\ build.read = ReadAll(build.from)
        /\ Extends(s, ReadAll(build.from).shots) /\ build.file = table
        /\ Grounded(output) /\ scene \in Scenes
    BY <1>1 DEF NexusInv, Begun, InHand, Published, InputsInPlace
  <2>2. IsFile(s)
    BY <2>1, StagedIs DEF WithinScene
  <2> HIDE DEF s
  <2>3. IsFile(table)
    BY <2>2, ShotsWritten
  <2> QED BY <2>1, <2>3 DEF s
<1> HIDE DEF table
<1>3. newFile = Tables(table, ReadAll(build.from).events, build.products)
    BY <1>2
<1> HIDE DEF newFile, s
<1>4. newFile.products = build.products
    BY <1>2, <1>3, TablesOf
<1>5. MadeFrom(newFile, build.from, output)
    BY <1>1, <1>2, <1>3, <1>4 DEF MadeFrom, s, table
<1>6. build' = [at |-> "tables", read |-> build.read, products |-> build.products,
                file |-> newFile, from |-> build.from]
  <2> DEFINE g1 == [build EXCEPT !.at = "tables"]
  <2>1. g1 = [at |-> "tables", read |-> build.read, products |-> build.products,
              file |-> build.file, from |-> build.from]
    BY DEF NexusInv, IsBuild
  <2>2. build' = [g1 EXCEPT !.file = newFile]
    BY <1>1
  <2> HIDE DEF g1
  <2> QED BY <2>1, <2>2
<1>7. IsBuild'
    BY <1>6 DEF IsBuild
<1>8. build'.at = "tables" /\ build'.file = newFile /\ build'.from = build.from /\ build'.read = build.read
    BY <1>6
<1>9. InHand'
  <2>1. \A f, i, last : MadeFrom(f, i, last)' <=> MadeFrom(f, i, last)
    BY <1>1, MadeSame
  <2> QED BY <1>1, <1>5, <1>8, <2>1 DEF InHand
<1>10. Begun'
  <2>2. \A i : WithinScene(i)' <=> WithinScene(i)
    BY <1>1, WithinSame
  <2>3. \A i : ReadAll(i)' = ReadAll(i)
    BY <1>1, ReadSame
  <2> QED BY <1>2, <1>8, <2>2, <2>3 DEF Begun
<1> QED BY <1>1, <1>7, <1>9, <1>10, InputsStay, OutputStays DEF NexusInv

\* What it wrote replaces the output.
LEMMA PublishStep == ASSUME NexusInv, Publish PROVE NexusInv'
<1>1. output' = build.file /\ made' = build.from /\ build' = NoBuild /\ UNCHANGED <<scene, inputs>>
      /\ build.at = "tables"
    BY DEF Publish, At
<1>2. MadeFrom(build.file, build.from, output)
    BY <1>1 DEF NexusInv, InHand
<1>3. Grounded(build.file)
    BY <1>2, MadeGrounded DEF NexusInv, InputsInPlace
<1>4. Published'
  <2>1. \A f, i, last : MadeFrom(f, i, last)' <=> MadeFrom(f, i, last)
    BY <1>1, MadeSame
  <2> QED BY <1>1, <1>2, <1>3, <2>1 DEF Published
<1> QED BY <1>1, <1>4, BuildEnds, InputsStay DEF NexusInv

\* Every step keeps the invariant.
LEMMA NexusStep == NexusInv /\ [Next]_vars => NexusInv'
<1> SUFFICES ASSUME NexusInv, [Next]_vars PROVE NexusInv'
    OBVIOUS
<1>1. CASE Arrive
    BY <1>1, ArriveStep
<1>2. CASE ReplaceExport
    BY <1>2, ReplaceExportStep
<1>3. CASE ReplaceCurated
    BY <1>3, ReplaceCuratedStep
<1>4. CASE DropSource
    BY <1>4, DropSourceStep
<1>5. CASE Gather
    BY <1>5, GatherStep
<1>6. CASE Discover
    BY <1>6, DiscoverStep
<1>7. CASE Stage
    BY <1>7, StageStep
<1>8. CASE WriteShots
    BY <1>8, WriteShotsStep
<1>9. CASE RefuseShots
    BY <1>9, AbandonStep DEF RefuseShots
<1>10. CASE WriteTables
    BY <1>10, WriteTablesStep
<1>11. CASE RefuseNames
    BY <1>11, AbandonStep DEF RefuseNames
<1>12. CASE Publish
    BY <1>12, PublishStep
<1>13. CASE Fail
    BY <1>13, AbandonStep DEF Fail
<1>14. CASE UNCHANGED vars
    BY <1>14, BuildStays, InputsStay DEF vars, NexusInv
<1> QED BY <1>1, <1>2, <1>3, <1>4, <1>5, <1>6, <1>7, <1>8, <1>9, <1>10, <1>11, <1>12, <1>13, <1>14 DEF Next, Build

\* build, hzdr-hdf5-builder.py:149-276: whatever arrives and whatever LabFrog
\* replaces while it runs, a build holds between its steps exactly what its steps
\* so far make of what it read, and every output was made that way, of the inputs
\* it was begun with and, where no export was copied, of an earlier output.
THEOREM BuildsFaithful == Spec => []NexusInv
<1> QED BY NexusInit, NexusStep, PTL DEF Spec

\* The invariant gives each property the runs check.
LEMMA InvRowsAgree == NexusInv => RowsAgree
<1> SUFFICES ASSUME NexusInv PROVE RowsAgree
    OBVIOUS
<1>1. RowsOnce
  <2> SUFFICES ASSUME Gathered PROVE RowsOnceIn(build.from)
    BY Zenon DEF RowsOnce, RowsOnceIn
  <2>1. WithinScene(build.from) /\ scene \in Scenes
    BY DEF Gathered, NexusInv, Begun, InputsInPlace
  <2> QED BY <2>1, RowsAreOnce
<1>2. ASSUME Undisturbed, ~Grown
      PROVE  /\ Len(output.rows) = Len(output.columns)
             /\ \A i \in DOMAIN output.rows :
                   /\ output.rows[i].number \in {None, output.columns[i].key[3]}
                   /\ output.rows[i].time \in {None, output.columns[i].time}
  <2>1. scene \in Scenes /\ made.staged = made.exported /\ ~(output.owner = "labfrog" /\ made.staged = 0)
    BY <1>2 DEF NexusInv, InputsInPlace, Undisturbed, Grown
  <2>2. PICK last : MadeFrom(output, made, last)
    BY <1>2 DEF NexusInv, Published, Undisturbed, Built
  <2> QED BY <2>1, <2>2, RowsAgreeIn
<1> QED BY <1>1, <1>2 DEF RowsAgree

\* What the export had is in the output.
LEMMA InvPreservedKept == NexusInv => PreservedKept
<1> SUFFICES ASSUME NexusInv, FromSource
             PROVE  LET source == SourceFile(made.staged)
                    IN  /\ SubSeq(output.rows, 1, Len(source.rows)) = source.rows
                        /\ source.foreign \subseteq output.foreign
                        /\ output.foreign \cap (DOMAIN output.diagnostics \cup DOMAIN output.indexes) = {}
    BY DEF PreservedKept
<1>1. scene \in Scenes /\ made.staged # 0 /\ made # <<>>
    BY DEF NexusInv, InputsInPlace, FromSource, Undisturbed, Built
<1>2. PICK last : MadeFrom(output, made, last)
    BY <1>1 DEF NexusInv, Published
<1> QED BY <1>1, <1>2, PreservedIn

\* What no input says is not.
LEMMA InvNothingLingers == NexusInv => NothingLingers
<1> SUFFICES ASSUME NexusInv, Built, ~Grown PROVE output = FirstBuild(made)
    BY DEF NothingLingers
<1>1. scene \in Scenes /\ ~(output.owner = "labfrog" /\ made.staged = 0)
    BY DEF NexusInv, InputsInPlace, Grown
<1>2. PICK last : MadeFrom(output, made, last)
    BY DEF NexusInv, Published, Built
<1>3. output = Tables(WithShots(StagedFrom(made.staged, Blank), ReadAll(made)), ReadAll(made).events, output.products)
    BY <1>1, <1>2, NothingLingersIn
<1> QED BY <1>3, Zenon DEF FirstBuild

\* And an event is attached by something said of it.
LEMMA InvClaimedByRecord == NexusInv => ClaimedByRecord
<1> SUFFICES ASSUME NexusInv, Built PROVE ClaimedIn(output.events, made)
    BY Zenon DEF ClaimedByRecord, ClaimedIn
<1>1. scene \in Scenes
    BY DEF NexusInv, InputsInPlace
<1>2. PICK last : MadeFrom(output, made, last)
    BY DEF NexusInv, Published, Built
<1>3. WrittenOn(output, StagedFrom(made.staged, last), ReadAll(made)) /\ WithinScene(made)
    BY <1>1, <1>2, MadeIs DEF MadeFrom
<1>4. output.events = ReadAll(made).events
    BY <1>3 DEF WrittenOn
<1>5. ClaimedIn(ReadAll(made).events, made)
    BY <1>1, <1>3, ClaimedAre
<1> QED BY <1>4, <1>5, Zenon

\* merge_labfrog_shots and write_nexus_bridge: no shot of LabFrog's is lost, doubled
\* or put in another's place while three sources are merged; and where the export
\* copied is the one that was read, row by row LabFrog's columns and DAMNIT's speak
\* of one shot, whatever the exports held and in whatever order they came.
THEOREM RowsAgreeAlways == Spec => []RowsAgree
  BY BuildsFaithful, InvRowsAgree, PTL

\* _extend_preserved_shot_table and _claim_damnit_group: a file made from LabFrog's
\* export holds the export's rows in their places and every group it had, and no
\* group of DAMNIT's took one's name.
THEOREM PreservedKeptAlways == Spec => []PreservedKept
  BY BuildsFaithful, InvPreservedKept, PTL

\* hzdr_nexus.py:2172: an output that was not grown on LabFrog's rows of an earlier
\* one is, field by field, what the first build from its inputs would have written.
THEOREM NothingLingersAlways == Spec => []NothingLingers
  BY BuildsFaithful, InvNothingLingers, PTL

\* _selected_trigger_experiment: an envelope that did not know its campaign is in a
\* campaign's file only for a row of that campaign with its number, however many
\* events share an id and whatever another campaign's builds do.
THEOREM ClaimedByRecordAlways == Spec => []ClaimedByRecord
  BY BuildsFaithful, InvClaimedByRecord, PTL

=============================================================================
