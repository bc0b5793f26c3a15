------------------------ MODULE SpoolConsumerProofs ------------------------
(***************************************************************************)
(* For every log, batch size and number of faults: the loop keeps its      *)
(* types, and acknowledges only what the spool files hold - with no cut    *)
(* write and no power loss, and, for Kafka, with no append that fails -    *)
(* and, as long as no process has died, only what the disk holds.          *)
(* Under the same assumption the loop implements DurableSpool.  Where      *)
(* appends are cut short and power is lost, a loss leaves a broken line.   *)
(* Whatever fails, an event has one line in all the files, and one more    *)
(* for each append whose fsync failed.                                     *)
(***************************************************************************)
EXTENDS SpoolConsumer, SequenceTheorems, FiniteSetTheorems, TLAPS

(***************************************************************************)
(* Types.                                                                  *)
(***************************************************************************)

\* Every message has a spool file, and an event is one of the identities.
LEMMA RecordFacts ==
    ASSUME NEW i \in 1..Len(log), log[i] \in Records
    PROVE  log[i].id \in Ids /\ PathFor(log[i]) \in Files
  <1>1. log[i].id \in Ids
    BY DEF Ids
  <1>2. PathFor(log[i]) \in Files
    BY ConstantsOK DEF PathFor, Files
  <1> QED
    BY <1>1, <1>2

FaultsOK ==
    /\ faults \in [FaultKinds -> Nat]
    /\ \A k \in FaultKinds : faults[k] <= scene.limit[k]

\* The scene stays what it is, so a fault stays within its limit.
LEMMA SceneStays == [Next]_vars => scene' = scene
  BY DEF Next, vars, broker, Publish, Claim, ClaimUndecodable, Duplicate, WriteLine, Fsync,
     Ack, Announce, WriteFails, WriteTorn, FsyncFails, AckFails, Crash, PowerLoss, Restart

LEMMA FaultType ==
    ASSUME TypeOK, NEW k \in FaultKinds, Fault(k), scene' = scene
    PROVE  FaultsOK'
  <1>1. scene.limit \in [FaultKinds -> 0..MaxFaults] /\ MaxFaults \in Nat
    BY ConstantsOK DEF TypeOK
  <1>2. faults[k] \in Nat /\ faults[k] < scene.limit[k] /\ scene' = scene
    BY DEF TypeOK, Fault
  <1>3. faults' = [faults EXCEPT ![k] = faults[k] + 1]
    BY DEF Fault
  <1>4. \A j \in FaultKinds : scene.limit[j] \in Nat
    BY <1>1
  <1>5. \A j \in FaultKinds : faults'[j] \in Nat /\ faults'[j] <= scene.limit[j]
    BY <1>2, <1>3, <1>4 DEF TypeOK
  <1> QED
    BY <1>2, <1>3, <1>5 DEF TypeOK, FaultsOK

\* What the types rest on: the claimed messages are events, and a batch is
\* given up only when nothing of it is left to consume.
TodoIsEvents ==
    /\ \A i \in batch : log[i] \in Records
    /\ pc \in {"claim", "announce"} => todo = {}

TypeInv == TypeOK /\ TodoIsEvents

LEMMA TypeInit == Init => TypeInv
  <1> SUFFICES ASSUME Init PROVE TypeInv
    OBVIOUS
  <1>1. scene \in Scenes /\ faults \in [FaultKinds -> Nat] /\ \A k \in FaultKinds : faults[k] <= scene.limit[k]
    <2>1. scene \in Scenes /\ scene.limit \in [FaultKinds -> 0..MaxFaults]
      BY ConstantsOK DEF Init
    <2>2. \A k \in FaultKinds : scene.limit[k] \in 0..MaxFaults
      BY <2>1
    <2> QED
      BY <2>1, <2>2, ConstantsOK DEF Init
  <1>2. log \in Seq(Records \cup {Junk, Garbled}) /\ Len(log) = 0
    BY DEF Init
  <1>3. lines \in [Files -> Seq(Ids \cup {Corrupt})]
    BY DEF Init
  <1>4. 0 \in 0..Len(log) /\ {} \subseteq 1..Len(log)
    BY <1>2
  <1>5. offset = 0 /\ position = 0 /\ acked = {} /\ batch = {} /\ todo = {} /\ pc = "claim"
    BY DEF Init
  <1>6. /\ written = {} /\ loaded = FALSE /\ staged = {} /\ announced = {}
        /\ torn \in [Files -> BOOLEAN] /\ synced \in [Files -> Nat]
    BY DEF Init
  <1> QED
    BY <1>1, <1>2, <1>3, <1>4, <1>5, <1>6 DEF TypeInv, TypeOK, TodoIsEvents

LEMMA SpooledIdsType == SpooledIds \subseteq Ids
  BY DEF SpooledIds

LEMMA TypeStep == TypeInv /\ [Next]_vars => TypeInv'
  <1> SUFFICES ASSUME TypeInv, [Next]_vars PROVE TypeInv'
    OBVIOUS
  <1> USE DEF TypeInv, FaultsOK
  <1>b. scene' = scene
    BY SceneStays
  <1> USE <1>b
  <1>k. Known \subseteq Ids
    BY SpooledIdsType DEF Known, TypeOK
  <1>l. Len(log) \in Nat /\ offset \in Nat /\ position \in Nat
    BY DEF TypeOK
  <1>1. ASSUME NEW r \in Records \cup {Junk, Garbled}, Publish(r) PROVE TypeInv'
    <2>1. log' \in Seq(Records \cup {Junk, Garbled}) /\ Len(log') = Len(log) + 1
      BY <1>1 DEF Publish, TypeOK
    <2>2. 1..Len(log) \subseteq 1..Len(log') /\ 0..Len(log) \subseteq 0..Len(log')
      BY <2>1, <1>l
    <2>3. \A i \in 1..Len(log) : log'[i] = log[i]
      BY <1>1 DEF Publish, TypeOK
    <2>4. TypeOK'
      BY <1>1, <2>1, <2>2 DEF Publish, TypeOK, memory, disk
    <2>5. TodoIsEvents'
      BY <1>1, <2>3 DEF Publish, TypeOK, TodoIsEvents, memory
    <2> QED
      BY <2>4, <2>5
  <1>2. CASE Claim
    <2> PICK last \in ReadFrom + 1..Len(log) :
          /\ last - ReadFrom <= BatchSize
          /\ batch' = {i \in ReadFrom + 1..last : log[i] \in Records}
          /\ todo' = {i \in ReadFrom + 1..last : log[i] \in Records}
          /\ pc' = IF {i \in ReadFrom + 1..last : log[i] \in Records} = {}
                     THEN "claim" ELSE "spool"
          /\ position' = IF Broker = "kafka" THEN last ELSE position
          /\ offset' = IF Broker = "asapo" THEN last ELSE offset
      BY <1>2 DEF Claim
    <2>1. ReadFrom \in Nat /\ last \in 1..Len(log) /\ last \in 0..Len(log)
      BY <1>l DEF ReadFrom
    <2>2. batch' \subseteq 1..Len(log)
      BY <2>1, <1>l
    <2> QED
      BY <1>2, <2>1, <2>2 DEF Claim, TypeOK, TodoIsEvents, disk
  <1>3. CASE ClaimUndecodable
    BY <1>3, <1>l DEF ClaimUndecodable, TypeOK, TodoIsEvents, memory, disk
  <1>4. ASSUME NEW i \in todo, Duplicate(i) PROVE TypeInv'
    BY <1>4, <1>k DEF Duplicate, TypeOK, TodoIsEvents, broker, disk
  <1>5. ASSUME NEW i \in todo, WriteLine(i) PROVE TypeInv'
    <2>1. log[i].id \in Ids /\ PathFor(log[i]) \in Files
      BY RecordFacts DEF TypeOK, TodoIsEvents
    <2> DEFINE f == PathFor(log[i])
               line == IF torn[f] THEN Corrupt ELSE log[i].id
    <2>2. line \in Ids \cup {Corrupt} /\ lines[f] \in Seq(Ids \cup {Corrupt})
      BY <2>1 DEF TypeOK
    <2>3. Append(lines[f], line) \in Seq(Ids \cup {Corrupt})
      BY <2>2
    <2>4. lines' = [lines EXCEPT ![f] = Append(lines[f], line)]
      BY <1>5 DEF WriteLine
    <2> HIDE DEF line
    <2>5. lines' \in [Files -> Seq(Ids \cup {Corrupt})]
      BY <2>1, <2>3, <2>4 DEF TypeOK
    <2> QED
      BY <1>5, <1>k, <2>1, <2>5
      DEF WriteLine, AppendEvent, TypeOK, TodoIsEvents, broker
  <1>6. ASSUME NEW i \in todo, Fsync(i) PROVE TypeInv'
    <2>1. log[i].id \in Ids /\ PathFor(log[i]) \in Files
      BY RecordFacts DEF TypeOK, TodoIsEvents
    <2>2. Len(lines[PathFor(log[i])]) \in Nat
      BY <2>1 DEF TypeOK
    <2>3. synced' \in [Files -> Nat]
      BY <1>6, <2>1, <2>2 DEF Fsync, TypeOK
    <2> QED
      BY <1>6, <2>1, <2>3 DEF Fsync, TypeOK, TodoIsEvents, broker
  <1>c. ASSUME NEW h, Commit(h) PROVE acked' \subseteq 1..Len(log) /\ offset' \in 0..Len(log)
    <2>1. h \in 1..Len(log) /\ batch \subseteq 1..Len(log)
      BY <1>c DEF Commit, EndOfBatch, TypeOK
    <2>2. h \in 0..Len(log) /\ 1..h \subseteq 1..Len(log)
      BY <2>1, <1>l
    <2>3. Covered(h) \subseteq 1..Len(log)
      BY <2>1, <2>2 DEF Covered
    <2>4. acked' = acked \cup Covered(h) /\ offset' \in {offset, h}
      BY <1>c DEF Commit
    <2>5. acked \subseteq 1..Len(log) /\ offset \in 0..Len(log)
      BY DEF TypeOK
    <2> QED
      BY <2>2, <2>3, <2>4, <2>5
  <1>7. ASSUME NEW h \in 1..Len(log), Ack(h) PROVE TypeInv'
    BY <1>7, <1>c DEF Ack, TypeOK, TodoIsEvents, memory, disk
  <1>8. CASE Announce
    BY <1>8, SpooledIdsType DEF Announce, TypeOK, TodoIsEvents, broker, disk
  <1>9. ASSUME NEW i \in todo, WriteFails(i) PROVE TypeInv'
    <2>1. FaultsOK'
      BY <1>9, FaultType DEF WriteFails, FaultKinds
    <2> QED
      BY <1>9, <1>k, <2>1
      DEF WriteFails, AppendEvent, GiveUpBatch, TypeOK, TodoIsEvents, broker, disk
  <1>10. ASSUME NEW i \in todo, WriteTorn(i) PROVE TypeInv'
    <2>1. FaultsOK'
      BY <1>10, FaultType DEF WriteTorn, FaultKinds
    <2> QED
      BY <1>10, <1>k, <2>1
      DEF WriteTorn, AppendEvent, GiveUpBatch, TypeOK, TodoIsEvents, broker
  <1>11. CASE FsyncFails
    <2>1. FaultsOK'
      BY <1>11, FaultType DEF FsyncFails, FaultKinds
    <2> QED
      BY <1>11, <2>1 DEF FsyncFails, GiveUpBatch, TypeOK, TodoIsEvents, broker, disk
  <1>12. ASSUME NEW h \in 1..Len(log), AckFails(h) PROVE TypeInv'
    <2>1. FaultsOK'
      BY <1>12, FaultType DEF AckFails, FaultKinds
    <2>2. acked' \subseteq 1..Len(log) /\ offset' \in 0..Len(log)
      BY <1>12, <1>c DEF AckFails, TypeOK
    <2> QED
      BY <1>12, <2>1, <2>2 DEF AckFails, GiveUpBatch, TypeOK, TodoIsEvents, disk
  <1>13. CASE Crash
    <2>1. FaultsOK'
      BY <1>13, FaultType DEF Crash, FaultKinds
    <2> QED
      BY <1>13, <2>1 DEF Crash, Restart, TypeOK, TodoIsEvents, broker, disk
  <1>14. CASE PowerLoss
    <2>1. FaultsOK'
      BY <1>14, FaultType DEF PowerLoss, FaultKinds
    <2> PICK keep \in [Files -> 0..MaxLines], cut \in SUBSET Files :
          /\ \A f \in Files : keep[f] \in synced[f]..Len(lines[f])
          /\ lines' = [f \in Files |-> SubSeq(lines[f], 1, keep[f])]
          /\ torn' = [f \in Files |-> f \in cut]
          /\ synced' = keep
      BY <1>14 DEF PowerLoss
    <2>2. ASSUME NEW f \in Files PROVE SubSeq(lines[f], 1, keep[f]) \in Seq(Ids \cup {Corrupt})
      <3>1. lines[f] \in Seq(Ids \cup {Corrupt}) /\ keep[f] \in Nat /\ keep[f] <= Len(lines[f])
        BY DEF TypeOK, MaxLines
      <3> QED
        BY <3>1, SubSeqProperties
    <2>3. lines' \in [Files -> Seq(Ids \cup {Corrupt})]
      BY <2>2
    <2>4. synced' \in [Files -> Nat]
      OBVIOUS
    <2>5. torn' \in [Files -> BOOLEAN]
      OBVIOUS
    <2> QED
      BY <1>14, <2>1, <2>3, <2>4, <2>5 DEF PowerLoss, Restart, TypeOK, TodoIsEvents, broker
  <1>15. CASE UNCHANGED vars
    BY <1>15 DEF vars, broker, memory, disk, TypeOK, TodoIsEvents
  <1> QED
    BY <1>1, <1>2, <1>3, <1>4, <1>5, <1>6, <1>7, <1>8, <1>9, <1>10, <1>11, <1>12,
       <1>13, <1>14, <1>15 DEF Next

\* The variables of the loop, its files and the broker keep their types
\* whatever the faults, for each of the three transports.
THEOREM TypeCorrect == Spec => []TypeOK
  <1>1. Spec => []TypeInv
    BY TypeInit, TypeStep, PTL DEF Spec
  <1>2. TypeInv => TypeOK
    BY DEF TypeInv
  <1> QED
    BY <1>1, <1>2, PTL

(***************************************************************************)
(* What is acknowledged is spooled, and fsynced unless a process died.  A  *)
(* line is firm if the disk has it, or, once a process has been restarted  *)
(* and remembers what it reads, a file at all; an event is sure if its     *)
(* line is firm, or a broken one is that may have swallowed it.  By itself *)
(* that is not inductive: an offset commit covers every record before its  *)
(* token, so the argument follows the records that a later commit will     *)
(* cover.  They are all sure except those of the current batch still       *)
(* waiting.                                                                *)
(***************************************************************************)

OnDisk(e) == \E f \in Files : \E n \in 1..synced[f] : lines[f][n] = e
InAFile(e) == \E f \in Files : Holds(f, e)
FirmLine(e) == IF faults["crash"] = 0 THEN OnDisk(e) ELSE InAFile(e)

Sure == {e \in Ids : FirmLine(e) \/ FirmLine(Corrupt)}
Firm(i) == log[i] = Junk \/ (log[i] \in Records /\ log[i].id \in Sure)
FirmOrWaiting(i) == Firm(i) \/ i \in todo

\* When that can be relied on.
Careful == NoneSkipped /\ (faults["crash"] = 0 \/ faults["power"] = 0)

FilesOK == \A f \in Files : synced[f] <= Len(lines[f])
KnownIsSure == staged \subseteq Sure /\ (~ loaded => SpooledIds \subseteq Sure)
AckedIsFirm == \A i \in acked : Firm(i)
Written(i) == Holds(PathFor(log[i]), log[i].id) \/ Holds(PathFor(log[i]), Corrupt)

Inv ==
    /\ FilesOK /\ KnownIsSure /\ AckedIsFirm
    /\ \A i \in batch : FirmOrWaiting(i)
    /\ Broker # "asapo" => \A i \in 1..offset : Firm(i)
    /\ Broker = "kafka" => \A i \in 1..position : FirmOrWaiting(i)
    /\ Broker # "asapo" => \A h \in batch : \A i \in 1..h : FirmOrWaiting(i)
    /\ pc = "fsync" => \E i \in todo : InTurn(i) /\ Written(i)
    /\ pc = "claim" => batch = {}

\* No append was ever cut short.
WholeLines == \A f \in Files : torn[f] = FALSE /\ ~Holds(f, Corrupt)

\* A step that leaves the files alone adds no event to them.
LEMMA SameFiles ==
    ASSUME lines' = lines
    PROVE  SpooledIds' = SpooledIds
  BY DEF SpooledIds, Holds

\* One that also synchronises nothing, and is no crash, makes none sure or unsure.
LEMMA SameSure ==
    ASSUME lines' = lines, synced' = synced, log' = log, faults'["crash"] = faults["crash"]
    PROVE  /\ SpooledIds' = SpooledIds /\ Sure' = Sure
           /\ \A i : Firm(i)' <=> Firm(i)
  <1>1. /\ SpooledIds' = SpooledIds
        /\ \A e : OnDisk(e)' <=> OnDisk(e)
        /\ \A e : InAFile(e)' <=> InAFile(e)
    BY DEF SpooledIds, Holds, OnDisk, InAFile
  <1>2. \A e : FirmLine(e)' <=> FirmLine(e)
    BY <1>1 DEF FirmLine
  <1>3. Sure' = Sure
    BY <1>2 DEF Sure
  <1> QED
    BY <1>1, <1>3 DEF Firm

LEMMA OtherFault ==
    ASSUME TypeInv, NEW k \in FaultKinds, k # "crash", Fault(k)
    PROVE  faults'["crash"] = faults["crash"]
  BY DEF Fault, TypeInv, TypeOK, FaultKinds

\* What is on the disk is in the files.
LEMMA SureIsSpooled ==
    ASSUME TypeInv, Inv, WholeLines
    PROVE  Sure \subseteq SpooledIds /\ (faults["crash"] = 0 => Sure \subseteq DurableIds)
  <1>1. \A f \in Files : synced[f] \in Nat /\ Len(lines[f]) \in Nat /\ synced[f] <= Len(lines[f])
    BY DEF TypeInv, TypeOK, Inv, FilesOK
  <1>2. \A e : OnDisk(e) => InAFile(e)
    BY <1>1 DEF OnDisk, InAFile, Holds
  <1>3. ~FirmLine(Corrupt)
    BY <1>2 DEF FirmLine, WholeLines, InAFile
  <1> QED
    BY <1>2, <1>3 DEF Sure, FirmLine, InAFile, OnDisk, SpooledIds, DurableIds

\* What a written line is, and where.
Appends(g, line, i) ==
    /\ g = PathFor(log[i]) /\ line = IF torn[g] THEN Corrupt ELSE log[i].id
    /\ Len(lines[g]) \in Nat /\ Len(lines'[g]) = Len(lines[g]) + 1
    /\ \A n \in 1..Len(lines[g]) : lines'[g][n] = lines[g][n]
    /\ lines'[g][Len(lines[g]) + 1] = line
    /\ \A f \in Files : f # g => lines'[f] = lines[f]

LEMMA LineAppended ==
    ASSUME TypeInv, NEW i \in todo, WriteLine(i)
    PROVE  \E g \in Files, line \in Ids \cup {Corrupt} : Appends(g, line, i)
  <1> DEFINE g == PathFor(log[i])
             line == IF torn[g] THEN Corrupt ELSE log[i].id
  <1>1. i \in 1..Len(log) /\ log[i].id \in Ids /\ g \in Files
    BY RecordFacts DEF TypeInv, TypeOK, TodoIsEvents
  <1>2. lines[g] \in Seq(Ids \cup {Corrupt})
    BY <1>1 DEF TypeInv, TypeOK
  <1>3. lines' = [lines EXCEPT ![g] = Append(lines[g], line)]
    BY DEF WriteLine
  <1>4. /\ lines'[g] = Append(lines[g], line)
        /\ \A f \in Files : f # g => lines'[f] = lines[f]
    BY <1>1, <1>3 DEF TypeInv, TypeOK
  <1>5. ASSUME NEW s \in Seq(Ids \cup {Corrupt}), NEW x \in Ids \cup {Corrupt}
        PROVE  /\ Len(s) \in Nat /\ Len(Append(s, x)) = Len(s) + 1
               /\ \A n \in 1..Len(s) : Append(s, x)[n] = s[n]
               /\ Append(s, x)[Len(s) + 1] = x
    OBVIOUS
  <1>6. line \in Ids \cup {Corrupt} /\ line = IF torn[g] THEN Corrupt ELSE log[i].id
    BY <1>1
  <1> HIDE DEF line
  <1>7. Appends(g, line, i)
    BY <1>1, <1>2, <1>4, <1>5, <1>6 DEF Appends
  <1> QED
    BY <1>1, <1>6, <1>7

\* It adds itself to its file and nothing else, and takes nothing away.
LEMMA AppendedHolds ==
    ASSUME NEW i, NEW g \in Files, NEW line, Appends(g, line, i)
    PROVE  /\ \A f \in Files : \A e : Holds(f, e) => Holds(f, e)'
           /\ \A f \in Files : \A e : Holds(f, e)' => Holds(f, e) \/ (f = g /\ e = line)
           /\ Holds(g, line)'
  <1>1. /\ Len(lines[g]) \in Nat /\ Len(lines'[g]) = Len(lines[g]) + 1
        /\ \A n \in 1..Len(lines[g]) : lines'[g][n] = lines[g][n]
        /\ lines'[g][Len(lines[g]) + 1] = line
        /\ \A f \in Files : f # g => lines'[f] = lines[f]
    BY DEF Appends
  <1>2. \A f \in Files : \A e : f # g => (Holds(f, e)' <=> Holds(f, e))
    BY <1>1 DEF Holds
  <1>3. Holds(g, line)'
    <2>1. Len(lines[g]) + 1 \in 1..Len(lines'[g])
      BY <1>1
    <2> QED
      BY <1>1, <2>1 DEF Holds
  <1>4. ASSUME NEW e, Holds(g, e) PROVE Holds(g, e)'
    BY <1>1, <1>4 DEF Holds
  <1>5. ASSUME NEW e, Holds(g, e)', e # line PROVE Holds(g, e)
    <2>1. PICK n \in 1..Len(lines'[g]) : lines'[g][n] = e
      BY <1>5 DEF Holds
    <2>2. n \in 1..Len(lines[g])
      BY <1>1, <1>5, <2>1
    <2> QED
      BY <1>1, <2>1, <2>2 DEF Holds
  <1> QED
    BY <1>2, <1>3, <1>4, <1>5

\* A written line adds exactly its event, or nothing if a fragment is in the way.
LEMMA WriteLineAdds ==
    ASSUME TypeInv, NEW i \in todo, WriteLine(i)
    PROVE  SpooledIds' = SpooledIds \cup
                            (IF torn[PathFor(log[i])] THEN {} ELSE {log[i].id})
  <1>1. PICK g \in Files, line \in Ids \cup {Corrupt} : Appends(g, line, i)
    BY LineAppended
  <1>2. /\ \A f \in Files : \A e : Holds(f, e) => Holds(f, e)'
        /\ \A f \in Files : \A e : Holds(f, e)' => Holds(f, e) \/ (f = g /\ e = line)
        /\ Holds(g, line)'
    BY <1>1, AppendedHolds
  <1>3. SpooledIds' = SpooledIds \cup ({line} \cap Ids)
    BY <1>2 DEF SpooledIds
  <1>4. log[i].id \in Ids
    BY RecordFacts DEF TypeInv, TypeOK, TodoIsEvents
  <1> QED
    BY <1>1, <1>3, <1>4, ConstantsOK DEF Appends

\* The messages waiting are consumed in the broker's order, one at a time.
LEMMA OneInTurn ==
    ASSUME TypeInv, NEW i \in todo, NEW j \in todo, InTurn(i), InTurn(j)
    PROVE  i = j
  <1>1. i \in Nat /\ j \in Nat
    BY DEF TypeInv, TypeOK
  <1> QED
    BY <1>1 DEF InTurn

\* It is in the file of its message, itself or swallowed, and what was firm is.
LEMMA WriteLineHolds ==
    ASSUME TypeInv, Inv, NEW i \in todo, WriteLine(i)
    PROVE  Written(i)' /\ Sure \subseteq Sure' /\ FilesOK'
  <1>1. PICK g \in Files, line \in Ids \cup {Corrupt} : Appends(g, line, i)
    BY LineAppended
  <1>2. /\ \A f \in Files : \A e : Holds(f, e) => Holds(f, e)'
        /\ Holds(g, line)'
    BY <1>1, AppendedHolds
  <1>3. synced' = synced /\ log' = log /\ faults' = faults
    BY DEF WriteLine, broker
  <1>4. Written(i)'
    BY <1>1, <1>2, <1>3 DEF Appends, Written, PathFor
  <1>5. \A f \in Files : /\ synced[f] \in Nat /\ synced[f] <= Len(lines[f])
                         /\ Len(lines[f]) \in Nat /\ Len(lines[f]) <= Len(lines'[f])
                         /\ Len(lines'[f]) \in Nat
                         /\ \A n \in 1..synced[f] : lines'[f][n] = lines[f][n]
    <2> TAKE f \in Files
    <2>1. synced[f] \in Nat /\ Len(lines[f]) \in Nat /\ synced[f] <= Len(lines[f])
      BY DEF TypeInv, TypeOK, Inv, FilesOK
    <2>2. /\ Len(lines[f]) <= Len(lines'[f]) /\ Len(lines'[f]) \in Nat
          /\ \A n \in 1..Len(lines[f]) : lines'[f][n] = lines[f][n]
      BY <1>1, <2>1 DEF Appends
    <2>3. 1..synced[f] \subseteq 1..Len(lines[f])
      BY <2>1
    <2> QED
      BY <2>1, <2>2, <2>3
  <1>6. FilesOK'
    BY <1>3, <1>5 DEF FilesOK
  <1>7. \A e : OnDisk(e) => OnDisk(e)'
    BY <1>3, <1>5 DEF OnDisk
  <1>8. \A e : InAFile(e) => InAFile(e)'
    BY <1>2 DEF InAFile
  <1>9. \A e : FirmLine(e) => FirmLine(e)'
    BY <1>3, <1>7, <1>8 DEF FirmLine
  <1> QED
    BY <1>4, <1>6, <1>9 DEF Sure

\* os.fsync puts the line on the disk.
LEMMA FsyncMakesSure ==
    ASSUME TypeInv, Inv, NEW i \in todo, Fsync(i)
    PROVE  Sure \cup {log[i].id} \subseteq Sure' /\ FilesOK'
  <1> DEFINE g == PathFor(log[i])
  <1>1. log[i].id \in Ids /\ g \in Files
    BY RecordFacts DEF TypeInv, TypeOK, TodoIsEvents
  <1>2. /\ lines' = lines /\ faults' = faults
        /\ synced' = [synced EXCEPT ![g] = Len(lines[g])]
    BY DEF Fsync
  <1>3. PICK e \in {log[i].id, Corrupt} : Holds(g, e)
    BY OneInTurn DEF Fsync, Inv, Written
  <1> HIDE DEF g
  <1>4. /\ synced'[g] = Len(lines[g])
        /\ \A f \in Files : f # g => synced'[f] = synced[f]
    BY <1>1, <1>2 DEF TypeInv, TypeOK
  <1>5. \A f \in Files : /\ synced[f] \in Nat /\ synced[f] <= Len(lines[f])
                         /\ Len(lines[f]) \in Nat
    BY DEF TypeInv, TypeOK, Inv, FilesOK
  <1>6. \A f \in Files : synced'[f] \in Nat /\ synced[f] <= synced'[f] /\ synced'[f] <= Len(lines'[f])
    <2> TAKE f \in Files
    <2> QED
      BY <1>2, <1>4, <1>5
  <1>7. (\A x : OnDisk(x) => OnDisk(x)') /\ OnDisk(e)'
    <2>1. \A x : OnDisk(x) => OnDisk(x)'
      BY <1>2, <1>5, <1>6 DEF OnDisk
    <2>2. OnDisk(e)'
      BY <1>1, <1>2, <1>3, <1>4 DEF OnDisk, Holds
    <2> QED
      BY <2>1, <2>2
  <1>8. (\A x : InAFile(x)' <=> InAFile(x)) /\ InAFile(e)
    BY <1>1, <1>2, <1>3 DEF InAFile, Holds
  <1>9. (\A x : FirmLine(x) => FirmLine(x)') /\ FirmLine(e)'
    BY <1>2, <1>7, <1>8 DEF FirmLine
  <1> QED
    BY <1>1, <1>6, <1>9 DEF Sure, FilesOK

LEMMA InvInit == Init => Inv
  <1> SUFFICES ASSUME Init PROVE Inv
    OBVIOUS
  <1>1. lines = [f \in Files |-> <<>>] /\ synced = [f \in Files |-> 0]
    BY DEF Init
  <1>2. FilesOK
    BY <1>1 DEF FilesOK
  <1>3. SpooledIds = {} /\ staged = {}
    BY <1>1 DEF Init, SpooledIds, Holds
  <1> QED
    BY <1>2, <1>3 DEF Init, Inv, KnownIsSure, AckedIsFirm

LEMMA WholeInit == Init => WholeLines
  BY DEF Init, WholeLines, Holds

\* A commit covers only sure records once the batch is consumed.
LEMMA CommitFirm ==
    ASSUME TypeInv, Inv, todo = {}, NEW h \in 1..Len(log), Commit(h)
    PROVE  /\ \A i \in acked' : Firm(i)
           /\ Broker # "asapo" => \A i \in 1..offset' : Firm(i)
  <1>1. h \in batch
    BY DEF Commit, EndOfBatch
  <1>2. CASE Broker = "asapo"
    BY <1>2 DEF Commit, Covered, Inv, AckedIsFirm, FirmOrWaiting
  <1>3. CASE Broker # "asapo"
    <2>1. \A i \in 1..h : Firm(i)
      BY <1>1, <1>3 DEF Inv, FirmOrWaiting
    <2>2. offset' = h /\ acked' = acked \cup 1..h
      BY <1>3 DEF Commit, Covered
    <2> QED
      BY <2>1, <2>2 DEF Inv, AckedIsFirm
  <1> QED
    BY <1>2, <1>3

\* What has the limit 0 does not happen.
LEMMA NeverHappens ==
    ASSUME TypeInv, NEW k \in FaultKinds, Never(k)
    PROVE  ~ Fault(k)
  <1>1. faults[k] \in Nat
    BY DEF TypeInv, TypeOK
  <1> QED
    BY <1>1 DEF Never, Fault

LEMMA NeverHappened ==
    ASSUME TypeInv, NEW k \in FaultKinds, Never(k)
    PROVE  faults[k] = 0
  <1>1. faults[k] \in Nat /\ faults[k] <= 0
    BY DEF TypeInv, TypeOK, Never
  <1> QED
    BY <1>1

\* What happened stays counted.
LEMMA FaultsCount ==
    ASSUME TypeInv, [Next]_vars, NEW k \in FaultKinds
    PROVE  faults[k] \in Nat /\ (faults'[k] = faults[k] \/ faults'[k] = faults[k] + 1)
  <1>1. faults \in [FaultKinds -> Nat]
    BY DEF TypeInv, TypeOK
  <1>2. ASSUME NEW j \in FaultKinds, Fault(j)
        PROVE  faults'[k] = faults[k] \/ faults'[k] = faults[k] + 1
    BY <1>1, <1>2 DEF Fault
  <1>3. faults' = faults \/ \E j \in FaultKinds : Fault(j)
    BY DEF Next, vars, broker, Publish, Claim, ClaimUndecodable, Duplicate, WriteLine, Fsync,
       Ack, Announce, WriteFails, WriteTorn, FsyncFails, AckFails, Crash, PowerLoss, Restart,
       FaultKinds
  <1> QED
    BY <1>1, <1>2, <1>3

LEMMA InvStep ==
    ASSUME Careful, Careful', TypeInv, Inv, [Next]_vars
    PROVE  Inv'
  <1>b. scene' = scene /\ Broker' = Broker
    BY SceneStays DEF Broker
  <1> USE <1>b
  <1>l. Len(log) \in Nat /\ offset \in 0..Len(log) /\ position \in 0..Len(log)
    BY DEF TypeInv, TypeOK
  <1>s. ASSUME lines' = lines, synced' = synced, log' = log,
               faults'["crash"] = faults["crash"]
        PROVE  /\ SpooledIds' = SpooledIds /\ Sure' = Sure /\ FilesOK'
               /\ \A i : Firm(i)' <=> Firm(i)
    BY <1>s, SameSure DEF FilesOK, Inv
  <1>k. Known \subseteq Sure
    BY DEF Known, Inv, KnownIsSure
  <1>1. ASSUME NEW r \in Records \cup {Junk, Garbled}, Publish(r) PROVE Inv'
    <2>1. \A i \in 1..Len(log) : log'[i] = log[i]
      BY <1>1 DEF Publish, TypeInv, TypeOK
    <2>2. SpooledIds' = SpooledIds /\ Sure' = Sure /\ FilesOK'
      BY <1>1 DEF Publish, disk, SpooledIds, Holds, OnDisk, InAFile, FirmLine, Sure, FilesOK, Inv
    <2>3. \A i \in 1..Len(log) : Firm(i)' <=> Firm(i)
      BY <2>1, <2>2 DEF Firm
    <2>4. /\ acked \subseteq 1..Len(log) /\ batch \subseteq 1..Len(log)
          /\ 1..offset \subseteq 1..Len(log) /\ 1..position \subseteq 1..Len(log)
          /\ \A h \in batch : 1..h \subseteq 1..Len(log)
          /\ todo \subseteq 1..Len(log)
      <3>1. /\ acked \subseteq 1..Len(log) /\ batch \subseteq 1..Len(log)
            /\ todo \subseteq 1..Len(log)
        BY DEF TypeInv, TypeOK
      <3>2. 1..offset \subseteq 1..Len(log) /\ 1..position \subseteq 1..Len(log)
        BY <1>l
      <3>3. ASSUME NEW h \in batch PROVE 1..h \subseteq 1..Len(log)
        BY <1>l, <3>1
      <3> QED
        BY <3>1, <3>2, <3>3
    <2>5. /\ todo' = todo /\ batch' = batch /\ position' = position /\ offset' = offset
          /\ acked' = acked /\ staged' = staged /\ loaded' = loaded /\ lines' = lines
          /\ pc' = pc
      BY <1>1 DEF Publish, memory, disk
    <2>6. \A i \in 1..Len(log) : FirmOrWaiting(i)' <=> FirmOrWaiting(i)
      BY <2>3, <2>5 DEF FirmOrWaiting
    <2>7. ASSUME pc' = "fsync"
          PROVE  (\E i \in todo : InTurn(i) /\ Written(i))'
      <3>1. PICK i \in todo : InTurn(i) /\ Written(i)
        BY <2>5, <2>7 DEF Inv
      <3>2. log'[i] = log[i] /\ i \in todo'
        BY <2>1, <2>4, <2>5
      <3>3. InTurn(i)'
        BY <2>5, <3>1 DEF InTurn
      <3>4. Written(i)'
        BY <2>5, <3>1, <3>2 DEF Written, Holds, PathFor
      <3> QED
        BY <3>2, <3>3, <3>4
    <2>8. AckedIsFirm' /\ KnownIsSure'
      BY <2>2, <2>3, <2>4, <2>5 DEF Inv, AckedIsFirm, KnownIsSure
    <2>9. \A i \in batch' : FirmOrWaiting(i)'
      BY <2>4, <2>5, <2>6 DEF Inv
    <2>10. Broker # "asapo" => \A i \in 1..offset' : Firm(i)'
      BY <2>3, <2>4, <2>5 DEF Inv
    <2>11. Broker = "kafka" => \A i \in 1..position' : FirmOrWaiting(i)'
      BY <2>4, <2>5, <2>6 DEF Inv
    <2>12. Broker # "asapo" => \A h \in batch' : \A i \in 1..h : FirmOrWaiting(i)'
      BY <2>4, <2>5, <2>6 DEF Inv
    <2> QED
      BY <2>2, <2>5, <2>7, <2>8, <2>9, <2>10, <2>11, <2>12 DEF Inv
  <1>2. CASE Claim
    <2> PICK last \in ReadFrom + 1..Len(log) :
          /\ \A i \in ReadFrom + 1..last : log[i] # Garbled
          /\ batch' = {i \in ReadFrom + 1..last : log[i] \in Records}
          /\ todo' = {i \in ReadFrom + 1..last : log[i] \in Records}
          /\ pc' = IF {i \in ReadFrom + 1..last : log[i] \in Records} = {}
                     THEN "claim" ELSE "spool"
          /\ position' = IF Broker = "kafka" THEN last ELSE position
          /\ offset' = IF Broker = "asapo" THEN last ELSE offset
      BY <1>2 DEF Claim
    <2>g. \A i \in ReadFrom + 1..last : log[i] = Junk \/ log[i] \in Records
      <3>1. ASSUME NEW i \in ReadFrom + 1..last PROVE i \in 1..Len(log)
        BY <3>1, <1>l DEF ReadFrom
      <3> QED
        BY <3>1 DEF TypeInv, TypeOK
    <2>1. ReadFrom \in Nat /\ last \in Nat /\ todo = {} /\ pc = "claim"
      BY <1>2, <1>l DEF ReadFrom, Claim, TypeInv, TodoIsEvents
    <2>2. /\ lines' = lines /\ synced' = synced /\ torn' = torn /\ log' = log
          /\ staged' = staged /\ loaded' = loaded /\ acked' = acked /\ faults' = faults
      BY <1>2 DEF Claim, disk
    <2>3. \A i : Firm(i)' <=> Firm(i)
      BY <2>2, <1>s
    <2>4. Broker # "asapo" => \A i \in 1..ReadFrom : Firm(i)
      BY <2>1 DEF Inv, ReadFrom, FirmOrWaiting
    <2>5. ASSUME Broker # "asapo", NEW i \in 1..last PROVE Firm(i) \/ i \in todo'
      <3>1. CASE i <= ReadFrom
        BY <3>1, <2>1, <2>4, <2>5
      <3>2. CASE i > ReadFrom
        BY <3>2, <2>1, <2>g DEF Firm
      <3> QED
        BY <3>1, <3>2, <2>1
    <2>6. \A h \in batch' : h \in Nat /\ h <= last
      BY <2>1
    <2>7. FilesOK' /\ KnownIsSure' /\ AckedIsFirm'
      BY <2>2, <2>3, <1>s DEF Inv, AckedIsFirm, KnownIsSure
    <2>8. Broker # "asapo" => \A h \in batch' : \A i \in 1..h : FirmOrWaiting(i)'
      BY <2>3, <2>5, <2>6, <2>1 DEF FirmOrWaiting
    <2>9. Broker = "kafka" => \A i \in 1..position' : FirmOrWaiting(i)'
      BY <2>3, <2>5 DEF FirmOrWaiting
    <2>10. Broker # "asapo" => \A i \in 1..offset' : Firm(i)'
      BY <2>3 DEF Inv
    <2> QED
      BY <2>2, <2>7, <2>8, <2>9, <2>10 DEF Inv, FirmOrWaiting
  <1>3. CASE ClaimUndecodable
    BY <1>3, <1>s DEF ClaimUndecodable, memory, disk, Inv,
       AckedIsFirm, KnownIsSure, FirmOrWaiting, InTurn
  <1>4. ASSUME NEW i \in todo, Duplicate(i) PROVE Inv'
    <2>1. /\ Firm(i) /\ lines' = lines /\ synced' = synced /\ torn' = torn /\ log' = log
          /\ faults' = faults /\ acked' = acked
      BY <1>4, <1>k DEF Duplicate, Firm, disk, broker, TypeInv, TypeOK, TodoIsEvents
    <2>2. FilesOK' /\ \A j : Firm(j)' <=> Firm(j)
      BY <2>1, <1>s
    <2>3. \A j : FirmOrWaiting(j) => FirmOrWaiting(j)'
      BY <1>4, <2>1, <2>2 DEF Duplicate, FirmOrWaiting
    <2>4. KnownIsSure' /\ AckedIsFirm'
      BY <1>4, <1>k, <2>1, <2>2, <1>s DEF Duplicate, KnownIsSure, AckedIsFirm, Inv
    <2> QED
      BY <1>4, <2>2, <2>3, <2>4 DEF Duplicate, broker, disk, Inv
  <1>5. ASSUME NEW i \in todo, WriteLine(i) PROVE Inv'
    <2>1. Written(i)' /\ Sure \subseteq Sure' /\ FilesOK'
      BY <1>5, WriteLineHolds
    <2>2. log' = log /\ faults' = faults /\ loaded' = TRUE /\ staged' = Known
      BY <1>5 DEF WriteLine, AppendEvent, broker
    <2>3. \A j : (Firm(j) => Firm(j)') /\ (FirmOrWaiting(j) => FirmOrWaiting(j)')
      BY <1>5, <2>1, <2>2 DEF WriteLine, Firm, FirmOrWaiting
    <2>4. InTurn(i)'
      BY <1>5 DEF WriteLine, AppendEvent, InTurn
    <2>5. KnownIsSure' /\ AckedIsFirm'
      BY <1>5, <1>k, <2>1, <2>2, <2>3 DEF WriteLine, broker, KnownIsSure, AckedIsFirm, Inv
    <2> QED
      BY <1>5, <2>1, <2>2, <2>3, <2>4, <2>5 DEF WriteLine, broker, Inv
  <1>6. ASSUME NEW i \in todo, Fsync(i) PROVE Inv'
    <2>1. /\ lines' = lines /\ log' = log /\ torn' = torn /\ faults' = faults
          /\ loaded' = loaded /\ staged' = staged \cup {log[i].id}
      BY <1>6 DEF Fsync, broker
    <2>2. Sure \cup {log[i].id} \subseteq Sure'
      BY <1>6, FsyncMakesSure
    <2>3. FilesOK'
      BY <1>6, FsyncMakesSure
    <2>4. Firm(i)' /\ \A j : Firm(j) => Firm(j)'
      BY <2>1, <2>2 DEF Firm, TypeInv, TypeOK, TodoIsEvents
    <2>5. \A j : FirmOrWaiting(j) => FirmOrWaiting(j)'
      BY <1>6, <2>4 DEF Fsync, FirmOrWaiting
    <2>6. KnownIsSure' /\ AckedIsFirm'
      BY <1>6, <2>1, <2>2, <2>4, SameFiles DEF Fsync, broker, KnownIsSure, AckedIsFirm, Inv
    <2> QED
      BY <1>6, <2>3, <2>4, <2>5, <2>6 DEF Fsync, broker, Inv
  <1>7. ASSUME NEW h \in 1..Len(log), Ack(h) PROVE Inv'
    <2>1. /\ todo = {} /\ Commit(h) /\ lines' = lines /\ synced' = synced /\ torn' = torn
          /\ log' = log /\ faults' = faults /\ todo' = todo
          /\ batch' = batch /\ position' = position /\ staged' = staged /\ loaded' = loaded
          /\ pc' = "announce"
      BY <1>7 DEF Ack, disk, memory
    <2>2. SpooledIds' = SpooledIds /\ Sure' = Sure /\ FilesOK' /\ \A j : Firm(j)' <=> Firm(j)
      BY <2>1, <1>s
    <2>3. AckedIsFirm' /\ (Broker # "asapo" => \A i \in 1..offset' : Firm(i)')
      BY <2>1, <2>2, CommitFirm DEF AckedIsFirm
    <2>4. KnownIsSure'
      BY <2>1, <2>2 DEF KnownIsSure, Inv
    <2> QED
      BY <2>1, <2>2, <2>3, <2>4 DEF Inv, FirmOrWaiting
  <1>8. CASE Announce
    <2>1. /\ lines' = lines /\ synced' = synced /\ torn' = torn /\ log' = log
          /\ faults' = faults
      BY <1>8 DEF Announce, broker, disk
    <2>2. SpooledIds' = SpooledIds /\ Sure' = Sure /\ FilesOK' /\ \A j : Firm(j)' <=> Firm(j)
      BY <2>1, <1>s
    <2>3. KnownIsSure' /\ AckedIsFirm'
      BY <1>8, <2>2 DEF Announce, broker, KnownIsSure, AckedIsFirm, Inv
    <2> QED
      BY <1>8, <2>2, <2>3 DEF Announce, broker, Inv, FirmOrWaiting
  \* Giving up a batch: Kafka's never has messages waiting (NoneSkipped).
  <1>g. ASSUME lines' = lines, synced' = synced, log' = log,
               NEW k \in FaultKinds, k # "crash", Fault(k), staged' \subseteq Sure,
               loaded' = TRUE \/ loaded' = loaded, GiveUpBatch,
               \A i \in acked' : Firm(i),
               Broker # "asapo" => \A i \in 1..offset' : Firm(i),
               Broker = "kafka" => todo = {}
        PROVE  Inv'
    <2>1. faults'["crash"] = faults["crash"]
      BY <1>g, OtherFault
    <2>2. SpooledIds' = SpooledIds /\ Sure' = Sure /\ FilesOK' /\ \A j : Firm(j)' <=> Firm(j)
      BY <1>g, <2>1, <1>s
    <2>3. KnownIsSure' /\ AckedIsFirm'
      BY <1>g, <2>2 DEF KnownIsSure, AckedIsFirm, Inv
    <2> QED
      BY <1>g, <2>2, <2>3 DEF GiveUpBatch, Inv, FirmOrWaiting
  <1>9. ASSUME NEW i \in todo, WriteFails(i) PROVE Inv'
    <2>1. Broker # "kafka"
      BY <1>9, NeverHappens DEF WriteFails, Careful, NoneSkipped, FaultKinds
    <2>2. /\ lines' = lines /\ synced' = synced /\ torn' = torn /\ log' = log
          /\ acked' = acked /\ offset' = offset /\ GiveUpBatch /\ Fault("nospace")
          /\ staged' \subseteq Sure /\ loaded' = TRUE
      BY <1>9, <1>k DEF WriteFails, AppendEvent, broker, disk
    <2>3. "nospace" \in FaultKinds /\ "nospace" # "crash"
      BY DEF FaultKinds
    <2> QED
      BY <2>1, <2>2, <2>3, <1>g DEF Inv, AckedIsFirm
  <1>10. ASSUME NEW i \in todo, WriteTorn(i) PROVE Inv'
    <2>1. Broker # "kafka"
      BY <1>10, NeverHappens DEF WriteTorn, Careful, NoneSkipped, FaultKinds
    <2>2. /\ lines' = lines /\ synced' = synced /\ log' = log
          /\ acked' = acked /\ offset' = offset /\ GiveUpBatch /\ Fault("torn")
          /\ staged' \subseteq Sure /\ loaded' = TRUE
      BY <1>10, <1>k DEF WriteTorn, AppendEvent, broker
    <2>3. "torn" \in FaultKinds /\ "torn" # "crash"
      BY DEF FaultKinds
    <2> QED
      BY <2>1, <2>2, <2>3, <1>g DEF Inv, AckedIsFirm
  <1>11. CASE FsyncFails
    <2>1. Broker # "kafka"
      BY <1>11, NeverHappens DEF FsyncFails, Careful, NoneSkipped, FaultKinds
    <2>2. /\ lines' = lines /\ synced' = synced /\ torn' = torn /\ log' = log
          /\ acked' = acked /\ offset' = offset /\ GiveUpBatch /\ Fault("fsync")
          /\ staged' \subseteq Sure /\ loaded' = loaded
      BY <1>11 DEF FsyncFails, broker, disk, Inv, KnownIsSure
    <2>3. "fsync" \in FaultKinds /\ "fsync" # "crash"
      BY DEF FaultKinds
    <2> QED
      BY <2>1, <2>2, <2>3, <1>g DEF Inv, AckedIsFirm
  <1>12. ASSUME NEW h \in 1..Len(log), AckFails(h) PROVE Inv'
    <2>1. /\ lines' = lines /\ synced' = synced /\ torn' = torn /\ log' = log /\ todo = {}
          /\ GiveUpBatch /\ Fault("ack") /\ staged' \subseteq Sure /\ loaded' = loaded
      BY <1>12 DEF AckFails, disk, Inv, KnownIsSure
    <2>2. "ack" \in FaultKinds /\ "ack" # "crash"
      BY DEF FaultKinds
    <2>3. CASE Commit(h)
      BY <2>1, <2>2, <2>3, <1>g, CommitFirm
    <2>4. CASE /\ UNCHANGED offset
               /\ IF Broker = "asapo" THEN \E S \in SUBSET batch : acked' = acked \cup S
                  ELSE UNCHANGED acked
      <3>1. \A i \in acked' : Firm(i)
        BY <2>1, <2>4 DEF Inv, AckedIsFirm, FirmOrWaiting
      <3>2. Broker # "asapo" => \A i \in 1..offset' : Firm(i)
        BY <2>4 DEF Inv
      <3> QED
        BY <2>1, <2>2, <3>1, <3>2, <1>g
    <2> QED
      BY <1>12, <2>3, <2>4 DEF AckFails
  \* The next process reads the files again: what is in them is sure enough.
  <1>13. CASE Crash
    <2>1. /\ lines' = lines /\ synced' = synced /\ torn' = torn /\ log' = log
          /\ acked' = acked /\ offset' = offset /\ position' = offset /\ pc' = "claim"
          /\ batch' = {} /\ staged' = {}
      BY <1>13 DEF Crash, Restart, disk, broker
    <2>2. faults'["crash"] # 0 /\ faults["power"] = 0
      BY <1>13, FaultsCount DEF Crash, Fault, TypeInv, TypeOK, FaultKinds, Careful
    <2>3. /\ SpooledIds' = SpooledIds /\ FilesOK'
          /\ \A e : InAFile(e)' <=> InAFile(e)
      BY <2>1, SameFiles DEF FilesOK, Inv, InAFile, Holds
    <2>4. \A e : FirmLine(e) => InAFile(e)
      <3>1. \A f \in Files : synced[f] \in Nat /\ Len(lines[f]) \in Nat /\ synced[f] <= Len(lines[f])
        BY DEF TypeInv, TypeOK, Inv, FilesOK
      <3> QED
        BY <3>1 DEF FirmLine, OnDisk, InAFile, Holds
    <2>5. Sure \subseteq Sure' /\ SpooledIds' \subseteq Sure'
      BY <2>2, <2>3, <2>4 DEF Sure, FirmLine, SpooledIds, InAFile
    <2>6. \A j : Firm(j) => Firm(j)'
      BY <2>1, <2>5 DEF Firm
    <2>7. KnownIsSure' /\ AckedIsFirm'
      BY <2>1, <2>5, <2>6 DEF KnownIsSure, AckedIsFirm, Inv
    <2> QED
      BY <2>1, <2>3, <2>6, <2>7 DEF Inv, FirmOrWaiting
  \* What a power loss leaves is on the disk, and all that was there.
  <1>14. CASE PowerLoss
    <2>1. /\ log' = log /\ acked' = acked /\ offset' = offset /\ position' = offset
          /\ pc' = "claim" /\ batch' = {} /\ staged' = {}
      BY <1>14 DEF PowerLoss, Restart, broker
    <2>2. faults["crash"] = 0 /\ faults'["crash"] = 0
      BY <1>14, FaultsCount DEF PowerLoss, Fault, TypeInv, TypeOK, FaultKinds, Careful
    <2>3. PICK keep \in [Files -> 0..MaxLines] :
            /\ \A f \in Files : keep[f] \in synced[f]..Len(lines[f])
            /\ lines' = [f \in Files |-> SubSeq(lines[f], 1, keep[f])]
            /\ synced' = keep
      BY <1>14 DEF PowerLoss
    <2>4. ASSUME NEW f \in Files
          PROVE  /\ Len(lines'[f]) = synced'[f] /\ synced'[f] \in Nat
                 /\ synced[f] \in Nat /\ synced[f] <= synced'[f]
                 /\ \A n \in 1..synced'[f] : lines'[f][n] = lines[f][n]
      <3>1. /\ lines[f] \in Seq(Ids \cup {Corrupt}) /\ keep[f] \in Nat /\ keep[f] <= Len(lines[f])
            /\ synced[f] \in Nat /\ synced[f] <= keep[f]
        BY <2>3 DEF TypeInv, TypeOK, MaxLines
      <3> QED
        BY <2>3, <3>1, SubSeqProperties
    <2>5. FilesOK'
      BY <2>4 DEF FilesOK
    <2>6. (\A e : OnDisk(e) => OnDisk(e)') /\ (\A e : InAFile(e)' => OnDisk(e)')
      BY <2>4 DEF OnDisk, InAFile, Holds
    <2>7. Sure \subseteq Sure' /\ SpooledIds' \subseteq Sure'
      BY <2>2, <2>6 DEF Sure, FirmLine, SpooledIds, InAFile
    <2>8. \A j : Firm(j) => Firm(j)'
      BY <2>1, <2>7 DEF Firm
    <2>9. KnownIsSure' /\ AckedIsFirm'
      BY <2>1, <2>7, <2>8 DEF KnownIsSure, AckedIsFirm, Inv
    <2> QED
      BY <2>1, <2>5, <2>8, <2>9 DEF Inv, FirmOrWaiting
  <1>15. CASE UNCHANGED vars
    <2>1. /\ lines' = lines /\ synced' = synced /\ torn' = torn /\ log' = log
          /\ faults' = faults
      BY <1>15 DEF vars, broker, disk
    <2>2. SpooledIds' = SpooledIds /\ Sure' = Sure /\ FilesOK' /\ \A j : Firm(j)' <=> Firm(j)
      BY <2>1, <1>s
    <2> QED
      BY <1>15, <2>1, <2>2 DEF vars, broker, memory, Inv, KnownIsSure, AckedIsFirm,
         FirmOrWaiting, InTurn, Written, Holds
  <1> QED
    BY <1>1, <1>2, <1>3, <1>4, <1>5, <1>6, <1>7, <1>8, <1>9, <1>10, <1>11, <1>12,
       <1>13, <1>14, <1>15 DEF Next

\* With no append cut short there is no fragment for a line to run on in.
LEMMA WholeStep ==
    ASSUME Reliable, TypeInv, WholeLines, [Next]_vars
    PROVE  WholeLines'
  <1>1. CASE \E i \in todo : WriteLine(i)
    <2> PICK i \in todo : WriteLine(i)
      BY <1>1
    <2>1. PICK g \in Files, line \in Ids \cup {Corrupt} : Appends(g, line, i)
      BY LineAppended
    <2>2. line # Corrupt
      BY <2>1, RecordFacts, ConstantsOK DEF Appends, WholeLines, TypeInv, TypeOK, TodoIsEvents
    <2>3. \A f \in Files : ~Holds(f, Corrupt)'
      BY <2>1, <2>2, AppendedHolds DEF WholeLines
    <2>4. \A f \in Files : torn'[f] = FALSE
      BY DEF WriteLine, WholeLines, TypeInv, TypeOK
    <2> QED
      BY <2>3, <2>4 DEF WholeLines
  <1>2. ~PowerLoss /\ \A i \in todo : ~WriteTorn(i)
    BY NeverHappens DEF PowerLoss, WriteTorn, Reliable, FaultKinds
  <1>3. CASE UNCHANGED <<lines, torn>>
    BY <1>3 DEF WholeLines, Holds
  <1> QED
    BY <1>1, <1>2, <1>3 DEF Next, vars, disk, Publish, Claim, ClaimUndecodable, Duplicate, Fsync,
       Ack, Announce, WriteFails, FsyncFails, AckFails, Crash

\* Where that can be relied on, what the invariant calls sure is, throughout.
Kept == TypeInv /\ (Careful => Inv) /\ (Reliable => WholeLines)

LEMMA Invariance == Spec => []Kept
  <1>1. Init => Kept
    BY TypeInit, InvInit, WholeInit DEF Kept
  <1>2. Kept /\ [Next]_vars => Kept'
    <2> SUFFICES ASSUME TypeInv, Careful => Inv, Reliable => WholeLines, [Next]_vars
                 PROVE  TypeInv' /\ (Careful' => Inv') /\ (Reliable' => WholeLines')
      BY DEF Kept
    <2>1. (NoneSkipped' <=> NoneSkipped) /\ (Reliable' <=> Reliable)
      BY SceneStays DEF Reliable, NoneSkipped, Never, Broker
    <2>2. Careful' => Careful
      <3>1. /\ faults["crash"] \in Nat /\ (faults'["crash"] = 0 => faults["crash"] = 0)
            /\ faults["power"] \in Nat /\ (faults'["power"] = 0 => faults["power"] = 0)
        <4>1. "crash" \in FaultKinds /\ "power" \in FaultKinds
          BY DEF FaultKinds
        <4>2. /\ faults["crash"] \in Nat
              /\ faults'["crash"] = faults["crash"] \/ faults'["crash"] = faults["crash"] + 1
          BY <4>1, FaultsCount
        <4>3. /\ faults["power"] \in Nat
              /\ faults'["power"] = faults["power"] \/ faults'["power"] = faults["power"] + 1
          BY <4>1, FaultsCount
        <4> QED
          BY <4>2, <4>3
      <3> QED
        BY <2>1, <3>1 DEF Careful
    <2> QED
      BY <2>1, <2>2, TypeStep, InvStep, WholeStep
  <1> QED
    BY <1>1, <1>2, PTL DEF Spec

\* In a reliable scene what is sure is in a file, and on the disk while no
\* process has died.
LEMMA ReliableIsCareful ==
    ASSUME Kept, Reliable
    PROVE  /\ TypeInv /\ Inv
           /\ Sure \subseteq SpooledIds /\ (faults["crash"] = 0 => Sure \subseteq DurableIds)
  <1>1. faults["power"] = 0
    BY NeverHappened DEF Kept, Reliable, FaultKinds
  <1>2. TypeInv /\ Inv /\ WholeLines
    BY <1>1 DEF Kept, Careful, Reliable
  <1> QED
    BY <1>2, SureIsSpooled

\* No acknowledged message is missing from the spool files: with disks that
\* fail, acknowledgements that get lost and processes that die at any step.
THEOREM AckedStaysSpooled == Spec => []AckedIsSpooled
  <1>1. Kept => AckedIsSpooled
    BY ReliableIsCareful DEF Inv, AckedIsFirm, Firm, AckedIsSpooled, SpooledBeforeAcked, Settled
  <1> QED
    BY <1>1, Invariance, PTL

\* As long as no process died, its line has been fsynced (spool.py:92), so a
\* power loss would leave it: an event is remembered, and hence acknowledged as
\* a duplicate, only after the fsync.
THEOREM AckedStaysDurable == Spec => []DurableUnlessRestarted
  <1>1. Kept => DurableUnlessRestarted
    BY ReliableIsCareful DEF Inv, AckedIsFirm, Firm, DurableUnlessRestarted
  <1> QED
    BY <1>1, Invariance, PTL

\* The dedup set is never ahead of the files, so no retry is dropped.
THEOREM StagedStaysSpooled == Spec => []StagedIsSpooled
  <1>1. Kept => StagedIsSpooled
    BY ReliableIsCareful DEF Inv, KnownIsSure, StagedIsSpooled
  <1> QED
    BY <1>1, Invariance, PTL

\* Where appends are cut short and power is lost, an acknowledged event is in a
\* file, or there is a line no strict reader accepts: unless a process died
\* between the two.
THEOREM LossesLeaveATrace == Spec => []LossLeavesATrace
  <1>1. Kept => LossLeavesATrace
    <2> SUFFICES ASSUME Kept, Careful PROVE SpooledBeforeAcked \/ \E f \in Files : Holds(f, Corrupt)
      BY DEF LossLeavesATrace, Careful
    <2>1. TypeInv /\ Inv
      BY DEF Kept
    <2>2. \A f \in Files : synced[f] \in Nat /\ Len(lines[f]) \in Nat /\ synced[f] <= Len(lines[f])
      BY <2>1 DEF TypeInv, TypeOK, Inv, FilesOK
    <2>3. \A e : FirmLine(e) => InAFile(e)
      BY <2>2 DEF FirmLine, OnDisk, InAFile, Holds
    <2> QED
      BY <2>1, <2>3 DEF Inv, AckedIsFirm, Firm, Sure, SpooledBeforeAcked, Settled, SpooledIds, InAFile
  <1> QED
    BY <1>1, Invariance, PTL

(***************************************************************************)
(* One line per event.  A line is appended only for an event that no file  *)
(* holds, or that the process does not remember: and it remembers all it   *)
(* wrote but what an fsync refused.  A power loss only takes lines.        *)
(***************************************************************************)

\* Where the files hold an event.
Copied(e) == {x \in Files \X Nat : x[2] \in 1..Len(lines[x[1]]) /\ lines[x[1]][x[2]] = e}

\* Its line is written and not yet synchronised.
BeingWritten(e) == pc = "fsync" /\ \E i \in todo : InTurn(i) /\ log[i].id = e

\* What is neither remembered nor being written has a line for each append
\* whose fsync failed, and no other.
CopyInv ==
    \A e \in Ids :
        /\ IsFiniteSet(Copied(e)) /\ Cardinality(Copied(e)) <= 1 + faults["fsync"]
        /\ loaded /\ e \notin staged /\ ~BeingWritten(e) =>
              Cardinality(Copied(e)) <= faults["fsync"]

\* The initial files are empty.
LEMMA CopyInit == Init => CopyInv
  <1> SUFFICES ASSUME Init, NEW e \in Ids
               PROVE  /\ IsFiniteSet(Copied(e)) /\ Cardinality(Copied(e)) = 0
                      /\ faults["fsync"] = 0
    BY DEF CopyInv
  <1>1. \A f \in Files : Len(lines[f]) = 0
    BY DEF Init
  <1>2. Copied(e) = {}
    BY <1>1 DEF Copied
  <1>3. faults["fsync"] = 0
    BY DEF Init, FaultKinds
  <1> QED
    BY <1>2, <1>3, FS_EmptySet

\* A part of the copies is no more than they are.
LEMMA FewerCopies ==
    ASSUME NEW S, IsFiniteSet(S), NEW T, T \subseteq S, NEW k \in Nat, Cardinality(S) <= k
    PROVE  IsFiniteSet(T) /\ Cardinality(T) <= k
  BY FS_Subset, FS_CardinalityType

\* One more place is at most one more copy.
LEMMA OneMoreCopy ==
    ASSUME NEW S, IsFiniteSet(S), NEW x, NEW T, T \subseteq S \cup {x},
           NEW k \in Nat, Cardinality(S) <= k
    PROVE  IsFiniteSet(T) /\ Cardinality(T) <= 1 + k
  <1>1. /\ IsFiniteSet(S \cup {x})
        /\ Cardinality(S \cup {x}) = IF x \in S THEN Cardinality(S) ELSE Cardinality(S) + 1
    BY FS_AddElement
  <1>2. Cardinality(S \cup {x}) <= 1 + k
    BY <1>1, FS_CardinalityType
  <1> QED
    BY <1>1, <1>2, FewerCopies

\* A written line is one more place for its event and none for another.
LEMMA WriteLineCopies ==
    ASSUME TypeInv, NEW i \in todo, WriteLine(i), NEW e \in Ids
    PROVE  /\ Copied(e)' \subseteq Copied(e) \cup {<<PathFor(log[i]), Len(lines[PathFor(log[i])]) + 1>>}
           /\ e # log[i].id => Copied(e)' \subseteq Copied(e)
  <1>1. PICK g \in Files : g = PathFor(log[i])
    BY RecordFacts DEF TypeInv, TypeOK, TodoIsEvents
  <1>2. PICK line \in {Corrupt, log[i].id} : lines' = [lines EXCEPT ![g] = Append(@, line)]
    BY <1>1 DEF WriteLine
  <1>3. lines[g] \in Seq(Ids \cup {Corrupt}) /\ log[i].id \in Ids
    BY RecordFacts DEF TypeInv, TypeOK, TodoIsEvents
  <1>4. /\ lines'[g] = Append(lines[g], line)
        /\ \A f \in Files : f # g => lines'[f] = lines[f]
    BY <1>2 DEF TypeInv, TypeOK
  <1>5. /\ Len(lines[g]) \in Nat /\ Len(lines'[g]) = Len(lines[g]) + 1
        /\ \A n \in 1..Len(lines[g]) : lines'[g][n] = lines[g][n]
        /\ lines'[g][Len(lines[g]) + 1] = line
    BY <1>3, <1>4
  <1>6. ASSUME NEW x \in Copied(e)' PROVE x \in Copied(e) \/ (x = <<g, Len(lines[g]) + 1>> /\ line = e)
    <2>1. /\ x \in Files \X Nat /\ x[1] \in Files /\ x = <<x[1], x[2]>>
          /\ x[2] \in 1..Len(lines'[x[1]]) /\ lines'[x[1]][x[2]] = e
      BY DEF Copied
    <2>2. CASE x[1] # g
      BY <1>4, <2>1, <2>2 DEF Copied
    <2>3. CASE x[1] = g /\ x[2] \in 1..Len(lines[g])
      BY <1>5, <2>1, <2>3 DEF Copied
    <2>4. CASE x[1] = g /\ x[2] = Len(lines[g]) + 1
      BY <1>5, <2>1, <2>4
    <2> QED
      BY <1>5, <2>1, <2>2, <2>3, <2>4
  <1>7. e # Corrupt
    BY ConstantsOK
  <1> QED
    BY <1>1, <1>6, <1>7

\* No step copies an event that is remembered.
LEMMA CopyStep == TypeInv /\ CopyInv /\ [Next]_vars => CopyInv'
  <1> SUFFICES ASSUME TypeInv, CopyInv, [Next]_vars PROVE CopyInv'
    OBVIOUS
  <1>t. /\ faults \in [FaultKinds -> Nat] /\ "fsync" \in FaultKinds /\ faults["fsync"] \in Nat
        /\ log \in Seq(Records \cup {Junk, Garbled}) /\ todo \subseteq 1..Len(log) /\ Len(log) \in Nat
        /\ \A x, y \in todo : InTurn(x) /\ InTurn(y) => x = y
    BY DEF TypeInv, TypeOK, FaultKinds, InTurn
  <1>k. ASSUME NEW e \in Ids, e \notin Known, ~BeingWritten(e)
        PROVE  Cardinality(Copied(e)) <= faults["fsync"]
    <2>1. CASE loaded
      BY <1>k, <2>1 DEF Known, CopyInv
    <2>2. CASE ~loaded
      <3>1. \A f \in Files : ~Holds(f, e)
        BY <1>k, <2>2 DEF Known, SpooledIds
      <3>2. Copied(e) = {}
        BY <3>1 DEF Copied, Holds
      <3> QED
        BY <3>2, <1>t, FS_EmptySet
    <2> QED
      BY <2>1, <2>2
  \* steps that write nothing and forget nothing they remembered
  <1>s. ASSUME lines' = lines, faults'["fsync"] = faults["fsync"],
               \A e \in Ids : loaded' /\ e \notin staged' /\ ~BeingWritten(e)'
                                 => e \notin Known /\ ~BeingWritten(e)
        PROVE  CopyInv'
    <2>1. \A e : Copied(e)' = Copied(e)
      BY <1>s DEF Copied
    <2> QED
      BY <1>k, <1>s, <2>1 DEF CopyInv
  <1>f. ASSUME NEW k \in FaultKinds, k # "fsync", Fault(k)
        PROVE  faults'["fsync"] = faults["fsync"]
    BY <1>f, <1>t DEF Fault
  <1>1. ASSUME NEW r \in Records \cup {Junk, Garbled}, Publish(r) PROVE CopyInv'
    <2>1. \A i \in 1..Len(log) : log'[i] = log[i]
      BY <1>1, <1>t DEF Publish
    <2>2. \A e : BeingWritten(e)' <=> BeingWritten(e)
      BY <1>1, <1>t, <2>1 DEF Publish, memory, BeingWritten, InTurn
    <2> QED
      BY <1>1, <1>s, <2>2 DEF Publish, memory, disk, Known
  <1>2. CASE Claim \/ ClaimUndecodable \/ Announce \/ \E h \in 1..Len(log) : Ack(h)
    BY <1>2, <1>s DEF Claim, ClaimUndecodable, Announce, Ack, memory, disk, broker, Known, BeingWritten
  <1>3. ASSUME NEW i \in todo, Duplicate(i) PROVE CopyInv'
    BY <1>3, <1>s DEF Duplicate, disk, BeingWritten
  <1>4. ASSUME NEW i \in todo, WriteLine(i) PROVE CopyInv'
    <2>1. /\ pc = "spool" /\ InTurn(i) /\ log[i].id \notin Known
          /\ loaded' = TRUE /\ staged' = Known /\ faults' = faults
          /\ pc' = "fsync" /\ todo' = todo /\ log' = log
      BY <1>4 DEF WriteLine, AppendEvent, broker
    <2>2. BeingWritten(log[i].id)' /\ \A e : ~BeingWritten(e)
      BY <2>1 DEF BeingWritten, InTurn
    <2> SUFFICES ASSUME NEW e \in Ids
                 PROVE  /\ IsFiniteSet(Copied(e)') /\ Cardinality(Copied(e)') <= 1 + faults["fsync"]
                        /\ e \notin Known /\ e # log[i].id => Cardinality(Copied(e)') <= faults["fsync"]
      BY <2>1, <2>2 DEF CopyInv
    <2>3. IsFiniteSet(Copied(e)) /\ Cardinality(Copied(e)) <= 1 + faults["fsync"]
      BY DEF CopyInv
    <2>4. CASE e = log[i].id
      <3>1. Cardinality(Copied(e)) <= faults["fsync"]
        BY <1>k, <2>1, <2>2, <2>4
      <3>2. Copied(e)' \subseteq Copied(e) \cup {<<PathFor(log[i]), Len(lines[PathFor(log[i])]) + 1>>}
        BY <1>4, WriteLineCopies
      <3> QED
        BY <1>t, <2>3, <2>4, <3>1, <3>2, OneMoreCopy
    <2>5. CASE e # log[i].id
      <3>1. Copied(e)' \subseteq Copied(e)
        BY <1>4, <2>5, WriteLineCopies
      <3>2. 1 + faults["fsync"] \in Nat
        BY <1>t
      <3>3. IsFiniteSet(Copied(e)') /\ Cardinality(Copied(e)') <= 1 + faults["fsync"]
        BY <2>3, <3>1, <3>2, FewerCopies
      <3>4. e \notin Known => Cardinality(Copied(e)') <= faults["fsync"]
        BY <1>k, <1>t, <2>2, <2>3, <3>1, FewerCopies
      <3> QED
        BY <3>3, <3>4
    <2> QED
      BY <2>4, <2>5
  <1>5. ASSUME NEW i \in todo, Fsync(i) PROVE CopyInv'
    <2>1. /\ InTurn(i) /\ staged' = staged \cup {log[i].id} /\ loaded' = loaded
          /\ lines' = lines /\ faults' = faults
      BY <1>5 DEF Fsync
    <2>2. \A e : BeingWritten(e) => e = log[i].id
      BY <1>t, <2>1 DEF BeingWritten
    <2> QED
      BY <1>s, <2>1, <2>2 DEF Known
  <1>6. ASSUME NEW i \in todo, WriteFails(i) \/ WriteTorn(i) PROVE CopyInv'
    <2>1. /\ pc = "spool" /\ staged' = Known /\ lines' = lines
          /\ Fault("nospace") \/ Fault("torn")
      BY <1>6 DEF WriteFails, WriteTorn, AppendEvent, disk
    <2>2. faults'["fsync"] = faults["fsync"]
      BY <1>f, <2>1 DEF FaultKinds
    <2> QED
      BY <1>s, <2>1, <2>2 DEF BeingWritten
  <1>7. CASE FsyncFails
    <2>1. lines' = lines /\ faults'["fsync"] = faults["fsync"] + 1
      BY <1>7, <1>t DEF FsyncFails, Fault, disk
    <2>2. \A e : Copied(e)' = Copied(e)
      BY <2>1 DEF Copied
    <2> SUFFICES ASSUME NEW e \in Ids
                 PROVE  /\ IsFiniteSet(Copied(e))
                        /\ Cardinality(Copied(e)) <= 1 + (faults["fsync"] + 1)
                        /\ Cardinality(Copied(e)) <= faults["fsync"] + 1
      BY <2>1, <2>2 DEF CopyInv
    <2>3. IsFiniteSet(Copied(e)) /\ Cardinality(Copied(e)) <= 1 + faults["fsync"]
      BY DEF CopyInv
    <2> QED
      BY <1>t, <2>3, FS_CardinalityType
  <1>8. CASE \E h \in 1..Len(log) : AckFails(h)
    <2>1. /\ pc = "spool" /\ staged' = staged /\ loaded' = loaded /\ lines' = lines
          /\ Fault("ack")
      BY <1>8 DEF AckFails, disk
    <2>2. faults'["fsync"] = faults["fsync"]
      BY <1>f, <2>1 DEF FaultKinds
    <2> QED
      BY <1>s, <2>1, <2>2 DEF BeingWritten, Known
  <1>9. CASE Crash
    <2>1. loaded' = FALSE /\ lines' = lines /\ Fault("crash")
      BY <1>9 DEF Crash, Restart, disk
    <2>2. faults'["fsync"] = faults["fsync"]
      BY <1>f, <2>1 DEF FaultKinds
    <2> QED
      BY <1>s, <2>1, <2>2
  <1>10. CASE PowerLoss
    <2>1. loaded' = FALSE /\ Fault("power")
      BY <1>10 DEF PowerLoss, Restart
    <2>2. faults'["fsync"] = faults["fsync"]
      BY <1>f, <2>1 DEF FaultKinds
    <2>3. PICK keep \in [Files -> 0..MaxLines] :
            /\ \A f \in Files : keep[f] \in synced[f]..Len(lines[f])
            /\ lines' = [f \in Files |-> SubSeq(lines[f], 1, keep[f])]
      BY <1>10 DEF PowerLoss
    <2>4. ASSUME NEW f \in Files
          PROVE  /\ Len(lines'[f]) = keep[f] /\ keep[f] \in Nat /\ keep[f] <= Len(lines[f])
                 /\ \A n \in 1..keep[f] : lines'[f][n] = lines[f][n]
      <3>1. lines[f] \in Seq(Ids \cup {Corrupt}) /\ keep[f] \in Nat /\ keep[f] <= Len(lines[f])
        BY <2>3 DEF TypeInv, TypeOK, MaxLines
      <3> QED
        BY <2>3, <3>1, SubSeqProperties
    <2>5. ASSUME NEW e \in Ids PROVE Copied(e)' \subseteq Copied(e)
      BY <2>4 DEF Copied
    <2> SUFFICES ASSUME NEW e \in Ids
                 PROVE  IsFiniteSet(Copied(e)') /\ Cardinality(Copied(e)') <= 1 + faults["fsync"]
      BY <2>1, <2>2 DEF CopyInv
    <2>6. /\ IsFiniteSet(Copied(e)) /\ Cardinality(Copied(e)) <= 1 + faults["fsync"]
          /\ 1 + faults["fsync"] \in Nat
      BY <1>t DEF CopyInv
    <2> QED
      BY <2>5, <2>6, FewerCopies
  <1>11. CASE UNCHANGED vars
    BY <1>11, <1>s DEF vars, broker, memory, disk, Known, BeingWritten, InTurn
  <1> QED
    BY <1>1, <1>2, <1>3, <1>4, <1>5, <1>6, <1>7, <1>8, <1>9, <1>10, <1>11 DEF Next

\* However messages are delivered again, published again under another campaign
\* or consumed after a restart, an event has one line in all the files, and one
\* more for each append whose fsync failed.
THEOREM EventsAreNotRepeated == Spec => []OneLinePerEvent
  <1>1. TypeInv /\ CopyInv => OneLinePerEvent
    <2> SUFFICES ASSUME TypeInv, CopyInv, NEW e \in Ids PROVE Copies(e) <= 1 + faults["fsync"]
      BY DEF OneLinePerEvent
    <2>1. PICK C : C = {x \in Files \X (1..MaxLines) :
                           x[2] <= Len(lines[x[1]]) /\ lines[x[1]][x[2]] = e}
      OBVIOUS
    <2>2. C \subseteq Copied(e)
      <3>1. \A f \in Files : Len(lines[f]) \in Nat
        BY DEF TypeInv, TypeOK
      <3>2. 1..MaxLines \subseteq Nat
        BY ConstantsOK DEF MaxLines
      <3> QED
        BY <2>1, <3>1, <3>2 DEF Copied
    <2>3. IsFiniteSet(Copied(e)) /\ Cardinality(Copied(e)) <= 1 + faults["fsync"]
      BY DEF CopyInv
    <2>4. 1 + faults["fsync"] \in Nat
      BY DEF TypeInv, TypeOK, FaultKinds
    <2> QED
      BY <2>1, <2>2, <2>3, <2>4, FewerCopies DEF Copies
  <1> QED
    BY <1>1, TypeInit, TypeStep, CopyInit, CopyStep, PTL DEF Spec

(***************************************************************************)
(* The loop implements DurableSpool.                                       *)
(***************************************************************************)

LEMMA PromiseInit == Init => Promise!Init
  BY DEF Init, Promise!Init, SpooledIds, Holds, Reliable

\* What a power loss leaves are prefixes of the files.
LEMMA PowerLossKeepsNoOther ==
    ASSUME TypeInv, PowerLoss
    PROVE  SpooledIds' \subseteq SpooledIds
  <1> PICK keep \in [Files -> 0..MaxLines] :
        /\ \A f \in Files : keep[f] \in synced[f]..Len(lines[f])
        /\ lines' = [f \in Files |-> SubSeq(lines[f], 1, keep[f])]
    BY DEF PowerLoss
  <1>1. ASSUME NEW e \in Ids, NEW f \in Files, Holds(f, e)' PROVE Holds(f, e)
    <2>1. lines[f] \in Seq(Ids \cup {Corrupt}) /\ keep[f] \in Nat /\ keep[f] <= Len(lines[f])
      BY DEF TypeInv, TypeOK, MaxLines
    <2>2. /\ Len(lines'[f]) = keep[f]
          /\ \A n \in 1..keep[f] : lines'[f][n] = lines[f][n]
      BY <2>1, SubSeqProperties
    <2>3. PICK n \in 1..keep[f] : lines'[f][n] = e
      BY <1>1, <2>2 DEF Holds
    <2>4. n \in 1..Len(lines[f])
      BY <2>1
    <2> QED
      BY <2>2, <2>3, <2>4 DEF Holds
  <1> QED
    BY <1>1 DEF SpooledIds

promised == <<Reliable, log, SpooledIds, acked>>

LEMMA PromiseStep ==
    ASSUME Kept, [Next]_vars
    PROVE  [Promise!Next]_promised
  <1>r. scene' = scene /\ Reliable' = Reliable
    BY SceneStays DEF Reliable, NoneSkipped, Never, Broker
  <1>t. TypeInv
    BY DEF Kept
  <1> USE <1>r, <1>t DEF promised
  <1>s. ASSUME lines' = lines, log' = log
        PROVE  SpooledIds' = SpooledIds
    BY <1>s, SameFiles
  <1>0. ASSUME lines' = lines, log' = log, acked' = acked
        PROVE  [Promise!Next]_promised
    BY <1>0, <1>s
  \* A set of offsets may be acknowledged, of settled ones if that is promised.
  <1>a. ASSUME lines' = lines, log' = log, NEW S \in SUBSET (1..Len(log)),
               acked' = acked \cup S, Reliable => \A i \in S : Settled(i)
        PROVE  [Promise!Next]_promised
    <2>1. Promise!Acknowledge(S)
      BY <1>a, <1>s DEF Promise!Acknowledge, Promise!Settled, Settled
    <2> QED
      BY <2>1 DEF Promise!Next
  <1>c. ASSUME lines' = lines, log' = log, todo = {}, NEW h \in 1..Len(log), Commit(h)
        PROVE  [Promise!Next]_promised
    <2>1. Covered(h) \in SUBSET (1..Len(log)) /\ acked' = acked \cup Covered(h)
      BY <1>c DEF Commit, Covered, TypeInv, TypeOK
    <2>2. Reliable => \A i \in Covered(h) : Settled(i)
      BY <2>1, <1>c, CommitFirm, ReliableIsCareful DEF Firm, Settled
    <2> QED
      BY <2>1, <2>2, <1>a, <1>c
  <1>1. ASSUME NEW r \in Records \cup {Junk, Garbled}, Publish(r)
        PROVE  [Promise!Next]_promised
    <2>1. SpooledIds' = SpooledIds
      BY <1>1 DEF Publish, disk, SpooledIds, Holds
    <2>2. Promise!Publish(r)
      BY <1>1, <2>1 DEF Publish, Promise!Publish
    <2> QED
      BY <2>2 DEF Promise!Next
  <1>2. CASE Claim \/ ClaimUndecodable
    BY <1>2, <1>0 DEF Claim, ClaimUndecodable, disk
  <1>3. ASSUME NEW i \in todo, Duplicate(i) \/ Fsync(i)
        PROVE  [Promise!Next]_promised
    BY <1>3, <1>0 DEF Duplicate, Fsync, disk, broker
  <1>4. ASSUME NEW i \in todo, WriteLine(i)
        PROVE  [Promise!Next]_promised
    <2>1. SpooledIds' = SpooledIds \cup {log[i].id} \/ SpooledIds' = SpooledIds
      BY <1>4, WriteLineAdds
    <2>2. i \in 1..Len(log) /\ log[i] \in Records
      BY DEF TypeInv, TypeOK, TodoIsEvents
    <2>3. Promise!Accept(i) \/ UNCHANGED promised
      BY <1>4, <2>1, <2>2 DEF WriteLine, broker, Promise!Accept
    <2> QED
      BY <2>2, <2>3 DEF Promise!Next
  <1>5. ASSUME NEW h \in 1..Len(log), Ack(h)
        PROVE  [Promise!Next]_promised
    BY <1>5, <1>c DEF Ack, disk
  <1>6. CASE Announce
    BY <1>6, <1>0 DEF Announce, broker, disk
  <1>7. ASSUME NEW i \in todo, WriteFails(i) \/ WriteTorn(i)
        PROVE  [Promise!Next]_promised
    BY <1>7, <1>0 DEF WriteFails, WriteTorn, broker, disk
  <1>8. CASE FsyncFails
    BY <1>8, <1>0 DEF FsyncFails, broker, disk
  <1>9. ASSUME NEW h \in 1..Len(log), AckFails(h)
        PROVE  [Promise!Next]_promised
    <2>1. lines' = lines /\ log' = log /\ todo = {}
      BY <1>9 DEF AckFails, disk
    <2>2. CASE Commit(h)
      BY <2>1, <2>2, <1>c
    <2>3. CASE IF Broker = "asapo" THEN \E S \in SUBSET batch : acked' = acked \cup S
               ELSE UNCHANGED acked
      <3>1. CASE Broker = "asapo"
        <4>1. PICK S \in SUBSET batch : acked' = acked \cup S
          BY <2>3, <3>1
        <4>2. S \in SUBSET (1..Len(log)) /\ (Reliable => \A i \in S : Settled(i))
          BY <2>1, ReliableIsCareful DEF Inv, FirmOrWaiting, Firm, Settled, TypeInv, TypeOK
        <4> QED
          BY <2>1, <4>1, <4>2, <1>a
      <3>2. CASE Broker # "asapo"
        BY <2>1, <2>3, <3>2, <1>0
      <3> QED
        BY <3>1, <3>2
    <2> QED
      BY <1>9, <2>2, <2>3 DEF AckFails
  <1>10. CASE Crash
    BY <1>10, <1>0 DEF Crash, Restart, broker, disk
  <1>11. CASE PowerLoss
    <2>1. ~ Reliable
      <3>1. faults["power"] \in Nat /\ faults["power"] < scene.limit["power"]
        BY <1>11 DEF PowerLoss, Fault, TypeInv, TypeOK, FaultKinds
      <3> QED
        BY <3>1 DEF Reliable, Never
    <2>2. SpooledIds' \in SUBSET SpooledIds
      BY <1>11, PowerLossKeepsNoOther
    <2>3. Promise!Lose(SpooledIds')
      BY <1>11, <2>1 DEF PowerLoss, Restart, broker, Promise!Lose
    <2> QED
      BY <2>2, <2>3 DEF Promise!Next
  <1>12. CASE UNCHANGED vars
    BY <1>12, <1>0 DEF vars, broker, disk
  <1> QED
    BY <1>1, <1>2, <1>3, <1>4, <1>5, <1>6, <1>7, <1>8, <1>9, <1>10, <1>11, <1>12
    DEF Next

\* Every behaviour of the loop is one of the promise: in a reliable scene an
\* event once spooled stays spooled, and acknowledgements follow the files.
THEOREM LoopKeepsPromise == Spec => KeepsPromise
  <1>1. Init => Promise!Init
    BY PromiseInit
  <1>2. Kept /\ [Next]_vars => [Promise!Next]_promised
    BY PromiseStep
  <1>3. Spec => []Kept
    BY Invariance
  <1> QED
    BY <1>1, <1>2, <1>3, PTL DEF Spec, KeepsPromise, Promise!Spec, promised
=============================================================================
