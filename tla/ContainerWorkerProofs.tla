----------------------- MODULE ContainerWorkerProofs -----------------------
(***************************************************************************)
(* For any shots, workers and budgets: no request for a conversion is      *)
(* lost, and what an overtaken worker renames into place late never comes  *)
(* under a successor that looks; both rest on who may hold the lock.  Then *)
(* what is in place: an undisturbed pass brings it up to date, and when    *)
(* everybody rests it agrees with the master and its links.  That rests on *)
(* how old records and containers are, on the shots a pass has dealt with, *)
(* and on who owes a pass or a build.                                      *)
(***************************************************************************)
EXTENDS ContainerWorker, TLAPS

\* Where a worker can be.
PCs == {"idle", "outer", "inner", "read", "pass", "write", "rename", "beat", "flush",
        "move", "release", "judge"}

\* Where a worker has the lock, unless it was overtaken.
Critical == InPass \cup {"inner", "read", "release"}

\* What the two arguments need of the types.
Roles ==
    /\ pc \in [Workers -> PCs] /\ lock \in Workers \cup {None}
    /\ temps \subseteq Workers
    /\ pending \in BOOLEAN /\ unserved \in BOOLEAN

\* The lock names a worker that is at work under it.
LockIsAtWork == lock # None => pc[lock] \in Critical

\* Temps are of workers about to rename, and of nobody else but the holder once
\* the holder's pass has begun.
TempsAreOwn ==
    /\ \A w \in temps : pc[w] = "rename"
    /\ lock # None /\ pc[lock] \in InPass => \A w \in temps : w = lock

\* Nobody is at work without the lock; a request has somebody who will see it.
RequestsAreSeen ==
    Smooth =>
      /\ \A w \in Workers : pc[w] \in Critical => lock = w
      /\ pending => lock # None \/ \E w \in Workers : pc[w] = "outer"
      /\ unserved => pending \/ \E w \in Workers : pc[w] = "read"

IInv == Roles /\ LockIsAtWork /\ TempsAreOwn /\ RequestsAreSeen
-----------------------------------------------------------------------------
\* None is nobody.
LEMMA NoneIsNobody == None \notin Workers
  BY ConstantsOK

\* A fault is remembered.
LEMMA SpendIsRemembered ==
    ASSUME NEW what \in Outside, Spend(what)
    PROVE  /\ faults \subseteq faults'
           /\ what \in {"crash", "fail", "overtake"} => faults' # {}
  BY DEF Spend

\* The initial states.
LEMMA InitInv == Init => IInv
  <1> SUFFICES ASSUME Init PROVE IInv
    OBVIOUS
  <1>1. Roles /\ LockIsAtWork
    BY DEF Init, Roles, LockIsAtWork, PCs
  <1>2. TempsAreOwn
    BY DEF Init, TempsAreOwn
  <1>3. RequestsAreSeen
    BY DEF Init, RequestsAreSeen, Critical, InPass
  <1> QED
    BY <1>1, <1>2, <1>3 DEF IInv

\* A step that touches neither lock, request nor worker keeps all of it.
LEMMA Elsewhere ==
    ASSUME IInv, UNCHANGED <<pc, lock, temps, pending, unserved>>, faults \subseteq faults'
    PROVE  IInv'
  BY DEF IInv, Roles, LockIsAtWork, TempsAreOwn, RequestsAreSeen, Smooth

\* A worker that goes from one place under the lock to another keeps it, whether
\* or not it still has the lock; from "read" and into a pass it goes otherwise.
LEMMA MovesOn ==
    ASSUME IInv, NEW w \in Workers, NEW p \in PCs,
           Go(w, p), pc[w] \in Critical \ {"read"}, p \in Critical,
           pc[w] \in InPass \/ p \notin InPass,
           UNCHANGED <<lock, unserved>>, pending => pending', pending' \in BOOLEAN,
           faults \subseteq faults',
           temps' \subseteq Workers, \A v \in temps' : v \in temps \/ (v = w /\ lock = w),
           \A v \in temps' : v = w => p = "rename"
    PROVE  IInv'
  <1>1. pc' \in [Workers -> PCs] /\ pc'[w] = p /\ \A v \in Workers \ {w} : pc'[v] = pc[v]
    BY DEF Go, IInv, Roles
  <1>2. Roles' /\ LockIsAtWork'
    BY <1>1 DEF IInv, Roles, LockIsAtWork
  <1>3. TempsAreOwn'
    <2>1. \A v \in temps' : pc'[v] = "rename"
      BY <1>1 DEF IInv, TempsAreOwn
    <2>2. ASSUME lock # None, pc'[lock] \in InPass, NEW v \in temps' PROVE v = lock
      <3>1. pc[lock] \in InPass
        BY <2>2, <1>1 DEF IInv, Roles
      <3> QED
        BY <3>1, <2>2 DEF IInv, TempsAreOwn
    <2> QED
      BY <2>1, <2>2 DEF TempsAreOwn
  <1>4. RequestsAreSeen'
    <2> SUFFICES ASSUME faults' = {} PROVE RequestsAreSeen'
      BY DEF RequestsAreSeen, Smooth
    <2>1. Smooth
      BY DEF Smooth
    <2>2. lock = w
      BY <2>1 DEF IInv, RequestsAreSeen
    <2>3. \A v \in Workers : pc'[v] \in Critical => lock' = v
      BY <2>1, <2>2, <1>1 DEF IInv, RequestsAreSeen
    <2>4. unserved => pending' \/ \E v \in Workers : pc'[v] = "read"
      <3>1. ASSUME NEW v \in Workers, pc[v] = "read" PROVE pc'[v] = "read"
        BY <3>1, <1>1
      <3> QED
        BY <3>1, <2>1 DEF IInv, RequestsAreSeen
    <2> QED
      BY <2>2, <2>3, <2>4, NoneIsNobody DEF RequestsAreSeen
  <1> QED
    BY <1>2, <1>3, <1>4 DEF IInv

\* The steps of a pass once it has begun, and the end of a run's look for requests.
LEMMA PassSteps ==
    ASSUME IInv, NEW w \in Workers,
           \/ \E s \in Shots : Look(w, s)
           \/ Write(w) \/ Rename(w) \/ RenameFails(w) \/ WriteFails(w)
           \/ Collect(w) \/ Move(w) \/ FlushDue(w) \/ Flush(w) \/ PassEnds(w) \/ NoRequest(w)
    PROVE  IInv'
  <1> USE DEF inputs, files, trigger, budget, history, At, Critical, InPass, PCs
  <1>i. Roles /\ \A v \in temps : pc[v] = "rename"
    BY DEF IInv, TempsAreOwn
  <1>1. ASSUME NEW s \in Shots, Look(w, s) PROVE IInv'
    <2>0. pc[w] = "pass" /\ UNCHANGED <<temps, faults, pending, lock, unserved>>
      BY <1>1 DEF Look
    <2>1. CASE Go(w, "write")
      BY <2>0, <2>1, <1>i, MovesOn DEF Roles
    <2>2. CASE UNCHANGED pc
      BY <2>0, <2>2, Elsewhere
    <2> QED
      BY <2>1, <2>2, <1>1 DEF Look
  <1>2. CASE Write(w)
    <2>1. /\ pc[w] = "write" /\ lock = w /\ Go(w, "rename") /\ temps' = temps \cup {w}
          /\ UNCHANGED <<faults, pending, lock, unserved>>
      BY <1>2 DEF Write, Lost
    <2> QED
      BY <2>1, <1>i, MovesOn DEF Roles
  <1>3. CASE Rename(w)
    <2>1. /\ pc[w] = "rename" /\ temps' = temps \ {w} /\ (\E p \in {"pass", "beat"} : Go(w, p))
          /\ UNCHANGED <<faults, pending, lock, unserved>>
      BY <1>3 DEF Rename
    <2> QED
      BY <2>1, <1>i, MovesOn DEF Roles
  <1>4. ASSUME pc[w] \in {"write", "rename"}, ContainerFailed(w), faults \subseteq faults' PROVE IInv'
    <2>1. Go(w, "pass") /\ temps' = temps \ {w} /\ UNCHANGED <<pending, lock, unserved>>
      BY <1>4 DEF ContainerFailed
    <2> QED
      BY <2>1, <1>4, <1>i, MovesOn DEF Roles
  <1>5. CASE RenameFails(w)
    BY <1>4, <1>5 DEF RenameFails
  <1>6. CASE WriteFails(w)
    BY <1>4, <1>6, SpendIsRemembered DEF WriteFails, Outside
  <1>7. CASE Collect(w)
    <2>1. pc[w] = "pass" /\ Go(w, "move") /\ UNCHANGED <<temps, faults, pending, lock, unserved>>
      BY <1>7 DEF Collect
    <2> QED
      BY <2>1, <1>i, MovesOn DEF Roles
  <1>8. CASE Move(w)
    <2>1. pc[w] = "move" /\ Go(w, "pass") /\ UNCHANGED <<temps, faults, pending, lock, unserved>>
      BY <1>8 DEF Move
    <2> QED
      BY <2>1, <1>i, MovesOn DEF Roles
  <1>9. CASE FlushDue(w)
    <2>1. pc[w] \in {"pass", "beat"} /\ Go(w, "flush")
          /\ UNCHANGED <<temps, faults, pending, lock, unserved>>
      BY <1>9 DEF FlushDue, Done
    <2> QED
      BY <2>1, <1>i, MovesOn DEF Roles
  <1>10. CASE Flush(w)
    <2>1. pc[w] = "flush" /\ Go(w, "pass") /\ UNCHANGED <<temps, faults, pending, lock, unserved>>
      BY <1>10 DEF Flush
    <2> QED
      BY <2>1, <1>i, MovesOn DEF Roles
  <1>11. CASE PassEnds(w)
    <2>1. /\ pc[w] = "pass" /\ Go(w, "inner") /\ pending' = (pending \/ master.gen # job[w].before)
          /\ UNCHANGED <<temps, faults, lock, unserved>>
      BY <1>11 DEF PassEnds, Done
    <2>2. pending' \in BOOLEAN /\ (pending => pending')
      BY <2>1, <1>i DEF Roles
    <2> QED
      BY <2>1, <2>2, <1>i, MovesOn DEF Roles
  <1>12. CASE NoRequest(w)
    <2>1. pc[w] = "inner" /\ Go(w, "release") /\ UNCHANGED <<temps, faults, pending, lock, unserved>>
      BY <1>12 DEF NoRequest
    <2> QED
      BY <2>1, <1>i, MovesOn DEF Roles
  <1> QED
    BY <1>1, <1>2, <1>3, <1>5, <1>6, <1>7, <1>8, <1>9, <1>10, <1>11, <1>12

\* A worker that ends, or leaves the lock: nobody else is touched.
LEMMA Leaves ==
    ASSUME IInv, NEW w \in Workers, NEW p \in {"idle", "outer", "judge"},
           Go(w, p), lock' = (IF lock = w THEN None ELSE lock), lock' = lock \/ p # "judge",
           temps' = temps \ {w}, UNCHANGED <<pending, unserved>>, faults \subseteq faults',
           faults' = {} =>
             \/ p = "outer" /\ pc[w] = "release"
             \/ p = "judge" /\ pc[w] = "outer" /\ (~pending \/ lock # None)
             \/ p = "idle" /\ pc[w] = "judge"
    PROVE  IInv'
  <1> USE NoneIsNobody DEF Critical, InPass
  <1>1. pc' \in [Workers -> PCs] /\ pc'[w] = p /\ \A v \in Workers \ {w} : pc'[v] = pc[v]
    BY DEF Go, IInv, Roles, PCs
  <1>2. Roles'
    BY <1>1 DEF IInv, Roles
  <1>3. LockIsAtWork'
    BY <1>1 DEF IInv, Roles, LockIsAtWork
  <1>4. TempsAreOwn'
    BY <1>1 DEF IInv, Roles, TempsAreOwn
  <1>5. RequestsAreSeen'
    <2> SUFFICES ASSUME faults' = {} PROVE RequestsAreSeen'
      BY DEF RequestsAreSeen, Smooth
    <2>1. /\ \A v \in Workers : pc[v] \in Critical => lock = v
          /\ pending => lock # None \/ \E v \in Workers : pc[v] = "outer"
          /\ unserved => pending \/ \E v \in Workers : pc[v] = "read"
      BY DEF IInv, RequestsAreSeen, Smooth
    <2>2. \A v \in Workers : pc'[v] \in Critical => lock' = v
      BY <2>1, <1>1
    <2>3. unserved => pending \/ \E v \in Workers : pc'[v] = "read"
      <3>1. ASSUME NEW v \in Workers, pc[v] = "read" PROVE pc'[v] = "read"
        BY <3>1, <1>1
      <3> QED
        BY <3>1, <2>1
    <2>4. pending => lock' # None \/ \E v \in Workers : pc'[v] = "outer"
      <3>1. CASE p = "outer"
        BY <3>1, <1>1
      <3>2. CASE p = "judge"
        <4>1. lock' = lock
          BY <3>2
        <4> QED
          BY <4>1, <3>2
      <3>3. CASE p = "idle"
        <4>1. pc[w] = "judge" /\ lock # w
          BY <3>3 DEF IInv, LockIsAtWork
        <4>2. ASSUME NEW v \in Workers, pc[v] = "outer" PROVE pc'[v] = "outer"
          BY <4>1, <4>2, <1>1
        <4> QED
          BY <4>1, <4>2, <2>1
      <3> QED
        BY <3>1, <3>2, <3>3
    <2> QED
      BY <2>2, <2>3, <2>4 DEF RequestsAreSeen
  <1> QED
    BY <1>2, <1>3, <1>4, <1>5 DEF IInv

\* A worker enters, takes the lock or a request, or begins its pass.
LEMMA EntrySteps ==
    ASSUME IInv, NEW w \in Workers,
           Spawn(w) \/ Acquire(w) \/ TakeRequest(w) \/ StartPass(w)
    PROVE  IInv'
  <1> USE NoneIsNobody DEF inputs, files, trigger, budget, history, At
  <1>i. /\ Roles /\ LockIsAtWork /\ TempsAreOwn
        /\ faults = {} =>
             /\ \A v \in Workers : pc[v] \in Critical => lock = v
             /\ pending => lock # None \/ \E v \in Workers : pc[v] = "outer"
             /\ unserved => pending \/ \E v \in Workers : pc[v] = "read"
    BY DEF IInv, RequestsAreSeen, Smooth
  <1>g. ASSUME NEW p \in PCs, Go(w, p)
        PROVE  pc' \in [Workers -> PCs] /\ pc'[w] = p /\ \A v \in Workers \ {w} : pc'[v] = pc[v]
    BY <1>g, <1>i DEF Go, Roles
  <1>1. CASE Spawn(w)
    <2>1. CASE master.gen = 0
      BY <2>1, <1>1, Elsewhere DEF Spawn
    <2>2. CASE master.gen # 0
      <3>1. /\ pc[w] = "idle" /\ Go(w, "outer") /\ pending' = TRUE /\ unserved' = TRUE
            /\ UNCHANGED <<lock, temps, faults>>
        BY <2>2, <1>1 DEF Spawn
      <3>2. pc' \in [Workers -> PCs] /\ pc'[w] = "outer" /\ \A v \in Workers \ {w} : pc'[v] = pc[v]
        BY <3>1, <1>g DEF PCs
      <3>3. Roles' /\ LockIsAtWork' /\ TempsAreOwn'
        BY <3>1, <3>2, <1>i DEF Roles, LockIsAtWork, TempsAreOwn, Critical, InPass
      <3>4. RequestsAreSeen'
        BY <3>1, <3>2, <1>i DEF RequestsAreSeen, Smooth, Critical, InPass
      <3> QED
        BY <3>3, <3>4 DEF IInv
    <2> QED
      BY <2>1, <2>2
  <1>2. CASE Acquire(w)
    <2>1. /\ pc[w] = "outer" /\ lock' = w /\ Go(w, "inner") /\ UNCHANGED <<temps, pending, unserved>>
          /\ (lock = None /\ faults' = faults) \/ faults' # {}
      BY <1>2, SpendIsRemembered DEF Acquire, Outside
    <2>2. pc' \in [Workers -> PCs] /\ pc'[w] = "inner" /\ \A v \in Workers \ {w} : pc'[v] = pc[v]
      BY <2>1, <1>g DEF PCs
    <2>3. Roles' /\ LockIsAtWork' /\ TempsAreOwn'
      BY <2>1, <2>2, <1>i DEF Roles, LockIsAtWork, TempsAreOwn, Critical, InPass
    <2>4. RequestsAreSeen'
      <3> SUFFICES ASSUME faults' = {} PROVE RequestsAreSeen'
        BY DEF RequestsAreSeen, Smooth
      <3>1. lock = None /\ faults = {}
        BY <2>1
      <3>2. \A v \in Workers : pc'[v] \in Critical => v = w
        BY <3>1, <2>2, <1>i
      <3>3. unserved => pending \/ \E v \in Workers : pc'[v] = "read"
        BY <3>1, <1>i DEF Critical
      <3> QED
        BY <3>2, <3>3, <2>1 DEF RequestsAreSeen
    <2> QED
      BY <2>3, <2>4 DEF IInv
  <1>3. CASE TakeRequest(w)
    <2>1. /\ pc[w] = "inner" /\ pending' = FALSE /\ Go(w, "read")
          /\ UNCHANGED <<temps, lock, faults, unserved>>
      BY <1>3 DEF TakeRequest
    <2>2. pc' \in [Workers -> PCs] /\ pc'[w] = "read" /\ \A v \in Workers \ {w} : pc'[v] = pc[v]
      BY <2>1, <1>g DEF PCs
    <2>3. Roles' /\ LockIsAtWork' /\ TempsAreOwn'
      BY <2>1, <2>2, <1>i DEF Roles, LockIsAtWork, TempsAreOwn, Critical, InPass
    <2>4. RequestsAreSeen'
      BY <2>1, <2>2, <1>i DEF RequestsAreSeen, Smooth, Critical, InPass
    <2> QED
      BY <2>3, <2>4 DEF IInv
  <1>4. CASE StartPass(w)
    <2>1. /\ pc[w] = "read" /\ temps' = temps \cap {w} /\ unserved' = FALSE /\ Go(w, "pass")
          /\ UNCHANGED <<pending, lock, faults>>
      BY <1>4 DEF StartPass
    <2>2. pc' \in [Workers -> PCs] /\ pc'[w] = "pass" /\ \A v \in Workers \ {w} : pc'[v] = pc[v]
      BY <2>1, <1>g DEF PCs
    <2>0. temps' = {}
      BY <2>1, <1>i DEF TempsAreOwn
    <2>3. Roles' /\ LockIsAtWork' /\ TempsAreOwn'
      BY <2>0, <2>1, <2>2, <1>i DEF Roles, LockIsAtWork, TempsAreOwn, Critical, InPass
    <2>4. RequestsAreSeen'
      <3> SUFFICES ASSUME faults' = {} PROVE RequestsAreSeen'
        BY DEF RequestsAreSeen, Smooth
      <3>1. lock = w
        BY <2>1, <1>i DEF Critical
      <3> QED
        BY <3>1, <2>1, <2>2, <1>i DEF RequestsAreSeen, Critical, InPass
    <2> QED
      BY <2>3, <2>4 DEF IInv
  <1> QED
    BY <1>1, <1>2, <1>3, <1>4

\* A worker leaves the loop, the lock or life.
LEMMA ExitSteps ==
    ASSUME IInv, NEW w \in Workers,
           LeaveLoop(w) \/ Release(w) \/ JudgeLinks(w) \/ Overtaken(w) \/ RunFails(w)
    PROVE  IInv'
  <1> USE NoneIsNobody DEF inputs, files, trigger, budget, history, At, Ends, Lost
  <1>i. Roles /\ LockIsAtWork /\ TempsAreOwn
    BY DEF IInv
  <1>h. ASSUME pc[w] \in {"outer", "judge"} PROVE lock # w /\ w \notin temps
    BY <1>h, <1>i DEF LockIsAtWork, TempsAreOwn, Critical, InPass
  <1>1. CASE LeaveLoop(w)
    <2>1. /\ pc[w] = "outer" /\ (~pending \/ lock # None) /\ Go(w, "judge")
          /\ UNCHANGED <<temps, faults, pending, lock, unserved>>
      BY <1>1 DEF LeaveLoop
    <2>2. temps' = temps \ {w} /\ lock' = (IF lock = w THEN None ELSE lock)
      BY <2>1, <1>h
    <2> QED
      BY <2>1, <2>2, Leaves
  <1>2. CASE Release(w)
    <2>1. /\ pc[w] = "release" /\ lock' = (IF lock = w THEN None ELSE lock) /\ Go(w, "outer")
          /\ UNCHANGED <<temps, faults, pending, unserved>>
      BY <1>2 DEF Release
    <2>2. temps' = temps \ {w}
      BY <2>1, <1>i DEF TempsAreOwn
    <2> QED
      BY <2>1, <2>2, Leaves
  <1>3. CASE JudgeLinks(w)
    <2>1. pc[w] = "judge" /\ Go(w, "idle") /\ UNCHANGED <<temps, faults, pending, lock, unserved>>
      BY <1>3 DEF JudgeLinks
    <2>2. temps' = temps \ {w} /\ lock' = (IF lock = w THEN None ELSE lock)
      BY <2>1, <1>h
    <2> QED
      BY <2>1, <2>2, Leaves
  <1>4. CASE Overtaken(w)
    <2>1. /\ pc[w] \in Critical /\ lock # w /\ Go(w, "idle") /\ temps' = temps \ {w}
          /\ UNCHANGED <<faults, pending, lock, unserved>>
      BY <1>4 DEF Overtaken, Heartbeats, Critical, InPass
    <2>2. faults' # {}
      BY <2>1 DEF IInv, RequestsAreSeen, Smooth
    <2> QED
      BY <2>1, <2>2, Leaves
  <1>5. CASE RunFails(w)
    <2>1. /\ lock' = (IF lock = w THEN None ELSE lock) /\ temps' = temps \ {w} /\ Go(w, "idle")
          /\ UNCHANGED <<pending, unserved>> /\ faults \subseteq faults' /\ faults' # {}
      BY <1>5, SpendIsRemembered DEF RunFails, Outside
    <2> QED
      BY <2>1, Leaves
  <1> QED
    BY <1>1, <1>2, <1>3, <1>4, <1>5

\* The invariant is inductive.
LEMMA StepInv == IInv /\ [Next]_vars => IInv'
  <1> SUFFICES ASSUME IInv, [Next]_vars PROVE IInv'
    OBVIOUS
  <1>1. CASE UNCHANGED vars
    BY <1>1, Elsewhere DEF vars, inputs, files, trigger, budget, history
  <1>2. ASSUME NEW s \in Shots, NEW v \in Plans, Land(s, v) PROVE IInv'
    BY <1>2, Elsewhere, SpendIsRemembered DEF Land, Outside, files, history
  <1>3. ASSUME NEW s \in Shots, Touch(s) PROVE IInv'
    BY <1>3, Elsewhere, SpendIsRemembered DEF Touch, Outside, files
  <1>4. CASE BuildStarts \/ BuildLooks \/ BuildPublishes
    BY <1>4, Elsewhere DEF BuildStarts, BuildLooks, BuildPublishes, files, budget, history
  <1>5. ASSUME NEW w \in Workers, Spawn(w) \/ Run(w) \/ Pass(w) \/ WriteFails(w) \/ RunFails(w)
        PROVE  IInv'
    BY <1>5, PassSteps, EntrySteps, ExitSteps DEF Run, Pass
  <1> QED
    BY <1>1, <1>2, <1>3, <1>4, <1>5 DEF Next

\* Without faults, when every worker has left a pass has begun after every
\* request, with any number of workers.
THEOREM NoRequestIsLost == Spec => []RequestsServed
  <1>1. IInv => RequestsServed
    BY NoneIsNobody DEF IInv, Roles, LockIsAtWork, RequestsAreSeen, RequestsServed, At, Critical, InPass
  <1> QED
    BY <1>1, InitInv, StepInv, PTL DEF Spec

\* A late rename never comes under a successor that looks, with any number of
\* workers that overtake each other.
THEOREM LateRenamesAreEarly == Spec => LateRenameIsEarly
  <1>1. IInv => (\A w \in Workers : Rename(w) /\ Lost(w) /\ lock # None => pc[lock] \notin InPass)
    BY DEF IInv, Roles, TempsAreOwn, Rename, Lost
  <1> QED
    BY <1>1, InitInv, StepInv, PTL DEF Spec, LateRenameIsEarly

-----------------------------------------------------------------------------
(***************************************************************************)
(* What is in place, what the manifest says of it, and who changes it.     *)
(***************************************************************************)

\* What a worker knows.
Jobs == [before : Nat, plan : [Shots -> Plans], records : [Shots -> Record \cup {None}],
         todo : SUBSET Shots, shot : Shots \cup {None}, stat : RawVersions,
         made : Container, dirty : BOOLEAN, written : SUBSET Shots, removed : SUBSET Shots]

\* Each variable that a pass reads or writes keeps its type.
DataTyped ==
    /\ world \in [Shots -> Plans] /\ raw \in [Shots -> Nat \ {0}] /\ away \subseteq Shots
    /\ \A s \in Shots : raw[s] \in RawVersions
    /\ master \in [gen : Nat, plan : [Shots -> Plans], links : SUBSET Shots]
    /\ build \in [at : {"idle", "look", "publish"}, plan : [Shots -> Plans], links : SUBSET Shots]
    /\ place \in [Shots -> Container \cup {None}]
    /\ manifest \in [Shots -> Record \cup {None}]
    /\ job \in [Workers -> Jobs]
    /\ clean \subseteq Workers

\* No lock was overtaken: then whoever is at work has it, and its temp.
Calm == "overtake" \notin faults
HoldersOwn ==
    Calm => \A w \in Workers :
              /\ pc[w] \in Critical => lock = w
              /\ pc[w] = "rename" => w \in temps

\* A container is no newer than the raw file, and read after the stat.
Dated(c, s) ==
    /\ c.stat <= raw[s] /\ c.raw <= raw[s]
    /\ c.stat # 0 /\ c.raw # 0 => c.stat <= c.raw

\* A record is what some container was written from.
Noted(r, s) ==
    /\ r.stat <= raw[s]
    /\ \E plan \in Plans : r.print = Fingerprint(plan, r.stat)
    /\ SizesTell => r.size = r.print

PlaceDated == \A s \in Shots : place[s] # None => Dated(place[s], s)
AllNoted ==
    /\ \A s \in Shots : manifest[s] # None => Noted(manifest[s], s)
    /\ \A w \in Workers, s \in Shots :
          job[w].records[s] # None => Noted(job[w].records[s], s)

\* The one container a worker is at.
InFlight(w) ==
    LET s == job[w].shot IN
    /\ \A t \in job[w].todo : job[w].plan[t] # 0
    /\ s # None <=> pc[w] \in {"write", "rename", "move"}
    /\ pc[w] \in {"write", "rename"} => job[w].plan[s] # 0 /\ job[w].stat <= raw[s]
    /\ pc[w] = "move" => job[w].plan[s] = 0
    /\ pc[w] = "rename" =>
         /\ job[w].made.plan = job[w].plan[s] /\ job[w].made.stat = job[w].stat
         /\ Dated(job[w].made, s)

\* A record is of the container in place or of an earlier one.
NoLater(r, stat) == r # None /\ r.stat # 0 /\ stat # 0 => r.stat <= stat
RecordsLag ==
    Calm =>
      /\ \A s \in Shots : place[s] # None => NoLater(manifest[s], place[s].stat)
      /\ \A w \in Workers : pc[w] \in InPass =>
           /\ \A s \in Shots : place[s] # None => NoLater(job[w].records[s], place[s].stat)
           /\ pc[w] \in {"write", "rename"} =>
                /\ NoLater(manifest[job[w].shot], job[w].stat)
                /\ NoLater(job[w].records[job[w].shot], job[w].stat)

DInv ==
    /\ DataTyped /\ HoldersOwn /\ PlaceDated /\ AllNoted
    /\ \A w \in Workers : InFlight(w)
    /\ RecordsLag

\* Without faults the records are of the containers in place.
Exact(records) ==
    \A s \in Shots : records[s] # None => place[s] # None /\ records[s] = RecordOf(place[s])
RecordsExact ==
    Smooth =>
      /\ (\A w \in Workers : pc[w] \notin InPass) => Exact(manifest)
      /\ \A w \in Workers : pc[w] \in InPass =>
           Exact(job[w].records) /\ (job[w].dirty \/ manifest = job[w].records)

\* The shots a pass has dealt with are in place as it planned them.
Behind(w) == {s \in Shots : job[w].plan[s] # 0 /\ s \notin job[w].todo /\ s # job[w].shot}
Progress ==
    Smooth => \A w \in Workers : pc[w] \in InPass =>
      \A s \in Behind(w) : InPlace(s) /\ place[s].plan = job[w].plan[s]

\* A clean pass is of the published master and of the raw files as they are.
Trusted == Calm /\ (SizesTell \/ Smooth)
Current(s) ==
    /\ InPlace(s) /\ place[s].plan = master.plan[s]
    /\ place[s].raw = Seen(s) \/ CameOrWentWhileRead(s)
CleanIsCurrent ==
    Trusted => \A w \in clean :
      /\ pc[w] \in InPass /\ job[w].plan = master.plan
      /\ \A s \in Behind(w) : Current(s)
      /\ pc[w] \in {"write", "rename"} => job[w].stat = Seen(job[w].shot)
      /\ pc[w] = "rename" => job[w].made.raw = Seen(job[w].shot)

\* What is published has been converted, or is owed a pass.
Fresh ==
    \A s \in Shots :
      /\ InPlace(s) <=> master.plan[s] # 0
      /\ InPlace(s) => place[s].plan = master.plan[s]
PassOwed ==
    \/ spawns > 0 \/ pending
    \/ \E w \in Workers : pc[w] = "read" \/ pc[w] \in InPass
FreshOrOwed ==
    /\ spawns \in Nat /\ (master.gen = 0 => master.plan = NoPlan)
    /\ \A w \in Workers :
         /\ job[w].before <= master.gen
         /\ pc[w] \in InPass /\ job[w].before = master.gen => job[w].plan = master.plan
         /\ pc[w] = "idle" => job[w].written = {}
    /\ Smooth /\ master.plan # NoPlan => Fresh \/ PassOwed

\* Links: who wrote a container that is not linked will say so, or the next
\* build sees it.
Writer(s) == \E w \in Workers : s \in job[w].written
LinksOK ==
    /\ build.at = "publish" \/ build.links = {}
    /\ \A s \in master.links : master.plan[s] # 0 /\ (InPlace(s) \/ s \in collected)
    /\ \A s \in build.links : build.plan[s] # 0 /\ (InPlace(s) \/ s \in collected)
    /\ build.at = "publish" => \A s \in Shots \ collected :
         build.plan[s] # 0 /\ s \notin build.links =>
           s \notin master.links /\ (InPlace(s) => Writer(s) \/ asked)
    /\ \A s \in Shots \ collected :
         master.plan[s] # 0 /\ InPlace(s) /\ s \notin master.links =>
           \/ asked \/ Writer(s) \/ build.at = "look"
           \/ build.at = "publish" /\ (s \in build.links \/ build.plan[s] = 0)
SmoothLinks == Smooth => LinksOK

\* A fingerprint is of one plan, and of a file that is there or is not.
LEMMA SamePrint ==
    ASSUME NEW p, NEW q, NEW a, NEW b
    PROVE  Fingerprint(p, a) = Fingerprint(q, b) <=> p = q /\ (a = 0 <=> b = 0)
  <1>1. ASSUME Fingerprint(p, a) = Fingerprint(q, b) PROVE p = q /\ (a = 0 <=> b = 0)
    <2>1. <<p, a # 0>>[1] = <<q, b # 0>>[1] /\ <<p, a # 0>>[2] = <<q, b # 0>>[2]
      BY <1>1, Zenon DEF Fingerprint
    <2>2. p = q
      BY <2>1, Zenon
    <2>3. (a # 0) = (b # 0)
      BY <2>1, Zenon
    <2> QED
      BY <2>2, <2>3, Zenon
  <1>2. ASSUME p = q, a = 0 <=> b = 0 PROVE Fingerprint(p, a) = Fingerprint(q, b)
    <2>1. CASE a = 0
      <3>1. (a # 0) = FALSE /\ (b # 0) = FALSE
        BY <1>2, <2>1, Zenon
      <3> QED
        BY <1>2, <3>1, Zenon DEF Fingerprint
    <2>2. CASE a # 0
      <3>1. (a # 0) = TRUE /\ (b # 0) = TRUE
        BY <1>2, <2>2, Zenon
      <3> QED
        BY <1>2, <3>1, Zenon DEF Fingerprint
    <2> QED
      BY <2>1, <2>2
  <1> QED
    BY <1>1, <1>2

\* Fingerprints, containers and records are what their sets say.
LEMMA PrintTyped ==
    ASSUME NEW p \in Plans, NEW a
    PROVE  Fingerprint(p, a) \in Plans \X BOOLEAN
  <1>1. (a # 0) \in BOOLEAN
    BY Zenon
  <1> QED
    BY <1>1, Zenon DEF Fingerprint

\* The types of what a container says.
LEMMA SizeTyped ==
    ASSUME NEW c \in Container
    PROVE  /\ 0 \in Plans /\ Plans \subseteq Nat /\ RawVersions \subseteq Nat /\ 0 \in RawVersions
           /\ c.plan \in Plans /\ c.stat \in RawVersions /\ c.raw \in RawVersions
           /\ FingerprintOf(c) \in Plans \X BOOLEAN /\ SizeOf(c) \in Plans \X BOOLEAN
           /\ RecordOf(c) \in Record
  <1>1. 0 \in Plans /\ Plans \subseteq Nat /\ RawVersions \subseteq Nat /\ 0 \in RawVersions
    BY ConstantsOK DEF Plans, RawVersions
  <1>2. c.plan \in Plans /\ c.stat \in RawVersions /\ c.raw \in RawVersions
    BY DEF Container
  <1>3. FingerprintOf(c) \in Plans \X BOOLEAN /\ SizeOf(c) \in Plans \X BOOLEAN
    BY <1>1, <1>2, PrintTyped DEF FingerprintOf, SizeOf
  <1> QED
    BY <1>1, <1>2, <1>3 DEF RecordOf, Record

\* What a stat says.
LEMMA SeenTyped ==
    ASSUME DataTyped, NEW s \in Shots
    PROVE  /\ Seen(s) \in RawVersions /\ Seen(s) \in Nat /\ Seen(s) <= raw[s] /\ raw[s] \in Nat
           /\ Seen(s) # 0 => Seen(s) = raw[s]
  BY ConstantsOK DEF DataTyped, Seen, RawVersions

\* Another campaign's container is one; no container or record is None.
LEMMA ForeignTyped ==
    /\ Foreign \in Container /\ Foreign # None /\ Foreign.plan = 0 /\ Foreign.stat = 0
    /\ None \notin Container /\ None \notin Record
  <1>1. 0 \in Plans /\ 0 \in RawVersions
    BY ConstantsOK DEF Plans, RawVersions
  <1> QED
    BY <1>1, NoneIsNothing DEF Foreign, Container

\* The initial job.
LEMMA NoJobTyped ==
    /\ NoJob \in Jobs /\ NoJob.before = 0 /\ NoJob.plan = NoPlan /\ NoJob.records = NoRecords
    /\ NoJob.todo = {} /\ NoJob.shot = None /\ NoJob.written = {} /\ NoJob.removed = {}
    /\ NoPlan \in [Shots -> Plans] /\ NoRecords \in [Shots -> Record \cup {None}]
    /\ \A s \in Shots : NoPlan[s] = 0 /\ NoRecords[s] = None
  <1>1. 0 \in Plans /\ 0 \in RawVersions
    BY ConstantsOK DEF Plans, RawVersions
  <1>2. NoPlan \in [Shots -> Plans] /\ \A s \in Shots : NoPlan[s] = 0
    BY <1>1 DEF NoPlan
  <1>3. NoRecords \in [Shots -> Record \cup {None}] /\ \A s \in Shots : NoRecords[s] = None
    BY DEF NoRecords
  <1> QED
    BY <1>1, <1>2, <1>3, ForeignTyped DEF NoJob, Jobs

\* Who moves keeps the lock or gives it up, and loses its temp to nobody.
LEMMA HeldOn ==
    ASSUME Roles, HoldersOwn, NEW w \in Workers, NEW p \in PCs, Go(w, p), faults \subseteq faults',
           "overtake" \notin faults' =>
             /\ p \in Critical => lock' = w /\ (pc[w] \in Critical \/ lock = None)
             /\ lock' = lock \/ lock \in {w, None}
             /\ p = "rename" => w \in temps'
             /\ temps \ {w} \subseteq temps' \/ (lock = w /\ pc[w] # "rename")
    PROVE  HoldersOwn'
  <1>1. pc' \in [Workers -> PCs] /\ pc'[w] = p /\ \A v \in Workers \ {w} : pc'[v] = pc[v]
    BY DEF Go, Roles
  <1> SUFFICES ASSUME "overtake" \notin faults', NEW v \in Workers
               PROVE  (pc'[v] \in Critical => lock' = v) /\ (pc'[v] = "rename" => v \in temps')
    BY DEF HoldersOwn, Calm
  <1>2. \A u \in Workers : (pc[u] \in Critical => lock = u) /\ (pc[u] = "rename" => u \in temps)
    BY DEF HoldersOwn, Calm
  <1>3. "rename" \in Critical
    BY DEF Critical, InPass
  <1> QED
    BY <1>1, <1>2, <1>3, NoneIsNobody

\* Every step leaves the lock and the temp with who has them.
LEMMA HeldStep == IInv /\ HoldersOwn /\ [Next]_vars => HoldersOwn'
  <1> SUFFICES ASSUME IInv, HoldersOwn, [Next]_vars PROVE HoldersOwn'
    OBVIOUS
  <1> USE NoneIsNobody DEF inputs, files, trigger, budget, history, At
  <1>r. Roles /\ TempsAreOwn
    BY DEF IInv
  <1>h. "overtake" \notin faults =>
          \A v \in Workers : (pc[v] \in Critical => lock = v) /\ (pc[v] = "rename" => v \in temps)
    BY DEF HoldersOwn, Calm
  <1>f. UNCHANGED <<pc, lock, temps>> /\ faults \subseteq faults' => HoldersOwn'
    BY DEF HoldersOwn, Calm
  <1>1. CASE UNCHANGED vars
    BY <1>1, <1>f DEF vars
  <1>2. ASSUME NEW s \in Shots, (\E v \in Plans : Land(s, v)) \/ Touch(s) PROVE HoldersOwn'
    BY <1>2, <1>f, SpendIsRemembered DEF Land, Touch, Outside
  <1>3. CASE BuildStarts \/ BuildLooks \/ BuildPublishes
    BY <1>3, <1>f DEF BuildStarts, BuildLooks, BuildPublishes
  <1>4. ASSUME NEW w \in Workers, Spawn(w) PROVE HoldersOwn'
    <2>1. CASE UNCHANGED pc
      BY <1>4, <2>1, <1>f DEF Spawn
    <2>2. CASE Go(w, "outer")
      BY <1>4, <2>2, <1>r, HeldOn DEF Spawn, PCs, Critical, InPass
    <2> QED
      BY <1>4, <2>1, <2>2 DEF Spawn
  <1>5. ASSUME NEW w \in Workers, Acquire(w) PROVE HoldersOwn'
    <2>1. /\ Go(w, "inner") /\ lock' = w /\ temps' = temps /\ faults \subseteq faults'
          /\ lock = None \/ "overtake" \in faults'
      BY <1>5 DEF Acquire, Spend
    <2> QED
      BY <2>1, <1>r, HeldOn DEF PCs
  <1>6. ASSUME NEW w \in Workers, LeaveLoop(w) \/ NoRequest(w) \/ TakeRequest(w) \/ Collect(w) \/ Move(w)
                                  \/ FlushDue(w) \/ Flush(w) \/ PassEnds(w)
                                  \/ (\E s \in Shots : Look(w, s) /\ Go(w, "write"))
        PROVE HoldersOwn'
    <2>1. /\ lock' = lock /\ temps' = temps /\ faults' = faults
          /\ \/ Go(w, "judge")
             \/ /\ pc[w] \in {"pass", "inner", "move", "beat", "flush"}
                /\ \E p \in {"release", "read", "move", "pass", "flush", "inner", "write"} : Go(w, p)
      BY <1>6 DEF LeaveLoop, NoRequest, TakeRequest, Collect, Move, FlushDue, Flush, PassEnds, Done, Look
    <2> QED
      BY <2>1, <1>r, <1>h, HeldOn DEF PCs, Critical, InPass
  <1>7. ASSUME NEW w \in Workers, NEW s \in Shots, Look(w, s) PROVE HoldersOwn'
    <2>1. CASE UNCHANGED pc
      BY <1>7, <2>1, <1>f DEF Look
    <2> QED
      BY <1>6, <1>7, <2>1 DEF Look
  <1>8. ASSUME NEW w \in Workers, StartPass(w) PROVE HoldersOwn'
    BY <1>8, <1>r, <1>h, HeldOn DEF StartPass, PCs, Critical, InPass
  <1>9. ASSUME NEW w \in Workers, Write(w) PROVE HoldersOwn'
    BY <1>9, <1>r, <1>h, HeldOn DEF Write, PCs, Critical, InPass
  <1>10. ASSUME NEW w \in Workers, Rename(w) \/ RenameFails(w) \/ WriteFails(w) PROVE HoldersOwn'
    <2>1. /\ \E p \in {"pass", "beat"} : Go(w, p)
          /\ pc[w] \in {"write", "rename"} /\ lock' = lock /\ temps' = temps \ {w} /\ faults \subseteq faults'
      BY <1>10, SpendIsRemembered DEF Rename, RenameFails, WriteFails, ContainerFailed, Outside
    <2> QED
      BY <2>1, <1>r, <1>h, HeldOn DEF PCs, Critical, InPass
  <1>11. ASSUME NEW w \in Workers, Release(w) \/ Overtaken(w) \/ JudgeLinks(w) \/ RunFails(w) PROVE HoldersOwn'
    <2>1. /\ \E p \in {"outer", "idle"} : Go(w, p)
          /\ lock' = lock \/ (lock = w /\ lock' = None)
          /\ (temps' = temps \/ temps' = temps \ {w}) /\ faults \subseteq faults'
      BY <1>11, SpendIsRemembered DEF Release, Overtaken, JudgeLinks, RunFails, Ends, Lost, Outside
    <2>2. temps \ {w} \subseteq temps' /\ faults \subseteq faults'
      BY <1>11, SpendIsRemembered DEF Release, Overtaken, JudgeLinks, RunFails, Ends, Outside
    <2> QED
      BY <2>1, <2>2, <1>r, HeldOn DEF PCs, Critical, InPass
  <1> QED
    BY <1>1, <1>2, <1>3, <1>4, <1>5, <1>6, <1>7, <1>8, <1>9, <1>10, <1>11 DEF Next, Run, Pass

\* What a pass leaves alone is of the plan and of the file as it is seen.
LEMMA LookFinds ==
    ASSUME DataTyped, PlaceDated, NEW s \in Shots, NEW r, NEW plan \in Plans \ {0},
           ~ NeedsWriting(s, r, plan, Seen(s)),
           r # None => r \in Record /\ Noted(r, s),
           place[s] # None => NoLater(r, place[s].stat),
           SizesTell \/ (r # None => r = RecordOf(place[s]))
    PROVE  InPlace(s) /\ place[s].plan = plan /\ place[s].stat = Seen(s)
  <1>1. place[s] # None /\ place[s] \in Container
    BY DEF NeedsWriting, DataTyped
  <1>2. PICK c \in Container : c = place[s] /\ c # None
    BY <1>1
  <1>3. /\ c.plan \in Plans /\ c.stat \in Nat /\ c.stat <= raw[s] /\ raw[s] \in Nat
        /\ Seen(s) \in Nat /\ (Seen(s) # 0 => Seen(s) = raw[s])
    BY <1>2, SizeTyped, SeenTyped DEF PlaceDated, Dated
  <1>4. CASE Vouches(r, s, Fingerprint(plan, Seen(s)))
    <2>1. /\ r # None /\ r.print = Fingerprint(plan, Seen(s)) /\ r.size = SizeOf(c)
          /\ r \in Record /\ Noted(r, s)
      BY <1>2, <1>4 DEF Vouches
    <2>2. FingerprintOf(c) = Fingerprint(plan, Seen(s))
      <3>1. CASE SizesTell
        BY <2>1, <3>1 DEF Noted, SizeOf
      <3>2. CASE r = RecordOf(c)
        BY <2>1, <3>2 DEF RecordOf
      <3> QED
        BY <1>2, <2>1, <3>1, <3>2
    <2>3. c.plan = plan /\ (c.stat = 0 <=> Seen(s) = 0)
      BY <2>2, SamePrint DEF FingerprintOf
    <2>4. PICK p \in Plans : r.print = Fingerprint(p, r.stat)
      BY <2>1 DEF Noted
    <2>5. r.stat = 0 <=> Seen(s) = 0
      <3>1. Fingerprint(p, r.stat) = Fingerprint(plan, Seen(s))
        BY <2>1, <2>4, Zenon
      <3> QED
        BY <3>1, SamePrint
    <2>6. Seen(s) = 0 \/ r.stat \in {0, Seen(s)}
      BY <1>2, <1>4 DEF NeedsWriting
    <2>7. r.stat # 0 /\ c.stat # 0 => r.stat <= c.stat
      BY <1>2, <2>1 DEF NoLater
    <2>8. c.stat = Seen(s)
      BY <1>3, <2>3, <2>5, <2>6, <2>7
    <2> QED
      BY <1>2, <2>3, <2>8, ForeignTyped DEF InPlace
  <1>5. CASE ~ Vouches(r, s, Fingerprint(plan, Seen(s)))
    <2>1. FingerprintOf(c) = Fingerprint(plan, Seen(s)) /\ (Seen(s) = 0 \/ c.stat \in {0, Seen(s)})
      BY <1>2, <1>5 DEF NeedsWriting
    <2>2. c.plan = plan /\ (c.stat = 0 <=> Seen(s) = 0)
      BY <2>1, SamePrint DEF FingerprintOf
    <2> QED
      BY <1>2, <2>1, <2>2, ForeignTyped DEF InPlace
  <1> QED
    BY <1>4, <1>5

\* What it adopts it records as what it is.
LEMMA LookNotes ==
    ASSUME DataTyped, NEW s \in Shots, NEW r, NEW plan \in Plans \ {0},
           ~ NeedsWriting(s, r, plan, Seen(s)),
           ~ (r # None /\ r.print = Fingerprint(plan, Seen(s)))
    PROVE  /\ place[s] \in Container /\ place[s] # None
           /\ [print |-> Fingerprint(plan, Seen(s)), size |-> SizeOf(place[s]), stat |-> Seen(s)]
                 = RecordOf(place[s])
  <1>1. ~ Vouches(r, s, Fingerprint(plan, Seen(s)))
    BY DEF Vouches
  <1>2. /\ place[s] # None /\ place[s] \in Container
        /\ FingerprintOf(place[s]) = Fingerprint(plan, Seen(s))
        /\ Seen(s) = 0 \/ place[s].stat \in {0, Seen(s)}
    BY <1>1 DEF NeedsWriting, DataTyped
  <1>3. place[s].stat = 0 <=> Seen(s) = 0
    BY <1>2, SamePrint DEF FingerprintOf
  <1>4. place[s].stat = Seen(s)
    BY <1>2, <1>3
  <1> QED
    BY <1>2, <1>4 DEF RecordOf

\* A container's own record is as old as the container, and says what it is.
LEMMA OwnRecord ==
    ASSUME NEW c \in Container, NEW s, Dated(c, s)
    PROVE  /\ RecordOf(c) \in Record /\ RecordOf(c) # None
           /\ Noted(RecordOf(c), s) /\ NoLater(RecordOf(c), c.stat)
  <1>1. /\ RecordOf(c) \in Record /\ c.plan \in Plans /\ c.stat \in Nat
        /\ RecordOf(c).print = Fingerprint(c.plan, c.stat) /\ RecordOf(c).stat = c.stat
        /\ SizesTell => RecordOf(c).size = RecordOf(c).print
    BY SizeTyped DEF RecordOf, FingerprintOf, SizeOf
  <1> QED
    BY <1>1, ForeignTyped DEF Dated, Noted, NoLater
(***************************************************************************)
(* What each step of a worker does to what it knows.                       *)
(***************************************************************************)

\* The others stay where they are and know what they knew.
OthersStay(w) == \A v \in Workers \ {w} : job'[v] = job[v] /\ pc'[v] = pc[v]

\* What a step of a pass leaves alone.
SameRun(w) ==
    /\ job'[w].before = job[w].before /\ job'[w].plan = job[w].plan
    /\ job'[w].written = job[w].written /\ job'[w].removed = job[w].removed

\* A job with other contents is a job.
LEMMA JobsChange ==
    ASSUME DataTyped, Roles, NEW w \in Workers, NEW j \in Jobs, NEW p \in PCs,
           job' = [job EXCEPT ![w] = j], Go(w, p) \/ (p = pc[w] /\ UNCHANGED pc)
    PROVE  /\ job' \in [Workers -> Jobs] /\ job'[w] = j /\ pc'[w] = p /\ OthersStay(w)
           /\ pc' \in [Workers -> PCs]
  BY DEF DataTyped, Roles, Go, OthersStay

\* A shot is looked at: it is to be written, or left as it is.
LEMMA LookDoes ==
    ASSUME DInv, Roles, NEW w \in Workers, NEW s \in Shots, Look(w, s)
    PROVE  /\ pc[w] = "pass" /\ s \in job[w].todo /\ lock = w
           /\ UNCHANGED <<inputs, files, trigger, budget, master, pending, lock, history>>
           /\ job' \in [Workers -> Jobs] /\ OthersStay(w) /\ SameRun(w)
           /\ job'[w].todo = job[w].todo \ {s}
           /\ \/ /\ pc'[w] = "write" /\ job'[w].shot = s /\ job'[w].stat = Seen(s)
                 /\ job'[w].records = job[w].records /\ job'[w].dirty = job[w].dirty
              \/ /\ ~ NeedsWriting(s, job[w].records[s], job[w].plan[s], Seen(s))
                 /\ pc'[w] = "pass" /\ job'[w].shot = job[w].shot
                 /\ \/ job'[w].records = job[w].records /\ job'[w].dirty = job[w].dirty
                    \/ /\ place[s] \in Container /\ place[s] # None
                       /\ job'[w].records = [job[w].records EXCEPT ![s] = RecordOf(place[s])]
                       /\ job'[w].dirty = TRUE
  <1>1. /\ pc[w] = "pass" /\ s \in job[w].todo /\ lock = w
        /\ UNCHANGED <<inputs, files, trigger, budget, master, pending, lock, history>>
    BY DEF Look, At, Lost
  <1>t. /\ job[w] \in Jobs /\ DataTyped /\ Seen(s) \in RawVersions
        /\ job[w].plan[s] \in Plans \ {0} /\ job[w].records \in [Shots -> Record \cup {None}]
    BY <1>1, SeenTyped DEF DInv, DataTyped, InFlight, Jobs
  <1>2. CASE NeedsWriting(s, job[w].records[s], job[w].plan[s], Seen(s))
    <2>1. PICK j : j = [job[w] EXCEPT !.todo = @ \ {s}, !.shot = s, !.stat = Seen(s)]
      OBVIOUS
    <2>2. job' = [job EXCEPT ![w] = j] /\ Go(w, "write")
      BY <1>2, <1>t, <2>1 DEF Look, DataTyped
    <2>3. /\ j \in Jobs /\ j.todo = job[w].todo \ {s} /\ j.shot = s /\ j.stat = Seen(s)
          /\ j.before = job[w].before /\ j.plan = job[w].plan /\ j.written = job[w].written
          /\ j.removed = job[w].removed /\ j.records = job[w].records /\ j.dirty = job[w].dirty
      BY <1>t, <2>1 DEF Jobs
    <2>4. /\ job' \in [Workers -> Jobs] /\ job'[w] = j /\ pc'[w] = "write" /\ OthersStay(w)
      BY <1>t, <2>2, <2>3, JobsChange DEF PCs
    <2> QED
      BY <1>1, <2>3, <2>4 DEF SameRun
  <1>3. CASE ~ NeedsWriting(s, job[w].records[s], job[w].plan[s], Seen(s))
    <2>1. PICK r : r = job[w].records[s]
      OBVIOUS
    <2>2. CASE r # None /\ r.print = Fingerprint(job[w].plan[s], Seen(s))
      <3>1. PICK j : j = [job[w] EXCEPT !.todo = @ \ {s}]
        OBVIOUS
      <3>2. job' = [job EXCEPT ![w].todo = @ \ {s}] /\ UNCHANGED pc
        BY <1>3, <2>1, <2>2 DEF Look
      <3>3. /\ j \in Jobs /\ j.todo = job[w].todo \ {s} /\ j.shot = job[w].shot
            /\ j.before = job[w].before /\ j.plan = job[w].plan /\ j.written = job[w].written
            /\ j.removed = job[w].removed /\ j.records = job[w].records /\ j.dirty = job[w].dirty
        BY <1>t, <3>1 DEF Jobs
      <3>4. job' = [job EXCEPT ![w] = j]
        BY <1>t, <3>1, <3>2 DEF DataTyped
      <3>5. /\ job' \in [Workers -> Jobs] /\ job'[w] = j /\ pc'[w] = "pass" /\ OthersStay(w)
        BY <1>1, <1>t, <3>2, <3>3, <3>4, JobsChange DEF PCs
      <3> QED
        BY <1>1, <1>3, <3>3, <3>5 DEF SameRun
    <2>3. CASE ~ (r # None /\ r.print = Fingerprint(job[w].plan[s], Seen(s)))
      <3>0. /\ place[s] \in Container /\ place[s] # None /\ RecordOf(place[s]) \in Record
            /\ [print |-> Fingerprint(job[w].plan[s], Seen(s)), size |-> SizeOf(place[s]),
                stat |-> Seen(s)] = RecordOf(place[s])
        BY <1>3, <1>t, <2>1, <2>3, LookNotes, SizeTyped
      <3>1. PICK j : j = [job[w] EXCEPT !.todo = @ \ {s},
                                        !.records = [@ EXCEPT ![s] = RecordOf(place[s])],
                                        !.dirty = TRUE]
        OBVIOUS
      <3>2. job' = [job EXCEPT ![w].todo = @ \ {s}, ![w].dirty = TRUE,
                               ![w].records[s] = RecordOf(place[s])] /\ UNCHANGED pc
        BY <1>3, <2>1, <2>3, <3>0 DEF Look
      <3>3. /\ j \in Jobs /\ j.todo = job[w].todo \ {s} /\ j.shot = job[w].shot
            /\ j.before = job[w].before /\ j.plan = job[w].plan /\ j.written = job[w].written
            /\ j.removed = job[w].removed /\ j.dirty = TRUE
            /\ j.records = [job[w].records EXCEPT ![s] = RecordOf(place[s])]
        BY <1>t, <3>0, <3>1 DEF Jobs
      <3>4. job' = [job EXCEPT ![w] = j]
        BY <1>t, <3>1, <3>2 DEF DataTyped, Jobs
      <3>5. /\ job' \in [Workers -> Jobs] /\ job'[w] = j /\ pc'[w] = "pass" /\ OthersStay(w)
        BY <1>1, <1>t, <3>2, <3>3, <3>4, JobsChange DEF PCs
      <3> QED
        BY <1>1, <1>3, <3>0, <3>3, <3>5 DEF SameRun
    <2> QED
      BY <2>2, <2>3
  <1> QED
    BY <1>2, <1>3

\* The container is written into the worker's temp.
LEMMA WriteDoes ==
    ASSUME DInv, Roles, NEW w \in Workers, Write(w)
    PROVE  /\ pc[w] = "write" /\ pc'[w] = "rename" /\ lock = w
           /\ job' \in [Workers -> Jobs] /\ pc' \in [Workers -> PCs] /\ OthersStay(w) /\ SameRun(w)
           /\ job[w].shot \in Shots
           /\ job'[w].made = [plan |-> job[w].plan[job[w].shot], stat |-> job[w].stat,
                              raw |-> Seen(job[w].shot)]
           /\ job'[w].made.raw = Seen(job[w].shot)
           /\ job'[w].todo = job[w].todo /\ job'[w].shot = job[w].shot
           /\ job'[w].stat = job[w].stat /\ job'[w].records = job[w].records
           /\ job'[w].dirty = job[w].dirty
  <1>1. pc[w] = "write" /\ lock = w
    BY DEF Write, At, Lost
  <1>t. /\ job[w] \in Jobs /\ DataTyped /\ job[w].shot \in Shots
    BY <1>1 DEF DInv, DataTyped, InFlight, Jobs
  <1>2. PICK c : c = [plan |-> job[w].plan[job[w].shot], stat |-> job[w].stat,
                      raw |-> Seen(job[w].shot)]
    OBVIOUS
  <1>3. c \in Container /\ c.raw = Seen(job[w].shot)
    BY <1>t, <1>2, SeenTyped DEF Container, Jobs
  <1>4. PICK j : j = [job[w] EXCEPT !.made = c]
    OBVIOUS
  <1>5. job' = [job EXCEPT ![w] = j] /\ Go(w, "rename")
    BY <1>2, <1>4, <1>t DEF Write, DataTyped
  <1>6. /\ j \in Jobs /\ j.made = c /\ j.todo = job[w].todo /\ j.shot = job[w].shot
        /\ j.stat = job[w].stat /\ j.records = job[w].records /\ j.dirty = job[w].dirty
        /\ j.before = job[w].before /\ j.plan = job[w].plan /\ j.written = job[w].written
        /\ j.removed = job[w].removed
    BY <1>t, <1>3, <1>4 DEF Jobs
  <1>7. /\ job' \in [Workers -> Jobs] /\ job'[w] = j /\ pc'[w] = "rename" /\ OthersStay(w)
        /\ pc' \in [Workers -> PCs]
    BY <1>t, <1>5, <1>6, JobsChange DEF PCs
  <1> QED
    BY <1>1, <1>t, <1>2, <1>3, <1>6, <1>7 DEF SameRun

\* The temp goes into place, and its record into the worker's records.
LEMMA RenameDoes ==
    ASSUME DInv, Roles, NEW w \in Workers, Rename(w)
    PROVE  /\ pc[w] = "rename" /\ pc'[w] \in {"pass", "beat"} /\ w \in temps
           /\ job' \in [Workers -> Jobs] /\ pc' \in [Workers -> PCs] /\ OthersStay(w)
           /\ job[w].shot \in Shots /\ job[w].made \in Container
           /\ place' = [place EXCEPT ![job[w].shot] = job[w].made]
           /\ job'[w].records = [job[w].records EXCEPT ![job[w].shot] = RecordOf(job[w].made)]
           /\ job'[w].written = job[w].written \cup {job[w].shot}
           /\ job'[w].dirty = TRUE /\ job'[w].shot = None
           /\ job'[w].todo = job[w].todo /\ job'[w].before = job[w].before
           /\ job'[w].plan = job[w].plan /\ job'[w].removed = job[w].removed
  <1>1. /\ pc[w] = "rename" /\ w \in temps
        /\ place' = [place EXCEPT ![job[w].shot] = job[w].made]
    BY DEF Rename, At
  <1>t. /\ job[w] \in Jobs /\ DataTyped /\ job[w].shot \in Shots /\ job[w].made \in Container
        /\ 0 \in RawVersions
    BY <1>1, ConstantsOK DEF DInv, DataTyped, InFlight, Jobs, RawVersions
  <1>r. RecordOf(job[w].made) \in Record
    BY <1>t, SizeTyped
  <1>4. PICK j : j = [job[w] EXCEPT !.records = [@ EXCEPT ![job[w].shot] = RecordOf(job[w].made)],
                          !.written = @ \cup {job[w].shot}, !.dirty = TRUE,
                          !.shot = None, !.stat = 0, !.made = Foreign]
    OBVIOUS
  <1>5. job' = [job EXCEPT ![w] = j] /\ \E p \in {"pass", "beat"} : Go(w, p)
    BY <1>4, <1>t DEF Rename, DataTyped
  <1>6. /\ j \in Jobs /\ j.todo = job[w].todo /\ j.shot = None
        /\ j.records = [job[w].records EXCEPT ![job[w].shot] = RecordOf(job[w].made)]
        /\ j.dirty = TRUE /\ j.before = job[w].before /\ j.plan = job[w].plan
        /\ j.written = job[w].written \cup {job[w].shot} /\ j.removed = job[w].removed
    BY <1>t, <1>r, <1>4, ForeignTyped DEF Jobs
  <1>7. /\ job' \in [Workers -> Jobs] /\ job'[w] = j /\ pc'[w] \in {"pass", "beat"} /\ OthersStay(w)
        /\ pc' \in [Workers -> PCs]
    BY <1>t, <1>5, <1>6, JobsChange DEF PCs
  <1> QED
    BY <1>1, <1>t, <1>6, <1>7

\* A container that fails takes its record with it.
LEMMA FailDoes ==
    ASSUME DInv, Roles, NEW w \in Workers, ContainerFailed(w), pc[w] \in {"write", "rename"}
    PROVE  /\ pc'[w] = "pass" /\ SameRun(w)
           /\ job' \in [Workers -> Jobs] /\ pc' \in [Workers -> PCs] /\ OthersStay(w)
           /\ job[w].shot \in Shots
           /\ job'[w].records = [job[w].records EXCEPT ![job[w].shot] = None]
           /\ job'[w].dirty = TRUE /\ job'[w].shot = None /\ job'[w].todo = job[w].todo
  <1>t. /\ job[w] \in Jobs /\ DataTyped /\ job[w].shot \in Shots /\ 0 \in RawVersions
    BY ConstantsOK DEF DInv, DataTyped, InFlight, Jobs, RawVersions
  <1>4. PICK j : j = [job[w] EXCEPT !.records = [@ EXCEPT ![job[w].shot] = None], !.dirty = TRUE,
                          !.shot = None, !.stat = 0, !.made = Foreign]
    OBVIOUS
  <1>5. job' = [job EXCEPT ![w] = j] /\ Go(w, "pass")
    BY <1>4, <1>t DEF ContainerFailed, DataTyped
  <1>6. /\ j \in Jobs /\ j.todo = job[w].todo /\ j.shot = None
        /\ j.records = [job[w].records EXCEPT ![job[w].shot] = None]
        /\ j.dirty = TRUE /\ j.before = job[w].before /\ j.plan = job[w].plan
        /\ j.written = job[w].written /\ j.removed = job[w].removed
    BY <1>t, <1>4, ForeignTyped DEF Jobs
  <1>7. /\ job' \in [Workers -> Jobs] /\ job'[w] = j /\ pc'[w] = "pass" /\ OthersStay(w)
        /\ pc' \in [Workers -> PCs]
    BY <1>t, <1>5, <1>6, JobsChange DEF PCs
  <1> QED
    BY <1>t, <1>6, <1>7 DEF SameRun

\* A container without an acquisition is about to go.
LEMMA CollectDoes ==
    ASSUME DInv, Roles, NEW w \in Workers, Collect(w)
    PROVE  /\ pc[w] = "pass" /\ pc'[w] = "move" /\ lock = w /\ SameRun(w)
           /\ job' \in [Workers -> Jobs] /\ pc' \in [Workers -> PCs] /\ OthersStay(w)
           /\ job'[w].shot \in Garbage(w) /\ job[w].todo = {}
           /\ job'[w].todo = job[w].todo /\ job'[w].records = job[w].records
           /\ job'[w].dirty = job[w].dirty
  <1>1. pc[w] = "pass" /\ lock = w /\ job[w].todo = {}
    BY DEF Collect, At, Lost
  <1>t. job[w] \in Jobs /\ DataTyped
    BY <1>1 DEF DInv, DataTyped
  <1>2. PICK s \in Garbage(w) : job' = [job EXCEPT ![w].shot = s]
    BY DEF Collect
  <1>4. PICK j : j = [job[w] EXCEPT !.shot = s]
    OBVIOUS
  <1>5. job' = [job EXCEPT ![w] = j] /\ Go(w, "move") /\ s \in Shots
    BY <1>2, <1>4, <1>t DEF Collect, DataTyped, Garbage
  <1>6. /\ j \in Jobs /\ j.todo = job[w].todo /\ j.shot = s
        /\ j.records = job[w].records
        /\ j.dirty = job[w].dirty /\ j.before = job[w].before /\ j.plan = job[w].plan
        /\ j.written = job[w].written /\ j.removed = job[w].removed
    BY <1>t, <1>4, <1>5 DEF Jobs
  <1>7. /\ job' \in [Workers -> Jobs] /\ job'[w] = j /\ pc'[w] = "move" /\ OthersStay(w)
        /\ pc' \in [Workers -> PCs]
    BY <1>t, <1>5, <1>6, JobsChange DEF PCs
  <1> QED
    BY <1>1, <1>2, <1>6, <1>7 DEF SameRun

\* It goes, and its record with it.
LEMMA MoveDoes ==
    ASSUME DInv, Roles, NEW w \in Workers, Move(w)
    PROVE  /\ pc[w] = "move" /\ pc'[w] = "pass"
           /\ job' \in [Workers -> Jobs] /\ pc' \in [Workers -> PCs] /\ OthersStay(w)
           /\ job[w].shot \in Shots
           /\ place' = [place EXCEPT ![job[w].shot] = None]
           /\ job'[w].records = [job[w].records EXCEPT ![job[w].shot] = None]
           /\ job'[w].removed = job[w].removed \cup {job[w].shot}
           /\ job'[w].dirty = TRUE /\ job'[w].shot = None
           /\ job'[w].todo = job[w].todo /\ job'[w].before = job[w].before
           /\ job'[w].plan = job[w].plan /\ job'[w].written = job[w].written
  <1>1. pc[w] = "move" /\ place' = [place EXCEPT ![job[w].shot] = None]
    BY DEF Move, At
  <1>t. /\ job[w] \in Jobs /\ DataTyped /\ job[w].shot \in Shots
    BY <1>1 DEF DInv, DataTyped, InFlight, Jobs
  <1>4. PICK j : j = [job[w] EXCEPT !.records = [@ EXCEPT ![job[w].shot] = None], !.dirty = TRUE,
                          !.removed = @ \cup {job[w].shot}, !.shot = None]
    OBVIOUS
  <1>5. job' = [job EXCEPT ![w] = j] /\ Go(w, "pass")
    BY <1>4, <1>t DEF Move, DataTyped
  <1>6. /\ j \in Jobs /\ j.todo = job[w].todo /\ j.shot = None
        /\ j.records = [job[w].records EXCEPT ![job[w].shot] = None]
        /\ j.dirty = TRUE /\ j.before = job[w].before /\ j.plan = job[w].plan
        /\ j.removed = job[w].removed \cup {job[w].shot} /\ j.written = job[w].written
    BY <1>t, <1>4 DEF Jobs
  <1>7. /\ job' \in [Workers -> Jobs] /\ job'[w] = j /\ pc'[w] = "pass" /\ OthersStay(w)
        /\ pc' \in [Workers -> PCs]
    BY <1>t, <1>5, <1>6, JobsChange DEF PCs
  <1> QED
    BY <1>1, <1>t, <1>6, <1>7

\* The records become the manifest.
LEMMA FlushDoes ==
    ASSUME DInv, Roles, NEW w \in Workers, Flush(w)
    PROVE  /\ pc[w] = "flush" /\ pc'[w] = "pass" /\ SameRun(w)
           /\ job' \in [Workers -> Jobs] /\ pc' \in [Workers -> PCs] /\ OthersStay(w)
           /\ manifest' = job[w].records /\ job'[w].dirty = FALSE
           /\ job'[w].todo = job[w].todo /\ job'[w].records = job[w].records
           /\ job'[w].shot = job[w].shot
  <1>1. pc[w] = "flush" /\ manifest' = job[w].records
    BY DEF Flush, At
  <1>t. job[w] \in Jobs /\ DataTyped
    BY <1>1 DEF DInv, DataTyped
  <1>4. PICK j : j = [job[w] EXCEPT !.dirty = FALSE]
    OBVIOUS
  <1>5. job' = [job EXCEPT ![w] = j] /\ Go(w, "pass")
    BY <1>4, <1>t DEF Flush, DataTyped
  <1>6. /\ j \in Jobs /\ j.todo = job[w].todo /\ j.shot = job[w].shot
        /\ j.records = job[w].records
        /\ j.dirty = FALSE /\ j.before = job[w].before /\ j.plan = job[w].plan
        /\ j.written = job[w].written /\ j.removed = job[w].removed
    BY <1>t, <1>4 DEF Jobs
  <1>7. /\ job' \in [Workers -> Jobs] /\ job'[w] = j /\ pc'[w] = "pass" /\ OthersStay(w)
        /\ pc' \in [Workers -> PCs]
    BY <1>t, <1>5, <1>6, JobsChange DEF PCs
  <1> QED
    BY <1>1, <1>6, <1>7 DEF SameRun

\* A pass that ends has dealt with everything and flushed.
LEMMA PassEndsDoes ==
    ASSUME DInv, Roles, NEW w \in Workers, PassEnds(w)
    PROVE  /\ pc[w] = "pass" /\ pc'[w] = "inner" /\ job[w].todo = {} /\ Garbage(w) = {}
           /\ job[w].dirty = FALSE /\ pending' = (pending \/ master.gen # job[w].before)
           /\ job' \in [Workers -> Jobs] /\ pc' \in [Workers -> PCs] /\ OthersStay(w)
           /\ job'[w].plan = NoPlan /\ job'[w].before = 0 /\ job'[w].records = NoRecords
           /\ job'[w].todo = {} /\ job'[w].shot = job[w].shot
           /\ job'[w].written = job[w].written /\ job'[w].removed = job[w].removed
  <1>1. /\ pc[w] = "pass" /\ job[w].todo = {} /\ Garbage(w) = {} /\ ~ job[w].dirty
        /\ pending' = (pending \/ master.gen # job[w].before)
    BY DEF PassEnds, At, Done
  <1>t. job[w] \in Jobs /\ DataTyped /\ job[w].dirty \in BOOLEAN
    BY <1>1 DEF DInv, DataTyped, Jobs
  <1>d. job[w].dirty = FALSE
    BY <1>1, <1>t
  <1>4. PICK j : j = [job[w] EXCEPT !.plan = NoPlan, !.before = 0, !.records = NoRecords]
    OBVIOUS
  <1>5. job' = [job EXCEPT ![w] = j] /\ Go(w, "inner")
    BY <1>4, <1>t DEF PassEnds, DataTyped
  <1>6. /\ j \in Jobs /\ j.todo = {} /\ j.shot = job[w].shot
        /\ j.records = NoRecords /\ j.before = 0 /\ j.plan = NoPlan
        /\ j.written = job[w].written /\ j.removed = job[w].removed
    BY <1>t, <1>1, <1>4, NoJobTyped DEF Jobs
  <1>7. /\ job' \in [Workers -> Jobs] /\ job'[w] = j /\ pc'[w] = "inner" /\ OthersStay(w)
        /\ pc' \in [Workers -> PCs]
    BY <1>t, <1>5, <1>6, JobsChange DEF PCs
  <1> QED
    BY <1>1, <1>d, <1>6, <1>7

\* A request is taken.
LEMMA TakeDoes ==
    ASSUME DInv, Roles, NEW w \in Workers, TakeRequest(w)
    PROVE  /\ pc[w] = "inner" /\ pc'[w] = "read" /\ pending /\ pending' = FALSE
           /\ job' \in [Workers -> Jobs] /\ pc' \in [Workers -> PCs] /\ OthersStay(w)
           /\ job'[w].before = master.gen
           /\ job'[w].todo = job[w].todo /\ job'[w].records = job[w].records
           /\ job'[w].shot = job[w].shot /\ job'[w].plan = job[w].plan
           /\ job'[w].written = job[w].written /\ job'[w].removed = job[w].removed
  <1>1. pc[w] = "inner" /\ pending /\ pending' = FALSE
    BY DEF TakeRequest, At
  <1>t. job[w] \in Jobs /\ DataTyped /\ master.gen \in Nat
    BY <1>1 DEF DInv, DataTyped
  <1>4. PICK j : j = [job[w] EXCEPT !.before = master.gen]
    OBVIOUS
  <1>5. job' = [job EXCEPT ![w] = j] /\ Go(w, "read")
    BY <1>4, <1>t DEF TakeRequest, DataTyped
  <1>6. /\ j \in Jobs /\ j.todo = job[w].todo /\ j.shot = job[w].shot
        /\ j.records = job[w].records
        /\ j.before = master.gen /\ j.plan = job[w].plan
        /\ j.written = job[w].written /\ j.removed = job[w].removed
    BY <1>t, <1>4 DEF Jobs
  <1>7. /\ job' \in [Workers -> Jobs] /\ job'[w] = j /\ pc'[w] = "read" /\ OthersStay(w)
        /\ pc' \in [Workers -> PCs]
    BY <1>t, <1>5, <1>6, JobsChange DEF PCs
  <1> QED
    BY <1>1, <1>6, <1>7

\* A pass starts with the master's plan and the manifest's records.
LEMMA StartDoes ==
    ASSUME DInv, Roles, NEW w \in Workers, StartPass(w)
    PROVE  /\ pc[w] = "read" /\ pc'[w] = "pass" /\ clean' = clean \cup {w}
           /\ job' \in [Workers -> Jobs] /\ pc' \in [Workers -> PCs] /\ OthersStay(w)
           /\ job'[w].before = job[w].before /\ job'[w].plan = master.plan
           /\ job'[w].todo = {s \in Shots : master.plan[s] # 0}
           /\ job'[w].records = manifest /\ job'[w].dirty = FALSE
           /\ job'[w].shot = job[w].shot
           /\ job'[w].written = job[w].written /\ job'[w].removed = job[w].removed
  <1>1. pc[w] = "read" /\ clean' = clean \cup {w}
    BY DEF StartPass, At
  <1>t. /\ job[w] \in Jobs /\ DataTyped /\ master.plan \in [Shots -> Plans]
        /\ manifest \in [Shots -> Record \cup {None}]
    BY <1>1 DEF DInv, DataTyped
  <1>4. PICK j : j = [job[w] EXCEPT !.plan = master.plan,
                          !.todo = {s \in Shots : master.plan[s] # 0},
                          !.records = manifest, !.dirty = FALSE]
    OBVIOUS
  <1>5. job' = [job EXCEPT ![w] = j] /\ Go(w, "pass")
    BY <1>4, <1>t DEF StartPass, DataTyped
  <1>6. /\ j \in Jobs /\ j.todo = {s \in Shots : master.plan[s] # 0} /\ j.shot = job[w].shot
        /\ j.records = manifest /\ j.dirty = FALSE
        /\ j.before = job[w].before /\ j.plan = master.plan
        /\ j.written = job[w].written /\ j.removed = job[w].removed
    BY <1>t, <1>4 DEF Jobs
  <1>7. /\ job' \in [Workers -> Jobs] /\ job'[w] = j /\ pc'[w] = "pass" /\ OthersStay(w)
        /\ pc' \in [Workers -> PCs]
    BY <1>t, <1>5, <1>6, JobsChange DEF PCs
  <1> QED
    BY <1>1, <1>6, <1>7

\* A worker that ends knows nothing.
LEMMA EndsDoes ==
    ASSUME DataTyped, Roles, NEW w \in Workers, Ends(w)
    PROVE  /\ job' \in [Workers -> Jobs] /\ pc' \in [Workers -> PCs] /\ OthersStay(w)
           /\ job'[w] = NoJob /\ pc'[w] = "idle"
  BY NoJobTyped, JobsChange DEF Ends, PCs
(***************************************************************************)
(* The records and containers stay of their types and ages.                *)
(***************************************************************************)

\* Any change of what one worker knows that keeps its own parts of it.
LEMMA OneJob ==
    ASSUME DInv, Roles, NEW w \in Workers, HoldersOwn',
           UNCHANGED <<inputs, place, manifest, master, build>>, clean' \subseteq Workers,
           faults \subseteq faults',
           job' \in [Workers -> Jobs], pc' \in [Workers -> PCs], OthersStay(w),
           \A s \in Shots : job'[w].records[s] # None => Noted(job'[w].records[s], s),
           InFlight(w)',
           Calm' /\ pc'[w] \in InPass =>
             /\ \A s \in Shots : place[s] # None => NoLater(job'[w].records[s], place[s].stat)
             /\ pc'[w] \in {"write", "rename"} =>
                  /\ NoLater(manifest[job'[w].shot], job'[w].stat)
                  /\ NoLater(job'[w].records[job'[w].shot], job'[w].stat)
    PROVE  DInv'
  <1>1. DataTyped' /\ PlaceDated'
    BY DEF DInv, DataTyped, PlaceDated, Dated, inputs
  <1>2. AllNoted'
    BY DEF DInv, AllNoted, Noted, inputs, OthersStay
  <1>3. ASSUME NEW v \in Workers PROVE InFlight(v)'
    BY DEF DInv, InFlight, OthersStay, inputs, Dated
  <1>4. RecordsLag'
    <2> SUFFICES ASSUME Calm' PROVE RecordsLag'
      BY DEF RecordsLag
    <2>1. Calm
      BY DEF Calm
    <2>2. ASSUME NEW v \in Workers, v # w, pc'[v] \in InPass
          PROVE  /\ \A s \in Shots : place[s] # None => NoLater(job'[v].records[s], place[s].stat)
                 /\ pc'[v] \in {"write", "rename"} =>
                      /\ NoLater(manifest[job'[v].shot], job'[v].stat)
                      /\ NoLater(job'[v].records[job'[v].shot], job'[v].stat)
      BY <2>1, <2>2 DEF DInv, RecordsLag, OthersStay
    <2>3. \A s \in Shots : place[s] # None => NoLater(manifest[s], place[s].stat)
      BY <2>1 DEF DInv, RecordsLag
    <2> QED
      BY <2>2, <2>3 DEF RecordsLag, NoLater
  <1> QED
    BY <1>1, <1>2, <1>3, <1>4 DEF DInv

\* Whatever happens outside the workers, the raw files only get newer.
LEMMA OutsideTheWorkers ==
    ASSUME DInv, Roles, UNCHANGED <<place, manifest, job, pc, lock, temps>>, faults \subseteq faults',
           HoldersOwn',
           world' \in [Shots -> Plans], raw' \in [Shots -> Nat \ {0}], away' \subseteq Shots,
           \A s \in Shots : raw'[s] \in RawVersions /\ raw[s] <= raw'[s],
           master' \in [gen : Nat, plan : [Shots -> Plans], links : SUBSET Shots],
           build' \in [at : {"idle", "look", "publish"}, plan : [Shots -> Plans], links : SUBSET Shots],
           clean' \subseteq Workers
    PROVE  DInv'
  <1>0. DataTyped /\ \A s \in Shots : raw[s] \in Nat /\ raw'[s] \in Nat /\ raw[s] <= raw'[s]
    BY DEF DInv, DataTyped
  <1>1. DataTyped'
    BY <1>0 DEF DataTyped
  <1>2. ASSUME NEW c \in Container, NEW s \in Shots, Dated(c, s) PROVE Dated(c, s)'
    <2>1. c.stat \in Nat /\ c.raw \in Nat
      BY SizeTyped
    <2> QED
      BY <1>0, <1>2, <2>1 DEF Dated
  <1>3. ASSUME NEW r \in Record, NEW s \in Shots, Noted(r, s) PROVE Noted(r, s)'
    <2>1. r.stat \in Nat
      BY DEF Record, RawVersions
    <2> QED
      BY <1>0, <1>3, <2>1 DEF Noted
  <1>4. PlaceDated'
    BY <1>0, <1>2 DEF PlaceDated, DInv, DataTyped
  <1>5. AllNoted'
    <2>1. \A w \in Workers : job[w].records \in [Shots -> Record \cup {None}]
      BY <1>0 DEF DataTyped, Jobs
    <2> QED
      BY <1>0, <1>3, <2>1 DEF AllNoted, DInv, DataTyped
  <1>6. ASSUME NEW w \in Workers PROVE InFlight(w)'
    <2>1. /\ job[w].made \in Container /\ job[w].stat \in Nat /\ InFlight(w)
          /\ job[w].shot \in Shots \cup {None}
      BY <1>0 DEF DataTyped, Jobs, RawVersions, DInv
    <2>2. ASSUME job[w].shot \in Shots, job[w].stat <= raw[job[w].shot]
          PROVE  job[w].stat <= raw'[job[w].shot]
      BY <1>0, <2>1, <2>2
    <2>3. pc[w] = "rename" => Dated(job[w].made, job[w].shot)'
      BY <2>1, <1>2 DEF InFlight
    <2> QED
      BY <2>1, <2>2, <2>3 DEF InFlight
  <1>7. RecordsLag'
    BY DEF DInv, RecordsLag, Calm, NoLater
  <1> QED
    BY <1>1, <1>4, <1>5, <1>6, <1>7 DEF DInv

\* No record is of a later file than the one that is there.
LEMMA NotedNoLater ==
    ASSUME DataTyped, NEW s \in Shots, NEW r \in Record \cup {None},
           r # None => Noted(r, s)
    PROVE  NoLater(r, Seen(s))
  BY SeenTyped DEF Noted, NoLater, DataTyped, Seen

\* A container is in place: the others are not in a pass.
LEMMA PlaceChanges ==
    ASSUME DInv, Roles, NEW w \in Workers, pc[w] \in InPass, HoldersOwn', NEW s \in Shots,
           NEW c \in Container \cup {None},
           c # None => Dated(c, s) /\ (Calm => NoLater(manifest[s], c.stat) /\ NoLater(job'[w].records[s], c.stat)),
           place' = [place EXCEPT ![s] = c],
           UNCHANGED <<inputs, manifest, master, build>>, clean' \subseteq Workers, faults' = faults,
           job' \in [Workers -> Jobs], pc' \in [Workers -> PCs], OthersStay(w),
           \A t \in Shots : job'[w].records[t] # None => Noted(job'[w].records[t], t),
           \A t \in Shots \ {s} : job'[w].records[t] = job[w].records[t],
           InFlight(w)', pc'[w] \in {"pass", "beat"}
    PROVE  DInv'
  <1>0. /\ \A t \in Shots \ {s} : place'[t] = place[t]
        /\ place'[s] = c
    BY DEF DInv, DataTyped
  <1>1. DataTyped' /\ PlaceDated'
    BY <1>0 DEF DInv, DataTyped, PlaceDated, Dated, inputs
  <1>2. AllNoted'
    BY DEF DInv, AllNoted, Noted, inputs, OthersStay
  <1>3. ASSUME NEW v \in Workers PROVE InFlight(v)'
    BY DEF DInv, InFlight, OthersStay, inputs, Dated
  <1>4. RecordsLag'
    <2> SUFFICES ASSUME Calm PROVE RecordsLag'
      BY DEF RecordsLag, Calm
    <2>1. \A v \in Workers \ {w} : pc'[v] \notin InPass
      BY DEF DInv, HoldersOwn, OthersStay, Critical
    <2>2. \A t \in Shots : place'[t] # None => NoLater(manifest[t], place'[t].stat)
      BY <1>0 DEF DInv, RecordsLag
    <2>3. \A t \in Shots : place'[t] # None => NoLater(job'[w].records[t], place'[t].stat)
      BY <1>0 DEF DInv, RecordsLag, NoLater
    <2> QED
      BY <2>1, <2>2, <2>3 DEF RecordsLag, NoLater
  <1> QED
    BY <1>1, <1>2, <1>3, <1>4 DEF DInv

\* Every step keeps the records and containers of their types and ages.
LEMMA DStep == IInv /\ DInv /\ [Next]_vars => DInv'
  <1> SUFFICES ASSUME IInv, DInv, [Next]_vars PROVE DInv'
    OBVIOUS
  <1>h. HoldersOwn'
    BY HeldStep DEF DInv
  <1>r. Roles /\ Roles'
    BY StepInv DEF IInv
  <1>d. /\ DataTyped /\ NoJob \in Jobs
        /\ \A w \in Workers : job[w] \in Jobs /\ InFlight(w)
        /\ \A w \in Workers, s \in Shots : job[w].records[s] # None => Noted(job[w].records[s], s)
        /\ Calm => \A w \in Workers : pc[w] \in InPass =>
                     \A s \in Shots : place[s] # None => NoLater(job[w].records[s], place[s].stat)
    BY NoJobTyped DEF DInv, DataTyped, AllNoted, RecordsLag
  <1>e. \A w \in Workers :
          /\ job[w].records \in [Shots -> Record \cup {None}]
          /\ job[w].shot \in Shots \cup {None} /\ job[w].stat \in Nat
          /\ \A t \in job[w].todo : job[w].plan[t] # 0
          /\ job[w].shot # None <=> pc[w] \in {"write", "rename", "move"}
          /\ pc[w] \in {"write", "rename"} =>
               job[w].plan[job[w].shot] # 0 /\ job[w].stat <= raw[job[w].shot]
          /\ pc[w] = "rename" =>
               Dated(job[w].made, job[w].shot) /\ job[w].made.stat = job[w].stat
    BY <1>d DEF InFlight, Jobs, RawVersions
  <1>q. ASSUME NEW w \in Workers, job'[w].shot = None, pc'[w] \notin {"write", "rename", "move"},
               \A t \in job'[w].todo : job'[w].plan[t] # 0
        PROVE  InFlight(w)'
    BY <1>q DEF InFlight
  <1> USE DEF inputs, files, trigger, budget, history, At
  <1>c. faults' = faults => Calm' = Calm
    BY DEF Calm
  \* Outside the workers.
  <1>1. CASE UNCHANGED vars
    BY <1>1, <1>h, <1>r, <1>d, OutsideTheWorkers, SeenTyped DEF vars, DataTyped
  <1>2. ASSUME NEW s \in Shots, (\E v \in Plans : Land(s, v)) \/ Touch(s) PROVE DInv'
    <2>1. /\ world' \in [Shots -> Plans] /\ away' \subseteq Shots
          /\ faults \subseteq faults' /\ clean' \subseteq Workers
          /\ UNCHANGED <<place, manifest, job, pc, lock, temps, master, build>>
      BY <1>2, <1>d, SpendIsRemembered DEF Land, Touch, DataTyped, Outside
    <2>2. /\ raw' \in [Shots -> Nat \ {0}]
          /\ \A t \in Shots : raw'[t] \in RawVersions /\ raw[t] <= raw'[t]
      BY <1>2, <1>d, ConstantsOK DEF Land, Touch, DataTyped, RawVersions
    <2> QED
      BY <2>1, <2>2, <1>h, <1>r, <1>d, OutsideTheWorkers DEF DataTyped
  <1>3. CASE BuildStarts \/ BuildLooks \/ BuildPublishes
    <2>1. /\ UNCHANGED <<inputs, place, manifest, job, pc, lock, temps, faults>>
          /\ clean' = clean \/ clean' = {}
      BY <1>3 DEF BuildStarts, BuildLooks, BuildPublishes
    <2>2. /\ build' \in [at : {"idle", "look", "publish"}, plan : [Shots -> Plans], links : SUBSET Shots]
          /\ master' \in [gen : Nat, plan : [Shots -> Plans], links : SUBSET Shots]
      <3>0. /\ world \in [Shots -> Plans] /\ NoPlan \in [Shots -> Plans] /\ build.links \subseteq Shots
            /\ build.plan \in [Shots -> Plans] /\ master.gen + 1 \in Nat
            /\ build \in [at : {"idle", "look", "publish"}, plan : [Shots -> Plans], links : SUBSET Shots]
            /\ master \in [gen : Nat, plan : [Shots -> Plans], links : SUBSET Shots]
        BY <1>d, NoJobTyped DEF DataTyped
      <3>1. CASE BuildStarts
        BY <3>0, <3>1 DEF BuildStarts
      <3>2. CASE BuildLooks
        <4>1. Linkable(build.plan) \in SUBSET Shots
          BY DEF Linkable
        <4> QED
          BY <3>0, <3>2, <4>1 DEF BuildLooks
      <3>3. CASE BuildPublishes
        BY <3>0, <3>3 DEF BuildPublishes, NoBuild
      <3> QED
        BY <1>3, <3>1, <3>2, <3>3
    <2>3. \A t \in Shots : raw[t] \in Nat /\ raw[t] \in RawVersions
      BY <1>d DEF DataTyped
    <2> QED
      BY <2>1, <2>2, <2>3, <1>h, <1>r, <1>d, OutsideTheWorkers DEF DataTyped
  \* A worker moves on.
  <1>4. ASSUME NEW w \in Workers, UNCHANGED <<inputs, place, manifest, master, build, job, clean>>,
               faults \subseteq faults', NEW p \in PCs, Go(w, p),
               p \notin {"write", "rename", "move"}, pc[w] \notin {"write", "rename", "move"},
               p \in InPass => pc[w] \in InPass
        PROVE  DInv'
    <2>1. pc' \in [Workers -> PCs] /\ pc'[w] = p /\ OthersStay(w)
      BY <1>4, <1>r DEF Go, Roles, OthersStay
    <2>2. InFlight(w)'
      BY <1>4, <2>1, <1>d DEF InFlight
    <2>3. Calm' => Calm
      BY <1>4 DEF Calm
    <2>4. job' \in [Workers -> Jobs] /\ clean' \subseteq Workers
      BY <1>4, <1>d DEF DataTyped
    <2>5. \A s \in Shots : job'[w].records[s] # None => Noted(job'[w].records[s], s)
      BY <1>4, <1>d
    <2> QED
      BY <1>4, <2>1, <2>2, <2>3, <2>4, <2>5, <1>h, <1>r, <1>d, OneJob
  <1>5. ASSUME NEW w \in Workers, Spawn(w) PROVE DInv'
    <2>1. CASE UNCHANGED pc
      BY <1>5, <2>1, <1>h, <1>r, <1>d, OutsideTheWorkers, SeenTyped DEF Spawn, DataTyped
    <2>2. CASE Go(w, "outer")
      BY <1>5, <2>2, <1>4 DEF Spawn, PCs, InPass
    <2> QED
      BY <1>5, <2>1, <2>2 DEF Spawn
  <1>6. ASSUME NEW w \in Workers, Acquire(w) \/ LeaveLoop(w) \/ NoRequest(w) \/ Release(w) \/ FlushDue(w)
        PROVE DInv'
    <2>1. /\ UNCHANGED <<inputs, place, manifest, master, build, job, clean>> /\ faults \subseteq faults'
          /\ \/ pc[w] \in {"outer", "inner", "release"} /\ \E p \in {"inner", "judge", "release", "outer"} : Go(w, p)
             \/ pc[w] \in {"pass", "beat"} /\ Go(w, "flush")
      BY <1>6, SpendIsRemembered DEF Acquire, LeaveLoop, NoRequest, Release, FlushDue, Done, Outside
    <2> QED
      BY <2>1, <1>4 DEF PCs, InPass
  <1>7. ASSUME NEW w \in Workers, JudgeLinks(w) \/ Overtaken(w) \/ RunFails(w) PROVE DInv'
    <2>1. /\ UNCHANGED <<inputs, place, manifest, master, build>> /\ faults \subseteq faults'
          /\ clean' \subseteq clean /\ Ends(w)
      BY <1>7, SpendIsRemembered DEF JudgeLinks, Overtaken, RunFails, Outside
    <2>2. /\ job' \in [Workers -> Jobs] /\ pc' \in [Workers -> PCs] /\ OthersStay(w)
          /\ job'[w] = NoJob /\ pc'[w] = "idle"
      BY <2>1, <1>d, <1>r, EndsDoes
    <2>3. InFlight(w)' /\ pc'[w] \notin InPass /\ \A s \in Shots : job'[w].records[s] = None
      BY <2>2, NoJobTyped DEF InFlight, InPass
    <2>4. clean' \subseteq Workers
      BY <2>1, <1>d DEF DataTyped
    <2> QED
      BY <2>1, <2>2, <2>3, <2>4, <1>h, <1>r, OneJob
  <1>8. ASSUME NEW w \in Workers, TakeRequest(w) PROVE DInv'
    <2>1. /\ UNCHANGED <<inputs, place, manifest, master, build, clean, faults>>
      BY <1>8 DEF TakeRequest
    <2>2. InFlight(w)' /\ pc'[w] \notin InPass
      <3>1. /\ job'[w].todo = job[w].todo /\ job'[w].plan = job[w].plan /\ job'[w].shot = job[w].shot
            /\ pc[w] = "inner" /\ pc'[w] = "read"
        BY <1>8, <1>r, TakeDoes
      <3>2. job'[w].shot = None /\ \A t \in job'[w].todo : job'[w].plan[t] # 0
        BY <3>1, <1>e
      <3> QED
        BY <3>1, <3>2, <1>q DEF InPass
    <2>3. /\ job' \in [Workers -> Jobs] /\ pc' \in [Workers -> PCs] /\ OthersStay(w)
          /\ job'[w].records = job[w].records
      BY <1>8, <1>r, TakeDoes
    <2>4. clean' \subseteq Workers /\ \A t \in Shots : job'[w].records[t] # None => Noted(job'[w].records[t], t)
      BY <1>d, <2>1, <2>3 DEF DataTyped
    <2> QED
      BY <2>1, <2>2, <2>3, <2>4, <1>h, <1>r, OneJob
  <1>9. ASSUME NEW w \in Workers, PassEnds(w) PROVE DInv'
    <2>1. /\ UNCHANGED <<inputs, place, manifest, master, build, faults>> /\ clean' \subseteq Workers
      BY <1>9, <1>d DEF PassEnds, DataTyped
    <2>2. InFlight(w)' /\ pc'[w] \notin InPass
      BY <1>9, <1>r, <1>d, PassEndsDoes DEF InFlight, InPass
    <2>3. \A s \in Shots : job'[w].records[s] = None
      BY <1>9, <1>r, PassEndsDoes, NoJobTyped
    <2> QED
      BY <1>9, <2>1, <2>2, <2>3, <1>h, <1>r, <1>d, PassEndsDoes, OneJob
  <1>10. ASSUME NEW w \in Workers, StartPass(w) PROVE DInv'
    <2>1. /\ UNCHANGED <<inputs, place, manifest, master, build, faults>> /\ clean' \subseteq Workers
      BY <1>10, <1>d DEF StartPass, DataTyped
    <2>2. InFlight(w)'
      <3>1. /\ pc[w] = "read" /\ pc'[w] = "pass" /\ job'[w].plan = master.plan
            /\ job'[w].todo = {s \in Shots : master.plan[s] # 0} /\ job'[w].shot = job[w].shot
        BY <1>10, <1>r, StartDoes
      <3>2. job'[w].shot = None /\ \A t \in job'[w].todo : job'[w].plan[t] # 0
        BY <3>1, <1>e
      <3> QED
        BY <3>1, <3>2, <1>q
    <2>3. \A s \in Shots : job'[w].records[s] # None => Noted(job'[w].records[s], s)
      BY <1>10, <1>r, StartDoes DEF DInv, AllNoted
    <2>4. Calm' => \A s \in Shots : place[s] # None => NoLater(job'[w].records[s], place[s].stat)
      BY <1>10, <2>1, <1>c, <1>r, StartDoes DEF DInv, RecordsLag
    <2>5. pc'[w] = "pass"
      BY <1>10, <1>r, StartDoes
    <2> QED
      BY <1>10, <2>1, <2>2, <2>3, <2>4, <2>5, <1>h, <1>r, <1>d, StartDoes, OneJob
  <1>11. ASSUME NEW w \in Workers, NEW s \in Shots, Look(w, s) PROVE DInv'
    <2>1. /\ UNCHANGED <<inputs, place, manifest, master, build, faults, clean>> /\ pc[w] = "pass"
          /\ pc[w] \in InPass /\ pc'[w] \in {"pass", "write"}
      BY <1>11, <1>r, LookDoes DEF InPass
    <2>2. /\ job' \in [Workers -> Jobs] /\ pc' \in [Workers -> PCs] /\ OthersStay(w)
          /\ job'[w].todo = job[w].todo \ {s} /\ job'[w].plan = job[w].plan /\ s \in job[w].todo
          /\ clean' \subseteq Workers /\ Seen(s) <= raw[s]
      BY <1>11, <2>1, <1>d, <1>r, LookDoes, SeenTyped DEF SameRun, Roles, DataTyped
    <2>3. InFlight(w)'
      <3>0. /\ \A t \in job'[w].todo : job'[w].plan[t] # 0
            /\ job'[w].plan[s] # 0 /\ s # None
        BY <2>2, <1>e, ConstantsOK
      <3>1. CASE pc'[w] = "write" /\ job'[w].shot = s /\ job'[w].stat = Seen(s)
        BY <2>1, <2>2, <3>0, <3>1 DEF InFlight
      <3>2. CASE pc'[w] = "pass" /\ job'[w].shot = job[w].shot
        BY <2>1, <3>0, <3>2, <1>e, <1>q
      <3> QED
        BY <1>11, <1>r, LookDoes, <3>1, <3>2
    <2>4. CASE job'[w].records = job[w].records
      <3>1. ASSUME pc'[w] = "write", Calm
            PROVE  /\ job'[w].shot = s /\ job'[w].stat = Seen(s)
                   /\ NoLater(manifest[s], Seen(s)) /\ NoLater(job[w].records[s], Seen(s))
        <4>1. job'[w].shot = s /\ job'[w].stat = Seen(s)
          BY <1>11, <1>r, <3>1, LookDoes
        <4>2. /\ manifest[s] \in Record \cup {None} /\ job[w].records[s] \in Record \cup {None}
              /\ manifest[s] # None => Noted(manifest[s], s)
          BY <1>d DEF DataTyped, Jobs, DInv, AllNoted
        <4> QED
          BY <4>1, <4>2, <1>d, NotedNoLater
      <3>2. \A t \in Shots : job'[w].records[t] # None => Noted(job'[w].records[t], t)
        BY <2>4, <1>d
      <3>3. Calm => \A t \in Shots : place[t] # None => NoLater(job'[w].records[t], place[t].stat)
        BY <2>4, <1>d, <2>1
      <3>4. Calm' /\ pc'[w] \in {"write", "rename"} =>
              /\ NoLater(manifest[job'[w].shot], job'[w].stat)
              /\ NoLater(job'[w].records[job'[w].shot], job'[w].stat)
        BY <3>1, <2>1, <1>c, <2>4
      <3> QED
        BY <1>c, <2>1, <2>2, <2>3, <2>4, <3>2, <3>3, <3>4, <1>h, <1>r, OneJob
    <2>5. CASE /\ pc'[w] = "pass" /\ place[s] \in Container /\ place[s] # None
               /\ job'[w].records = [job[w].records EXCEPT ![s] = RecordOf(place[s])]
      <3>1. Noted(RecordOf(place[s]), s) /\ NoLater(RecordOf(place[s]), place[s].stat)
        BY <2>5, OwnRecord DEF DInv, PlaceDated
      <3>2. \A t \in Shots : job'[w].records[t] = (IF t = s THEN RecordOf(place[s]) ELSE job[w].records[t])
        BY <2>5, <1>d DEF Jobs
      <3>3. \A t \in Shots : job'[w].records[t] # None => Noted(job'[w].records[t], t)
        BY <3>1, <3>2, <1>d
      <3>4. Calm => \A t \in Shots : place[t] # None => NoLater(job'[w].records[t], place[t].stat)
        BY <3>1, <3>2, <1>d, <2>1
      <3>5. pc'[w] \notin {"write", "rename"}
        BY <2>5
      <3> QED
        BY <1>c, <2>1, <2>2, <2>3, <3>3, <3>4, <3>5, <1>h, <1>r, OneJob
    <2> QED
      BY <2>4, <2>5, <1>11, <1>r, LookDoes
  <1>12. ASSUME NEW w \in Workers, Write(w) PROVE DInv'
    <2>1. /\ UNCHANGED <<inputs, place, manifest, master, build, faults, clean>> /\ clean' \subseteq Workers
      BY <1>12, <1>d DEF Write, DataTyped
    <2>2. PICK s \in Shots : s = job[w].shot
      BY <1>12, <1>r, WriteDoes
    <2>3. /\ pc[w] = "write" /\ pc'[w] = "rename" /\ pc[w] \in InPass
          /\ job' \in [Workers -> Jobs] /\ pc' \in [Workers -> PCs] /\ OthersStay(w)
          /\ job'[w].made = [plan |-> job[w].plan[s], stat |-> job[w].stat, raw |-> Seen(s)]
          /\ job'[w].shot = s /\ job'[w].stat = job[w].stat
          /\ job'[w].plan = job[w].plan /\ job'[w].todo = job[w].todo
          /\ job'[w].records = job[w].records
      BY <1>12, <1>r, <2>2, WriteDoes DEF SameRun, InPass
    <2>4. /\ job[w].plan[s] # 0 /\ job[w].stat <= raw[s] /\ job[w].stat \in Nat /\ raw[s] \in Nat
          /\ Seen(s) <= raw[s] /\ (Seen(s) # 0 => Seen(s) = raw[s]) /\ s # None
      BY <1>d, <1>e, <2>2, <2>3, SeenTyped, ConstantsOK
    <2>5. Dated(job'[w].made, s)
      BY <2>3, <2>4 DEF Dated
    <2>5a. Dated(job[w].made, s)'
      BY <2>1, <2>5 DEF Dated
    <2>6. InFlight(w)'
      BY <2>1, <2>3, <2>4, <2>5a, <1>e DEF InFlight
    <2>7. Calm => NoLater(manifest[s], job[w].stat) /\ NoLater(job[w].records[s], job[w].stat)
      BY <2>2, <2>3 DEF DInv, RecordsLag
    <2>8. /\ \A t \in Shots : job'[w].records[t] # None => Noted(job'[w].records[t], t)
          /\ Calm => \A t \in Shots : place[t] # None => NoLater(job'[w].records[t], place[t].stat)
      BY <2>3, <1>d
    <2>9. Calm => NoLater(manifest[job'[w].shot], job'[w].stat) /\ NoLater(job'[w].records[job'[w].shot], job'[w].stat)
      BY <2>3, <2>7
    <2> QED
      BY <1>c, <2>1, <2>3, <2>6, <2>8, <2>9, <1>h, <1>r, OneJob
  <1>13. ASSUME NEW w \in Workers, Rename(w) PROVE DInv'
    <2>1. /\ UNCHANGED <<inputs, manifest, master, build, faults, clean>> /\ clean' \subseteq Workers
      BY <1>13, <1>d DEF Rename, DataTyped
    <2>2. PICK s \in Shots, c \in Container : s = job[w].shot /\ c = job[w].made
      BY <1>13, <1>r, RenameDoes
    <2>3. /\ Dated(c, s) /\ c.stat = job[w].stat /\ pc[w] = "rename" /\ pc[w] \in InPass
          /\ pc'[w] \in {"pass", "beat"} /\ place' = [place EXCEPT ![s] = c]
      BY <1>13, <1>r, <1>e, <2>2, RenameDoes DEF InPass
    <2>4. /\ RecordOf(c) \in Record /\ Noted(RecordOf(c), s) /\ NoLater(RecordOf(c), c.stat)
      BY <2>3, OwnRecord
    <2>5. \A t \in Shots : job'[w].records[t] = (IF t = s THEN RecordOf(c) ELSE job[w].records[t])
      <3>1. job'[w].records = [job[w].records EXCEPT ![s] = RecordOf(c)]
        BY <1>13, <1>r, <2>2, RenameDoes
      <3> QED
        BY <3>1, <1>e
    <2>6. InFlight(w)'
      <3>1. job'[w].shot = None /\ job'[w].todo = job[w].todo /\ job'[w].plan = job[w].plan
        BY <1>13, <1>r, RenameDoes
      <3> QED
        BY <3>1, <2>3, <1>e, <1>q
    <2>7. Calm => NoLater(manifest[s], c.stat) /\ NoLater(job'[w].records[s], c.stat)
      BY <2>2, <2>3, <2>4, <2>5 DEF DInv, RecordsLag
    <2>8. \A t \in Shots : job'[w].records[t] # None => Noted(job'[w].records[t], t)
      BY <2>4, <2>5, <1>d
    <2>9. job' \in [Workers -> Jobs] /\ pc' \in [Workers -> PCs] /\ OthersStay(w)
      BY <1>13, <1>r, RenameDoes
    <2> QED
      BY <2>1, <2>3, <2>5, <2>6, <2>7, <2>8, <2>9, <1>h, <1>r, PlaceChanges
  <1>14. ASSUME NEW w \in Workers, RenameFails(w) \/ WriteFails(w) PROVE DInv'
    <2>0. ContainerFailed(w) /\ pc[w] \in {"write", "rename"} /\ faults \subseteq faults'
      BY <1>14, SpendIsRemembered DEF RenameFails, WriteFails, Outside
    <2>1. /\ UNCHANGED <<inputs, place, manifest, master, build>> /\ clean' \subseteq Workers
          /\ pc[w] \in InPass /\ (Calm' => Calm)
      BY <2>0, <1>d DEF ContainerFailed, DataTyped, InPass, Calm
    <2>2. /\ job' \in [Workers -> Jobs] /\ pc' \in [Workers -> PCs] /\ OthersStay(w)
          /\ pc'[w] = "pass"
      BY <2>0, <1>r, FailDoes
    <2>3. \A t \in Shots : job'[w].records[t] = (IF t = job[w].shot THEN None ELSE job[w].records[t])
      <3>1. job'[w].records = [job[w].records EXCEPT ![job[w].shot] = None]
        BY <2>0, <1>r, FailDoes
      <3> QED
        BY <3>1, <1>e
    <2>4. InFlight(w)'
      <3>1. job'[w].shot = None /\ job'[w].todo = job[w].todo /\ job'[w].plan = job[w].plan
        BY <2>0, <1>r, FailDoes DEF SameRun
      <3> QED
        BY <3>1, <2>2, <1>e, <1>q
    <2>5. \A t \in Shots : job'[w].records[t] # None => Noted(job'[w].records[t], t)
      BY <2>3, <1>d
    <2>6. Calm' => \A t \in Shots : place[t] # None => NoLater(job'[w].records[t], place[t].stat)
      BY <2>1, <2>3, <1>d DEF NoLater
    <2> QED
      BY <2>0, <2>1, <2>2, <2>4, <2>5, <2>6, <1>h, <1>r, OneJob
  <1>15. ASSUME NEW w \in Workers, Collect(w) PROVE DInv'
    <2>1. /\ UNCHANGED <<inputs, place, manifest, master, build, faults, clean>> /\ clean' \subseteq Workers
      BY <1>15, <1>d DEF Collect, DataTyped
    <2>2. /\ pc'[w] = "move" /\ pc[w] \in InPass /\ job'[w].shot \in Shots
          /\ job'[w].plan[job'[w].shot] = 0
      BY <1>15, <1>r, CollectDoes DEF Garbage, SameRun, InPass
    <2>3. InFlight(w)'
      <3>1. job'[w].todo = job[w].todo /\ job'[w].plan = job[w].plan
        BY <1>15, <1>r, CollectDoes DEF SameRun
      <3>2. \A t \in job'[w].todo : job'[w].plan[t] # 0
        BY <3>1, <1>e
      <3> QED
        BY <3>2, <2>2, ConstantsOK DEF InFlight
    <2> QED
      BY <1>15, <1>c, <2>1, <2>2, <2>3, <1>h, <1>r, <1>d, CollectDoes, OneJob
  <1>16. ASSUME NEW w \in Workers, Move(w) PROVE DInv'
    <2>1. /\ UNCHANGED <<inputs, manifest, master, build, faults, clean>> /\ clean' \subseteq Workers
      BY <1>16, <1>d DEF Move, DataTyped
    <2>2. PICK s \in Shots : s = job[w].shot
      BY <1>16, <1>r, MoveDoes
    <2>3. pc[w] \in InPass /\ pc'[w] \in {"pass", "beat"} /\ place' = [place EXCEPT ![s] = None]
      BY <1>16, <1>r, <2>2, MoveDoes DEF InPass
    <2>5. \A t \in Shots : job'[w].records[t] = (IF t = s THEN None ELSE job[w].records[t])
      <3>1. job'[w].records = [job[w].records EXCEPT ![s] = None]
        BY <1>16, <1>r, <2>2, MoveDoes
      <3> QED
        BY <3>1, <1>e
    <2>6. InFlight(w)'
      <3>1. job'[w].shot = None /\ job'[w].todo = job[w].todo /\ job'[w].plan = job[w].plan
        BY <1>16, <1>r, MoveDoes
      <3> QED
        BY <3>1, <2>3, <1>e, <1>q
    <2>8. \A t \in Shots : job'[w].records[t] # None => Noted(job'[w].records[t], t)
      BY <2>5, <1>d
    <2>9. job' \in [Workers -> Jobs] /\ pc' \in [Workers -> PCs] /\ OthersStay(w)
      BY <1>16, <1>r, MoveDoes
    <2> QED
      BY <2>1, <2>3, <2>5, <2>6, <2>8, <2>9, <1>h, <1>r, PlaceChanges
  <1>17. ASSUME NEW w \in Workers, Flush(w) PROVE DInv'
    <2>1. /\ UNCHANGED <<inputs, place, master, build, faults, clean>> /\ clean' \subseteq Workers
      BY <1>17, <1>d DEF Flush, DataTyped
    <2>2. /\ job' \in [Workers -> Jobs] /\ pc' \in [Workers -> PCs] /\ OthersStay(w)
          /\ pc[w] = "flush" /\ pc'[w] = "pass" /\ job'[w].records = job[w].records
          /\ job'[w].todo = job[w].todo /\ job'[w].shot = job[w].shot /\ job'[w].plan = job[w].plan
          /\ manifest' = job[w].records /\ job[w].records \in [Shots -> Record \cup {None}]
          /\ pc[w] \in InPass
      BY <1>17, <1>r, <1>d, FlushDoes DEF SameRun, Jobs, InPass
    <2>3. DataTyped' /\ PlaceDated'
      BY <2>1, <2>2 DEF DInv, DataTyped, PlaceDated, Dated
    <2>4. AllNoted'
      BY <2>1, <2>2 DEF DInv, AllNoted, Noted, OthersStay
    <2>5. ASSUME NEW v \in Workers PROVE InFlight(v)'
      <3>1. CASE v = w
        BY <2>1, <2>2, <3>1, <1>d DEF InFlight
      <3>2. CASE v # w
        BY <2>1, <2>2, <3>2, <1>d DEF InFlight, OthersStay, Dated
      <3> QED
        BY <3>1, <3>2
    <2>6. RecordsLag'
      <3> SUFFICES ASSUME Calm PROVE RecordsLag'
        BY <2>1 DEF RecordsLag, Calm
      <3>1. \A v \in Workers \ {w} : pc'[v] \notin InPass
        BY <2>2 DEF DInv, HoldersOwn, OthersStay, Critical
      <3>2. \A t \in Shots : place[t] # None => NoLater(job[w].records[t], place[t].stat)
        BY <1>d, <2>2
      <3> QED
        BY <2>1, <2>2, <3>1, <3>2 DEF RecordsLag, NoLater
    <2> QED
      BY <2>3, <2>4, <2>5, <2>6, <1>h DEF DInv
  <1> QED
    BY <1>1, <1>2, <1>3, <1>5, <1>6, <1>7, <1>8, <1>9, <1>10, <1>11, <1>12, <1>13, <1>14,
       <1>15, <1>16, <1>17 DEF Next, Run, Pass

\* They are so at the start.
LEMMA DInit == Init => DInv
  <1> SUFFICES ASSUME Init PROVE DInv
    OBVIOUS
  <1>1. DataTyped
    <2>1. /\ world \in [Shots -> Plans] /\ build \in [at : {"idle", "look", "publish"}, plan : [Shots -> Plans], links : SUBSET Shots]
          /\ master \in [gen : Nat, plan : [Shots -> Plans], links : SUBSET Shots]
      BY ConstantsOK, NoJobTyped DEF Init, NoBuild, Plans
    <2>2. /\ raw \in [Shots -> Nat \ {0}] /\ away \subseteq Shots /\ (\A s \in Shots : raw[s] \in RawVersions)
      BY ConstantsOK DEF Init, RawVersions
    <2>3. place \in [Shots -> Container \cup {None}]
      BY ForeignTyped DEF Init
    <2> QED
      BY <2>1, <2>2, <2>3, NoJobTyped DEF Init, DataTyped
  <1>2. HoldersOwn
    BY DEF Init, HoldersOwn, Critical, InPass
  <1>3. PlaceDated
    <2>1. \A s \in Shots : place[s] # None => place[s] = Foreign
      BY DEF Init
    <2>2. \A s \in Shots : Dated(Foreign, s)
      BY <1>1, ForeignTyped DEF DataTyped, Dated, Foreign
    <2> QED
      BY <2>1, <2>2 DEF PlaceDated
  <1>4. AllNoted /\ RecordsLag
    BY NoJobTyped DEF Init, AllNoted, RecordsLag, NoLater, InPass
  <1>5. \A w \in Workers : InFlight(w)
    BY NoJobTyped DEF Init, InFlight
  <1> QED
    BY <1>1, <1>2, <1>3, <1>4, <1>5 DEF DInv
(***************************************************************************)
(* A pass while nothing failed, and a clean pass.                          *)
(***************************************************************************)

\* Under the lock there is one worker.
LEMMA OneAtWork ==
    ASSUME DInv, Calm, NEW w \in Workers, pc[w] \in Critical
    PROVE  lock = w /\ \A v \in Workers \ {w} : pc[v] \notin Critical
  BY DEF DInv, HoldersOwn

\* Who is not in a pass changes nothing about those who are.
LEMMA PassesGoOn ==
    ASSUME RecordsExact, Progress, UNCHANGED <<place, manifest>>, faults \subseteq faults',
           \A v \in Workers : /\ pc'[v] \in InPass <=> pc[v] \in InPass
                              /\ pc[v] \in InPass => job'[v] = job[v]
    PROVE  RecordsExact' /\ Progress'
  <1> SUFFICES ASSUME Smooth' PROVE RecordsExact' /\ Progress'
    BY DEF RecordsExact, Progress
  <1>1. Smooth
    BY DEF Smooth
  <1>2. RecordsExact'
    BY <1>1 DEF RecordsExact, Exact
  <1>3. Progress'
    BY <1>1 DEF Progress, Behind, InPlace
  <1> QED
    BY <1>2, <1>3

\* The one pass there is goes on, and keeps its own part.
LEMMA PassGoesOn ==
    ASSUME DInv, NEW w \in Workers, pc[w] \in Critical, OthersStay(w), faults \subseteq faults',
           pc'[w] \in InPass,
           Smooth' => /\ Exact(job[w].records)'
                      /\ job'[w].dirty \/ manifest' = job'[w].records
                      /\ \A s \in Behind(w)' : InPlace(s)' /\ place'[s].plan = job'[w].plan[s]
    PROVE  RecordsExact' /\ Progress'
  <1> SUFFICES ASSUME Smooth' PROVE RecordsExact' /\ Progress'
    BY DEF RecordsExact, Progress
  <1>1. Calm
    BY DEF Smooth, Calm
  <1>2. \A v \in Workers \ {w} : pc'[v] \notin InPass
    BY <1>1, OneAtWork DEF OthersStay, Critical
  <1>3. RecordsExact'
    BY <1>2 DEF RecordsExact
  <1>4. Progress'
    BY <1>2 DEF Progress
  <1> QED
    BY <1>3, <1>4

\* The clean passes stay clean when neither they nor what they saw change.
LEMMA CleanGoOn ==
    ASSUME CleanIsCurrent, UNCHANGED <<raw, away, place>>, master'.plan = master.plan,
           faults \subseteq faults', clean' \subseteq clean, clean \subseteq Workers,
           \A v \in clean' : pc[v] \in InPass =>
              job'[v] = job[v] /\ (pc'[v] = pc[v] \/ pc'[v] \in InPass \ {"write", "rename"})
    PROVE  CleanIsCurrent'
  <1> SUFFICES ASSUME Trusted', NEW v \in clean'
               PROVE  /\ pc'[v] \in InPass /\ job'[v].plan = master'.plan
                      /\ \A s \in Behind(v)' : Current(s)'
                      /\ pc'[v] \in {"write", "rename"} => job'[v].stat = Seen(job[v].shot)'
                      /\ pc'[v] = "rename" => job'[v].made.raw = Seen(job[v].shot)'
    BY DEF CleanIsCurrent
  <1>1. Trusted /\ v \in clean
    BY DEF Trusted, Calm, Smooth
  <1>2. /\ pc[v] \in InPass /\ job[v].plan = master.plan
        /\ \A s \in Behind(v) : Current(s)
        /\ pc[v] \in {"write", "rename"} => job[v].stat = Seen(job[v].shot)
        /\ pc[v] = "rename" => job[v].made.raw = Seen(job[v].shot)
    BY <1>1 DEF CleanIsCurrent
  <1>3. job'[v] = job[v] /\ (pc'[v] = pc[v] \/ pc'[v] \in InPass \ {"write", "rename"})
    BY <1>2
  <1>4. \A s \in Behind(v)' : Current(s)'
    BY <1>2, <1>3 DEF Behind, Current, InPlace, Seen, CameOrWentWhileRead
  <1> QED
    BY <1>2, <1>3, <1>4 DEF Seen

\* The one pass there is goes on, and stays clean if it was.
LEMMA CleanGoesOn ==
    ASSUME DInv, CleanIsCurrent, NEW w \in Workers, pc[w] \in Critical, OthersStay(w),
           faults \subseteq faults', pc'[w] \in InPass, clean' \subseteq clean \cup {w},
           Trusted' /\ w \in clean' =>
              /\ job'[w].plan = master'.plan
              /\ \A s \in Behind(w)' : Current(s)'
              /\ pc'[w] \in {"write", "rename"} => job'[w].stat = Seen(job[w].shot)'
              /\ pc'[w] = "rename" => job'[w].made.raw = Seen(job[w].shot)'
    PROVE  CleanIsCurrent'
  <1> SUFFICES ASSUME Trusted' PROVE CleanIsCurrent'
    BY DEF CleanIsCurrent
  <1>1. Trusted /\ Calm /\ clean \subseteq Workers
    BY DEF Trusted, Calm, Smooth, DInv, DataTyped
  <1>2. \A v \in Workers \ {w} : pc[v] \notin InPass
    BY <1>1, OneAtWork DEF Critical
  <1>3. \A v \in clean : pc[v] \in InPass
    BY <1>1 DEF CleanIsCurrent
  <1>4. clean' \subseteq {w}
    BY <1>1, <1>2, <1>3
  <1> QED
    BY <1>4 DEF CleanIsCurrent

\* A container of the file as it is has its data, unless the file came or went.
LEMMA SeenIsCurrent ==
    ASSUME DataTyped, PlaceDated, NEW s \in Shots, InPlace(s),
           place[s].plan = master.plan[s], place[s].stat = Seen(s)
    PROVE  Current(s)
  <1>1. PICK c \in Container : c = place[s] /\ c # None
    BY DEF DataTyped, InPlace
  <1>2. /\ c.stat \in Nat /\ c.raw \in Nat /\ raw[s] \in Nat /\ Dated(c, s)
        /\ Seen(s) # 0 => Seen(s) = raw[s]
    BY <1>1, SizeTyped, SeenTyped DEF PlaceDated
  <1>3. c.raw = Seen(s) \/ ~ (c.stat = 0 <=> c.raw = 0)
    BY <1>1, <1>2 DEF Dated
  <1> QED
    BY <1>1, <1>3 DEF Current, CameOrWentWhileRead

\* What a pass does, step by step.
QInv == RecordsExact /\ Progress /\ CleanIsCurrent

\* A shot that is up to date is left behind as it is.
LEMMA LookLeaves ==
    ASSUME DInv, QInv, Roles, NEW w \in Workers, NEW s \in Shots, Look(w, s), Trusted,
           ~ NeedsWriting(s, job[w].records[s], job[w].plan[s], Seen(s))
    PROVE  InPlace(s) /\ place[s].plan = job[w].plan[s] /\ place[s].stat = Seen(s)
  <1>1. pc[w] = "pass" /\ s \in job[w].todo /\ pc[w] \in InPass
    BY LookDoes DEF InPass
  <1>2. /\ job[w].plan[s] \in Plans \ {0} /\ job[w].records[s] \in Record \cup {None}
        /\ DataTyped /\ PlaceDated
    BY <1>1 DEF DInv, DataTyped, InFlight, Jobs
  <1>3. /\ job[w].records[s] # None => Noted(job[w].records[s], s)
        /\ place[s] # None => NoLater(job[w].records[s], place[s].stat)
    BY <1>1 DEF DInv, AllNoted, RecordsLag, Trusted
  <1>4. SizesTell \/ (job[w].records[s] # None => job[w].records[s] = RecordOf(place[s]))
    BY <1>1 DEF QInv, RecordsExact, Exact, Trusted
  <1> QED
    BY <1>2, <1>3, <1>4, LookFinds

\* Looking at a shot keeps a pass as it should be.
LEMMA LookPasses ==
    ASSUME DInv, QInv, Roles, NEW w \in Workers, NEW s \in Shots, Look(w, s)
    PROVE  QInv'
  <1> USE DEF inputs, files, trigger, budget, history
  <1>1. /\ pc[w] = "pass" /\ pc[w] \in InPass /\ pc[w] \in Critical /\ s \in job[w].todo
        /\ UNCHANGED <<inputs, place, manifest, master, clean, faults>>
        /\ OthersStay(w) /\ job'[w].plan = job[w].plan /\ job'[w].todo = job[w].todo \ {s}
        /\ job[w].shot = None /\ job[w].plan[s] # 0 /\ s # None
    BY LookDoes, ConstantsOK DEF InPass, Critical, SameRun, DInv, InFlight
  <1>t. /\ clean \subseteq Workers /\ clean' \subseteq clean \cup {w}
        /\ job[w].records \in [Shots -> Record \cup {None}]
    BY <1>1 DEF DInv, DataTyped, Jobs
  <1>f. Smooth' = Smooth /\ Trusted' = Trusted
    BY <1>1 DEF Smooth, Trusted, Calm
  <1>2. CASE /\ pc'[w] = "write" /\ job'[w].shot = s /\ job'[w].stat = Seen(s)
             /\ job'[w].records = job[w].records /\ job'[w].dirty = job[w].dirty
    <2>1. Behind(w)' = Behind(w) /\ pc'[w] \in InPass
      <3>1. ASSUME NEW t \in Shots
            PROVE  (t \notin job'[w].todo /\ t # job'[w].shot) <=> (t \notin job[w].todo /\ t # job[w].shot)
        BY <1>1, <1>2, ConstantsOK
      <3> QED
        BY <1>1, <1>2, <3>1 DEF Behind, InPass
    <2>2. Smooth => /\ Exact(job[w].records)'
                    /\ job'[w].dirty \/ manifest' = job'[w].records
                    /\ \A t \in Behind(w)' : InPlace(t)' /\ place'[t].plan = job'[w].plan[t]
      BY <1>1, <1>2, <2>1 DEF QInv, RecordsExact, Progress, Exact, InPlace
    <2>3. Trusted /\ w \in clean =>
              /\ job'[w].plan = master'.plan
              /\ \A t \in Behind(w)' : Current(t)'
              /\ pc'[w] \in {"write", "rename"} => job'[w].stat = Seen(job[w].shot)'
              /\ pc'[w] = "rename" => job'[w].made.raw = Seen(job[w].shot)'
      BY <1>1, <1>2, <2>1 DEF QInv, CleanIsCurrent, Current, InPlace, Seen, CameOrWentWhileRead
    <2>4. RecordsExact' /\ Progress'
      BY <1>1, <1>f, <2>1, <2>2, PassGoesOn
    <2>5. CleanIsCurrent'
      BY <1>1, <1>f, <1>t, <2>1, <2>3, CleanGoesOn DEF QInv
    <2> QED
      BY <2>4, <2>5 DEF QInv
  <1>3. CASE /\ ~ NeedsWriting(s, job[w].records[s], job[w].plan[s], Seen(s))
             /\ pc'[w] = "pass" /\ job'[w].shot = job[w].shot
             /\ \/ job'[w].records = job[w].records /\ job'[w].dirty = job[w].dirty
                \/ /\ place[s] \in Container /\ place[s] # None
                   /\ job'[w].records = [job[w].records EXCEPT ![s] = RecordOf(place[s])]
                   /\ job'[w].dirty = TRUE
    <2>1. pc'[w] \in InPass /\ Behind(w)' = Behind(w) \cup {s}
      BY <1>1, <1>3 DEF Behind, InPass
    <2>l. Trusted => InPlace(s) /\ place[s].plan = job[w].plan[s] /\ place[s].stat = Seen(s)
      BY <1>3, LookLeaves
    <2>s. Smooth => Trusted
      BY DEF Smooth, Trusted, Calm
    <2>2. ASSUME Smooth
          PROVE  /\ Exact(job[w].records)'
                 /\ job'[w].dirty \/ manifest' = job'[w].records
                 /\ \A t \in Behind(w)' : InPlace(t)' /\ place'[t].plan = job'[w].plan[t]
      <3>1. Exact(job[w].records) /\ (job[w].dirty \/ manifest = job[w].records)
        BY <1>1, <2>2 DEF QInv, RecordsExact
      <3>2. Exact(job[w].records)' /\ (job'[w].dirty \/ manifest' = job'[w].records)
        BY <1>1, <1>t, <1>3, <3>1 DEF Exact
      <3>3. \A t \in Behind(w)' : InPlace(t)' /\ place'[t].plan = job'[w].plan[t]
        BY <1>1, <2>1, <2>2, <2>l, <2>s DEF QInv, Progress, InPlace
      <3> QED
        BY <3>2, <3>3
    <2>3. ASSUME Trusted, w \in clean
          PROVE  job'[w].plan = master'.plan /\ \A t \in Behind(w)' : Current(t)'
      <3>1. job[w].plan = master.plan /\ \A t \in Behind(w) : Current(t)
        BY <2>3 DEF QInv, CleanIsCurrent
      <3>2. Current(s)
        BY <2>3, <2>l, <3>1, SeenIsCurrent DEF DInv
      <3> QED
        BY <1>1, <2>1, <3>1, <3>2 DEF Current, InPlace, Seen, CameOrWentWhileRead
    <2>4. RecordsExact' /\ Progress'
      BY <1>1, <1>f, <2>1, <2>2, PassGoesOn
    <2>5. CleanIsCurrent'
      BY <1>1, <1>f, <1>t, <1>3, <2>1, <2>3, CleanGoesOn DEF QInv
    <2> QED
      BY <2>4, <2>5 DEF QInv
  <1> QED
    BY <1>2, <1>3, LookDoes

\* So does the start of a pass,
LEMMA StartPasses ==
    ASSUME DInv, QInv, Roles, NEW w \in Workers, StartPass(w)
    PROVE  QInv'
  <1> USE DEF inputs, files, trigger, budget, history
  <1>1. /\ pc[w] = "read" /\ pc[w] \in Critical /\ pc[w] \notin InPass /\ pc'[w] = "pass"
        /\ pc'[w] \in InPass /\ UNCHANGED <<inputs, place, manifest, master, faults>>
        /\ clean' = clean \cup {w} /\ OthersStay(w) /\ job'[w].plan = master.plan
        /\ job'[w].todo = {s \in Shots : master.plan[s] # 0} /\ job'[w].records = manifest
    BY StartDoes DEF InPass, Critical, StartPass
  <1>2. Behind(w)' = {}
    BY <1>1 DEF Behind
  <1>3. Smooth => Exact(manifest)
    <2> SUFFICES ASSUME Smooth PROVE Exact(manifest)
      OBVIOUS
    <2>1. Calm
      BY DEF Smooth, Calm
    <2>2. \A v \in Workers : pc[v] \notin InPass
      BY <1>1, <2>1, OneAtWork DEF Critical
    <2> QED
      BY <2>2 DEF QInv, RecordsExact
  <1>4. Smooth' = Smooth
    BY <1>1 DEF Smooth
  <1>5. Smooth' => /\ Exact(job[w].records)'
                   /\ job'[w].dirty \/ manifest' = job'[w].records
                   /\ \A s \in Behind(w)' : InPlace(s)' /\ place'[s].plan = job'[w].plan[s]
    BY <1>1, <1>2, <1>3, <1>4 DEF Exact
  <1>6. RecordsExact' /\ Progress'
    BY <1>1, <1>5, PassGoesOn
  <1>7. CleanIsCurrent'
    BY <1>1, <1>2, CleanGoesOn DEF QInv
  <1> QED
    BY <1>6, <1>7 DEF QInv

\* writing a temp,
LEMMA WritePasses ==
    ASSUME DInv, QInv, Roles, NEW w \in Workers, Write(w)
    PROVE  QInv'
  <1> USE DEF inputs, files, trigger, budget, history
  <1>1. /\ pc[w] = "write" /\ pc[w] \in Critical /\ pc[w] \in InPass /\ pc'[w] = "rename"
        /\ pc'[w] \in InPass /\ UNCHANGED <<inputs, place, manifest, master, faults, clean>>
        /\ OthersStay(w) /\ job'[w].plan = job[w].plan
        /\ job'[w].todo = job[w].todo /\ job'[w].shot = job[w].shot /\ job'[w].stat = job[w].stat
        /\ job'[w].records = job[w].records /\ job'[w].dirty = job[w].dirty
    BY WriteDoes DEF InPass, Critical, Write, SameRun
  <1>m. job'[w].made.raw = Seen(job[w].shot)
    BY WriteDoes
  <1>2. Behind(w)' = Behind(w)
    BY <1>1 DEF Behind
  <1>f. Smooth' = Smooth /\ Trusted' = Trusted
    BY <1>1 DEF Smooth, Trusted, Calm
  <1>3. Smooth' => /\ Exact(job[w].records)'
                   /\ job'[w].dirty \/ manifest' = job'[w].records
                   /\ \A s \in Behind(w)' : InPlace(s)' /\ place'[s].plan = job'[w].plan[s]
    BY <1>1, <1>2, <1>f DEF QInv, RecordsExact, Progress, Exact, InPlace
  <1>4. RecordsExact' /\ Progress'
    BY <1>1, <1>3, PassGoesOn
  <1>5. ASSUME Trusted', w \in clean'
        PROVE  /\ job'[w].plan = master'.plan /\ \A s \in Behind(w)' : Current(s)'
               /\ job'[w].stat = Seen(job[w].shot)' /\ job'[w].made.raw = Seen(job[w].shot)'
    <2>1. /\ job[w].plan = master.plan /\ job[w].stat = Seen(job[w].shot)
          /\ \A s \in Behind(w) : Current(s)
      BY <1>1, <1>5, <1>f DEF QInv, CleanIsCurrent
    <2>2. \A s \in Behind(w)' : Current(s)'
      BY <1>1, <1>2, <2>1 DEF Current, InPlace, Seen, CameOrWentWhileRead
    <2> QED
      BY <1>1, <1>m, <2>1, <2>2 DEF Seen
  <1>6. CleanIsCurrent'
    BY <1>1, <1>5, CleanGoesOn DEF QInv
  <1> QED
    BY <1>4, <1>6 DEF QInv

\* renaming it into place,
LEMMA RenamePasses ==
    ASSUME DInv, QInv, Roles, NEW w \in Workers, Rename(w)
    PROVE  QInv'
  <1> USE DEF inputs, files, trigger, budget, history
  <1>1. /\ pc[w] = "rename" /\ pc[w] \in Critical /\ pc[w] \in InPass /\ pc'[w] \in InPass
        /\ pc'[w] \notin {"write", "rename"}
        /\ UNCHANGED <<inputs, manifest, master, faults, clean>>
        /\ OthersStay(w) /\ job'[w].plan = job[w].plan
        /\ job'[w].todo = job[w].todo /\ job'[w].shot = None /\ job'[w].dirty = TRUE
    BY RenameDoes DEF InPass, Critical, Rename
  <1>2. PICK s \in Shots, c \in Container : s = job[w].shot /\ c = job[w].made
    BY RenameDoes
  <1>3. /\ place' = [place EXCEPT ![s] = c]
        /\ job'[w].records = [job[w].records EXCEPT ![s] = RecordOf(c)]
    BY <1>2, RenameDoes
  <1>4. /\ job[w].plan[s] # 0 /\ c.plan = job[w].plan[s] /\ c.stat = job[w].stat
        /\ place \in [Shots -> Container \cup {None}]
        /\ job[w].records \in [Shots -> Record \cup {None}]
    BY <1>1, <1>2 DEF DInv, InFlight, DataTyped, Jobs
  <1>5. /\ \A t \in Shots : place'[t] = (IF t = s THEN c ELSE place[t])
        /\ \A t \in Shots : job'[w].records[t] = (IF t = s THEN RecordOf(c) ELSE job[w].records[t])
    BY <1>3, <1>4
  <1>6. InPlace(s)' /\ place'[s].plan = job'[w].plan[s] /\ c # None
    BY <1>1, <1>4, <1>5, ForeignTyped DEF InPlace
  <1>7. Behind(w)' \subseteq Behind(w) \cup {s} /\ s \notin Behind(w)
    BY <1>1, <1>2 DEF Behind
  <1>f. Smooth' = Smooth /\ Trusted' = Trusted
    BY <1>1 DEF Smooth, Trusted, Calm
  <1>8. ASSUME Smooth
        PROVE  /\ Exact(job[w].records)'
               /\ \A t \in Behind(w)' : InPlace(t)' /\ place'[t].plan = job'[w].plan[t]
    <2>1. Exact(job[w].records)
      BY <1>1, <1>8 DEF QInv, RecordsExact
    <2>2. Exact(job[w].records)'
      BY <2>1, <1>5, <1>6 DEF Exact
    <2>3. \A t \in Behind(w) : InPlace(t) /\ place[t].plan = job[w].plan[t] /\ t \in Shots
      BY <1>1, <1>8 DEF QInv, Progress, Behind
    <2>4. \A t \in Behind(w)' : InPlace(t)' /\ place'[t].plan = job'[w].plan[t]
      BY <2>3, <1>1, <1>5, <1>6, <1>7 DEF InPlace
    <2> QED
      BY <2>2, <2>4
  <1>9. RecordsExact' /\ Progress'
    BY <1>1, <1>8, <1>f, PassGoesOn
  <1>10. ASSUME Trusted, w \in clean
         PROVE  job'[w].plan = master'.plan /\ \A t \in Behind(w)' : Current(t)'
    <2>1. /\ job[w].plan = master.plan /\ c.raw = Seen(s)
          /\ \A t \in Behind(w) : Current(t) /\ t \in Shots
      BY <1>1, <1>2, <1>10 DEF QInv, CleanIsCurrent, Behind
    <2>2. Current(s)'
      BY <1>1, <1>5, <1>6, <2>1 DEF Current, Seen
    <2>3. ASSUME NEW t \in Behind(w) PROVE Current(t)'
      <3>1. place'[t] = place[t] /\ Current(t)
        BY <2>1, <2>3, <1>5, <1>7
      <3> QED
        BY <3>1, <1>1 DEF Current, InPlace, Seen, CameOrWentWhileRead
    <2> QED
      BY <1>1, <1>7, <2>1, <2>2, <2>3
  <1>11. CleanIsCurrent'
    BY <1>1, <1>f, <1>10, CleanGoesOn DEF QInv
  <1> QED
    BY <1>9, <1>11 DEF QInv

\* a container that fails, which only ends the claim to be without faults,
LEMMA FailPasses ==
    ASSUME DInv, QInv, Roles, NEW w \in Workers, RenameFails(w) \/ WriteFails(w)
    PROVE  QInv'
  <1> USE DEF inputs, files, trigger, budget, history, At
  <1>1. /\ ContainerFailed(w) /\ pc[w] \in {"write", "rename"} /\ faults \subseteq faults'
        /\ Smooth' => pc[w] = "rename" /\ w \notin temps /\ Calm
    BY SpendIsRemembered DEF RenameFails, WriteFails, Outside, Smooth, Calm
  <1>2. ~ Smooth'
    BY <1>1 DEF DInv, HoldersOwn
  <1>3. /\ pc'[w] \in InPass /\ OthersStay(w) /\ pc[w] \in Critical
    BY <1>1, FailDoes DEF InPass, Critical
  <1>4. RecordsExact' /\ Progress'
    BY <1>2 DEF RecordsExact, Progress
  <1>5. CleanIsCurrent'
    <2>1. clean' = clean \ {w}
      BY <1>1 DEF ContainerFailed
    <2> QED
      BY <1>1, <1>3, <2>1, CleanGoesOn DEF QInv
  <1> QED
    BY <1>4, <1>5 DEF QInv

\* choosing what to collect,
LEMMA CollectPasses ==
    ASSUME DInv, QInv, Roles, NEW w \in Workers, Collect(w)
    PROVE  QInv'
  <1> USE DEF inputs, files, trigger, budget, history
  <1>1. /\ pc[w] = "pass" /\ pc[w] \in Critical /\ pc[w] \in InPass /\ pc'[w] = "move"
        /\ pc'[w] \in InPass /\ UNCHANGED <<inputs, place, manifest, master, faults, clean>>
        /\ OthersStay(w) /\ job'[w].plan = job[w].plan
        /\ job'[w].todo = job[w].todo /\ job[w].plan[job'[w].shot] = 0
        /\ job'[w].records = job[w].records /\ job'[w].dirty = job[w].dirty
        /\ job[w].shot = None
    BY CollectDoes DEF InPass, Critical, Collect, SameRun, Garbage, DInv, InFlight
  <1>2. Behind(w)' = Behind(w)
    BY <1>1, ConstantsOK DEF Behind
  <1>f. Smooth' = Smooth /\ Trusted' = Trusted
    BY <1>1 DEF Smooth, Trusted, Calm
  <1>3. Smooth' => /\ Exact(job[w].records)'
                   /\ job'[w].dirty \/ manifest' = job'[w].records
                   /\ \A s \in Behind(w)' : InPlace(s)' /\ place'[s].plan = job'[w].plan[s]
    BY <1>1, <1>2, <1>f DEF QInv, RecordsExact, Progress, Exact, InPlace
  <1>4. RecordsExact' /\ Progress'
    BY <1>1, <1>3, PassGoesOn
  <1>5. ASSUME Trusted', w \in clean'
        PROVE  job'[w].plan = master'.plan /\ \A s \in Behind(w)' : Current(s)'
    <2>1. job[w].plan = master.plan /\ \A s \in Behind(w) : Current(s)
      BY <1>1, <1>5, <1>f DEF QInv, CleanIsCurrent
    <2> QED
      BY <1>1, <1>2, <2>1 DEF Current, InPlace, Seen, CameOrWentWhileRead
  <1>6. CleanIsCurrent'
    BY <1>1, <1>5, CleanGoesOn DEF QInv
  <1> QED
    BY <1>4, <1>6 DEF QInv

\* moving it to the trash,
LEMMA MovePasses ==
    ASSUME DInv, QInv, Roles, NEW w \in Workers, Move(w)
    PROVE  QInv'
  <1> USE DEF inputs, files, trigger, budget, history
  <1>1. /\ pc[w] = "move" /\ pc[w] \in Critical /\ pc[w] \in InPass /\ pc'[w] = "pass" /\ pc'[w] \in InPass
        /\ UNCHANGED <<inputs, manifest, master, faults, clean>>
        /\ OthersStay(w) /\ job'[w].plan = job[w].plan
        /\ job'[w].todo = job[w].todo /\ job'[w].shot = None /\ job'[w].dirty = TRUE
    BY MoveDoes DEF InPass, Critical, Move
  <1>2. PICK s \in Shots : s = job[w].shot
    BY MoveDoes
  <1>3. /\ place' = [place EXCEPT ![s] = None]
        /\ job'[w].records = [job[w].records EXCEPT ![s] = None]
    BY <1>2, MoveDoes
  <1>4. /\ job[w].plan[s] = 0 /\ place \in [Shots -> Container \cup {None}]
        /\ job[w].records \in [Shots -> Record \cup {None}]
    BY <1>1, <1>2 DEF DInv, InFlight, DataTyped, Jobs
  <1>5. /\ \A t \in Shots : place'[t] = (IF t = s THEN None ELSE place[t])
        /\ \A t \in Shots : job'[w].records[t] = (IF t = s THEN None ELSE job[w].records[t])
    BY <1>3, <1>4
  <1>7. Behind(w)' \subseteq Behind(w) \ {s}
    BY <1>1, <1>2, <1>4 DEF Behind
  <1>f. Smooth' = Smooth /\ Trusted' = Trusted
    BY <1>1 DEF Smooth, Trusted, Calm
  <1>8. ASSUME Smooth
        PROVE  /\ Exact(job[w].records)'
               /\ \A t \in Behind(w)' : InPlace(t)' /\ place'[t].plan = job'[w].plan[t]
    <2>1. Exact(job[w].records)
      BY <1>1, <1>8 DEF QInv, RecordsExact
    <2>2. Exact(job[w].records)'
      BY <2>1, <1>5 DEF Exact
    <2>3. \A t \in Behind(w) : InPlace(t) /\ place[t].plan = job[w].plan[t] /\ t \in Shots
      BY <1>1, <1>8 DEF QInv, Progress, Behind
    <2>4. \A t \in Behind(w)' : InPlace(t)' /\ place'[t].plan = job'[w].plan[t]
      BY <2>3, <1>1, <1>5, <1>7 DEF InPlace
    <2> QED
      BY <2>2, <2>4
  <1>9. RecordsExact' /\ Progress'
    BY <1>1, <1>8, <1>f, PassGoesOn
  <1>10. ASSUME Trusted, w \in clean
         PROVE  job'[w].plan = master'.plan /\ \A t \in Behind(w)' : Current(t)'
    <2>1. /\ job[w].plan = master.plan
          /\ \A t \in Behind(w) : Current(t) /\ t \in Shots
      BY <1>1, <1>2, <1>10 DEF QInv, CleanIsCurrent, Behind
    <2>3. ASSUME NEW t \in Behind(w), t # s PROVE Current(t)'
      <3>1. place'[t] = place[t] /\ Current(t)
        BY <2>1, <2>3, <1>5
      <3> QED
        BY <3>1, <1>1 DEF Current, InPlace, Seen, CameOrWentWhileRead
    <2> QED
      BY <1>1, <1>7, <2>1, <2>3
  <1>11. CleanIsCurrent'
    BY <1>1, <1>f, <1>10, CleanGoesOn DEF QInv
  <1> QED
    BY <1>9, <1>11 DEF QInv

\* a flush,
LEMMA FlushPasses ==
    ASSUME DInv, QInv, Roles, NEW w \in Workers, Flush(w)
    PROVE  QInv'
  <1> USE DEF inputs, files, trigger, budget, history
  <1>1. /\ pc[w] = "flush" /\ pc[w] \in Critical /\ pc[w] \in InPass /\ pc'[w] = "pass" /\ pc'[w] \in InPass
        /\ UNCHANGED <<inputs, place, master, faults, clean>> /\ manifest' = job[w].records
        /\ OthersStay(w) /\ job'[w].plan = job[w].plan
        /\ job'[w].todo = job[w].todo /\ job'[w].shot = job[w].shot
        /\ job'[w].records = job[w].records
    BY FlushDoes DEF InPass, Critical, Flush, SameRun
  <1>2. Behind(w)' = Behind(w)
    BY <1>1 DEF Behind
  <1>f. Smooth' = Smooth /\ Trusted' = Trusted
    BY <1>1 DEF Smooth, Trusted, Calm
  <1>3. Smooth' => /\ Exact(job[w].records)' /\ manifest' = job'[w].records
                   /\ \A s \in Behind(w)' : InPlace(s)' /\ place'[s].plan = job'[w].plan[s]
    BY <1>1, <1>2, <1>f DEF QInv, RecordsExact, Progress, Exact, InPlace
  <1>4. RecordsExact' /\ Progress'
    BY <1>1, <1>3, PassGoesOn
  <1>5. ASSUME Trusted', w \in clean'
        PROVE  job'[w].plan = master'.plan /\ \A s \in Behind(w)' : Current(s)'
    <2>1. job[w].plan = master.plan /\ \A s \in Behind(w) : Current(s)
      BY <1>1, <1>5, <1>f DEF QInv, CleanIsCurrent
    <2> QED
      BY <1>1, <1>2, <2>1 DEF Current, InPlace, Seen, CameOrWentWhileRead
  <1>6. CleanIsCurrent'
    BY <1>1, <1>5, CleanGoesOn DEF QInv
  <1> QED
    BY <1>4, <1>6 DEF QInv

\* and the end of a pass.
LEMMA PassEndsPasses ==
    ASSUME DInv, QInv, Roles, NEW w \in Workers, PassEnds(w)
    PROVE  QInv'
  <1> USE DEF inputs, files, trigger, budget, history
  <1>1. /\ pc[w] = "pass" /\ pc[w] \in Critical /\ pc[w] \in InPass /\ pc'[w] \notin InPass
        /\ UNCHANGED <<inputs, place, manifest, master, faults>> /\ job[w].dirty = FALSE
        /\ clean' = clean \ {w} /\ OthersStay(w)
    BY PassEndsDoes DEF InPass, Critical, PassEnds
  <1>2. Smooth => /\ Exact(manifest) /\ \A v \in Workers : pc'[v] \notin InPass
    <2> SUFFICES ASSUME Smooth PROVE Exact(manifest) /\ \A v \in Workers : pc'[v] \notin InPass
      OBVIOUS
    <2>1. Calm
      BY DEF Smooth, Calm
    <2>2. \A v \in Workers \ {w} : pc[v] \notin InPass
      BY <1>1, <2>1, OneAtWork DEF Critical
    <2>3. Exact(job[w].records) /\ manifest = job[w].records
      BY <1>1 DEF QInv, RecordsExact
    <2> QED
      BY <1>1, <2>2, <2>3 DEF OthersStay
  <1>3. RecordsExact' /\ Progress'
    BY <1>1, <1>2 DEF RecordsExact, Progress, Smooth, Exact
  <1>4. CleanIsCurrent'
    <2>1. clean \subseteq Workers
      BY DEF DInv, DataTyped
    <2> QED
      BY <1>1, <2>1, CleanGoOn DEF QInv, OthersStay
  <1> QED
    BY <1>3, <1>4 DEF QInv

\* Every step keeps the passes as they should be.
LEMMA QStep == IInv /\ DInv /\ QInv /\ [Next]_vars => QInv'
  <1> SUFFICES ASSUME IInv, DInv, QInv, [Next]_vars PROVE QInv'
    OBVIOUS
  <1>r. Roles /\ clean \subseteq Workers
    BY DEF IInv, DInv, DataTyped
  <1> USE DEF inputs, files, trigger, budget, history, At
  \* The passes are left alone.
  <1>0. ASSUME UNCHANGED <<place, manifest>>, faults \subseteq faults', UNCHANGED <<raw, away>> \/ clean' = {},
               master' = master \/ clean' = {}, clean' \subseteq clean,
               \A v \in Workers :
                 /\ pc'[v] \in InPass <=> pc[v] \in InPass
                 /\ pc[v] \in InPass =>
                      job'[v] = job[v] /\ (pc'[v] = pc[v] \/ pc'[v] \in InPass \ {"write", "rename"})
        PROVE  QInv'
    <2>1. RecordsExact' /\ Progress'
      BY <1>0, PassesGoOn DEF QInv
    <2>2. CASE clean' = {}
      BY <2>1, <2>2 DEF QInv, CleanIsCurrent
    <2>3. CASE clean' # {}
      BY <1>0, <1>r, <2>1, <2>3, CleanGoOn DEF QInv
    <2> QED
      BY <2>2, <2>3
  <1>1. CASE UNCHANGED vars
    BY <1>0, <1>1 DEF vars
  <1>2. ASSUME NEW s \in Shots, (\E v \in Plans : Land(s, v)) \/ Touch(s) PROVE QInv'
    BY <1>0, <1>2, SpendIsRemembered DEF Land, Touch, Outside
  <1>3. CASE BuildStarts \/ BuildLooks \/ BuildPublishes
    BY <1>0, <1>3 DEF BuildStarts, BuildLooks, BuildPublishes
  \* A worker that is in no pass, and one that is about to flush.
  <1>4. ASSUME NEW w \in Workers, NEW p \in PCs, Go(w, p),
               UNCHANGED <<place, manifest, raw, away, master, clean>>, faults \subseteq faults',
               \/ pc[w] \notin InPass /\ p \notin InPass /\ \A v \in Workers \ {w} : job'[v] = job[v]
               \/ pc[w] \in InPass /\ p \in InPass \ {"write", "rename"} /\ UNCHANGED job
        PROVE  QInv'
    <2>1. pc'[w] = p /\ \A v \in Workers \ {w} : pc'[v] = pc[v]
      BY <1>4, <1>r DEF Go, Roles
    <2> QED
      BY <1>0, <1>4, <2>1
  <1>5. ASSUME NEW w \in Workers, Spawn(w) PROVE QInv'
    <2>1. CASE UNCHANGED pc
      BY <1>0, <1>5, <2>1 DEF Spawn
    <2>2. CASE Go(w, "outer")
      BY <1>4, <1>5, <2>2 DEF Spawn, PCs, InPass
    <2> QED
      BY <1>5, <2>1, <2>2 DEF Spawn
  <1>6. ASSUME NEW w \in Workers, Acquire(w) \/ LeaveLoop(w) \/ NoRequest(w) \/ Release(w) \/ FlushDue(w)
        PROVE QInv'
    <2>1. /\ UNCHANGED <<place, manifest, raw, away, master, clean, job>> /\ faults \subseteq faults'
          /\ \/ pc[w] \in {"outer", "inner", "release"} /\ \E p \in {"inner", "judge", "release", "outer"} : Go(w, p)
             \/ pc[w] \in {"pass", "beat"} /\ Go(w, "flush")
      BY <1>6, SpendIsRemembered DEF Acquire, LeaveLoop, NoRequest, Release, FlushDue, Done, Outside
    <2> QED
      BY <2>1, <1>4 DEF PCs, InPass
  <1>7. ASSUME NEW w \in Workers, TakeRequest(w) PROVE QInv'
    <2>1. /\ pc[w] = "inner" /\ Go(w, "read") /\ OthersStay(w)
          /\ UNCHANGED <<place, manifest, raw, away, master, clean, faults>>
      BY <1>7, <1>r, TakeDoes DEF TakeRequest
    <2> QED
      BY <2>1, <1>4 DEF PCs, InPass, OthersStay
  <1>8. ASSUME NEW w \in Workers, JudgeLinks(w) PROVE QInv'
    <2>1. /\ pc[w] = "judge" /\ Go(w, "idle")
          /\ UNCHANGED <<place, manifest, raw, away, master, clean, faults>>
      BY <1>8 DEF JudgeLinks, Ends
    <2>2. OthersStay(w)
      BY <1>8, <1>r, EndsDoes DEF JudgeLinks, DInv
    <2> QED
      BY <2>1, <2>2, <1>4 DEF PCs, InPass, OthersStay
  <1>9. ASSUME NEW w \in Workers, Overtaken(w) \/ RunFails(w) PROVE QInv'
    <2>1. /\ UNCHANGED <<place, manifest, raw, away, master>> /\ faults \subseteq faults'
          /\ clean' = clean \ {w} /\ Ends(w)
      BY <1>9, SpendIsRemembered DEF Overtaken, RunFails, Outside
    <2>2. OthersStay(w)
      BY <2>1, <1>r, EndsDoes DEF DInv
    <2>3. ~ Smooth'
      <3>1. CASE RunFails(w)
        BY <3>1, SpendIsRemembered DEF RunFails, Smooth, Outside
      <3>2. CASE Overtaken(w)
        <4>1. pc[w] \in Critical /\ lock # w /\ faults' = faults
          BY <3>2 DEF Overtaken, Heartbeats, Lost, Critical, InPass
        <4> QED
          BY <4>1 DEF DInv, HoldersOwn, Calm, Smooth
      <3> QED
        BY <1>9, <3>1, <3>2
    <2>4. CleanIsCurrent'
      BY <1>r, <2>1, <2>2, CleanGoOn DEF QInv, OthersStay
    <2> QED
      BY <2>3, <2>4 DEF QInv, RecordsExact, Progress
  <1> QED
    BY <1>1, <1>2, <1>3, <1>5, <1>6, <1>7, <1>8, <1>9, <1>r, LookPasses, StartPasses, WritePasses,
       RenamePasses, FailPasses, CollectPasses, MovePasses, FlushPasses, PassEndsPasses
       DEF Next, Run, Pass

\* At the start there is none.
LEMMA QInit == Init => QInv
  BY NoJobTyped DEF Init, QInv, RecordsExact, Progress, CleanIsCurrent, Exact, InPass

\* What a pass that nothing disturbed leaves behind.
LEMMA PassedIsUpToDate == DInv /\ QInv => (SizesTell \/ Smooth => PassBringsUpToDate)
  <1> SUFFICES ASSUME DInv, QInv, SizesTell \/ Smooth, "overtake" \notin faults,
                      master.plan # NoPlan, NEW w \in Workers, Passed(w), NEW s \in Shots
               PROVE  UpToDate(s) \/ CameOrWentWhileRead(s)
    BY DEF PassBringsUpToDate
  <1>1. /\ w \in clean /\ pc[w] = "pass" /\ job[w].todo = {} /\ Garbage(w) = {} /\ Trusted
    BY DEF Passed, Done, At, Trusted, Calm
  <1>2. /\ job[w].plan = master.plan /\ \A t \in Behind(w) : Current(t)
        /\ job[w].shot = None
    BY <1>1 DEF QInv, CleanIsCurrent, DInv, InFlight
  <1>3. CASE master.plan[s] # 0
    <2>1. s \in Behind(w)
      BY <1>1, <1>2, <1>3, ConstantsOK DEF Behind
    <2> QED
      BY <1>2, <1>3, <2>1 DEF Current, UpToDate
  <1>4. CASE master.plan[s] = 0
    BY <1>1, <1>2, <1>4 DEF Garbage, UpToDate
  <1> QED
    BY <1>3, <1>4

\* A pass that failed at nothing, of which nobody was overtaken and whose inputs
\* are as it saw them, leaves shots/ up to date with the published master: if
\* containers of different plans differ in size, or nothing has failed yet.
THEOREM PassesBringUpToDate == Spec => [](SizesTell \/ Smooth => PassBringsUpToDate)
  <1>1. Init => IInv /\ DInv /\ QInv
    BY InitInv, DInit, QInit
  <1>2. (IInv /\ DInv /\ QInv) /\ [Next]_vars => (IInv /\ DInv /\ QInv)'
    BY StepInv, DStep, QStep
  <1>3. IInv /\ DInv /\ QInv => (SizesTell \/ Smooth => PassBringsUpToDate)
    BY PassedIsUpToDate
  <1> QED
    BY <1>1, <1>2, <1>3, PTL DEF Spec
(***************************************************************************)
(* What is published is converted, or somebody still owes it a pass.       *)
(***************************************************************************)

\* A worker's part of FreshOrOwed.
Judged(w) ==
    /\ job[w].before <= master.gen
    /\ pc[w] \in InPass /\ job[w].before = master.gen => job[w].plan = master.plan
    /\ pc[w] = "idle" => job[w].written = {}

\* While a worker goes on with a pass, one is owed.
LEMMA OwedByThisPass ==
    ASSUME FreshOrOwed, NEW w \in Workers, OthersStay(w), UNCHANGED <<master, spawns>>,
           pc'[w] \in InPass \/ pc'[w] = "read", Judged(w)'
    PROVE  FreshOrOwed'
  <1>1. ASSUME NEW v \in Workers PROVE Judged(v)'
    BY DEF FreshOrOwed, OthersStay, Judged
  <1>2. PassOwed'
    BY DEF PassOwed
  <1> QED
    BY <1>1, <1>2 DEF FreshOrOwed, Judged

\* Nothing is put in place, and no pass or request goes.
LEMMA OwedAsBefore ==
    ASSUME FreshOrOwed, UNCHANGED <<master, place>>, spawns' \in Nat, faults \subseteq faults',
           \A v \in Workers : Judged(v)',
           Smooth' /\ PassOwed /\ master.plan # NoPlan => PassOwed'
    PROVE  FreshOrOwed'
  <1>1. Smooth' /\ Fresh => Fresh'
    BY DEF Fresh, InPlace
  <1>2. Smooth' => Smooth
    BY DEF Smooth
  <1> QED
    BY <1>1, <1>2 DEF FreshOrOwed, Judged

\* Every step leaves what is published converted, or somebody owing it a pass.
LEMMA FStep == IInv /\ DInv /\ QInv /\ FreshOrOwed /\ [Next]_vars => FreshOrOwed'
  <1> SUFFICES ASSUME IInv, DInv, QInv, FreshOrOwed, [Next]_vars PROVE FreshOrOwed'
    OBVIOUS
  <1>r. /\ Roles /\ master.gen \in Nat /\ spawns \in Nat /\ \A v \in Workers : Judged(v)
        /\ \A v \in Workers : job[v].before \in Nat
    BY DEF IInv, DInv, DataTyped, FreshOrOwed, Judged, Jobs
  <1> USE DEF inputs, files, trigger, budget, history, At
  \* Outside the workers.
  <1>1. ASSUME UNCHANGED <<pc, job, place, master, pending>>, spawns' \in {spawns, spawns + 1},
               faults \subseteq faults'
        PROVE  FreshOrOwed'
    <2>1. \A v \in Workers : Judged(v)'
      BY <1>1, <1>r DEF Judged
    <2>2. PassOwed => PassOwed'
      BY <1>1, <1>r DEF PassOwed
    <2> QED
      BY <1>1, <1>r, <2>1, <2>2, OwedAsBefore
  <1>2. CASE UNCHANGED vars
    BY <1>1, <1>2 DEF vars
  <1>3. ASSUME NEW s \in Shots, (\E v \in Plans : Land(s, v)) \/ Touch(s) PROVE FreshOrOwed'
    BY <1>1, <1>3, SpendIsRemembered DEF Land, Touch, Outside
  <1>4. CASE BuildStarts \/ BuildLooks
    BY <1>1, <1>4 DEF BuildStarts, BuildLooks
  <1>5. CASE BuildPublishes
    <2>1. /\ master'.gen = master.gen + 1 /\ spawns' = spawns + 1 /\ UNCHANGED <<pc, job>>
      BY <1>5 DEF BuildPublishes
    <2>2. \A v \in Workers : Judged(v)'
      BY <2>1, <1>r DEF Judged
    <2>3. PassOwed' /\ spawns' \in Nat /\ master'.gen # 0
      BY <2>1, <1>r DEF PassOwed
    <2> QED
      BY <2>2, <2>3 DEF FreshOrOwed, Judged
  \* A worker outside a pass.
  <1>6. ASSUME NEW w \in Workers, Spawn(w) PROVE FreshOrOwed'
    <2>1. CASE master.gen = 0
      <3>1. /\ UNCHANGED <<pc, job, place, master, faults>> /\ spawns' \in Nat /\ master.plan = NoPlan
        BY <1>6, <2>1, <1>r DEF Spawn, FreshOrOwed
      <3>2. \A v \in Workers : Judged(v)'
        BY <3>1, <1>r DEF Judged
      <3> QED
        BY <3>1, <3>2, OwedAsBefore
    <2>2. CASE master.gen # 0
      <3>1. /\ Go(w, "outer") /\ UNCHANGED <<job, place, master, faults>> /\ spawns' \in Nat
            /\ pending' = TRUE
        BY <1>6, <2>2, <1>r DEF Spawn
      <3>2. \A v \in Workers : Judged(v)'
        BY <3>1, <1>r DEF Judged, Go, Roles, InPass
      <3> QED
        BY <3>1, <3>2, OwedAsBefore DEF PassOwed
    <2> QED
      BY <2>1, <2>2
  <1>7. ASSUME NEW w \in Workers, Acquire(w) \/ LeaveLoop(w) \/ NoRequest(w) \/ Release(w)
        PROVE  FreshOrOwed'
    <2>1. /\ UNCHANGED <<place, master, job, spawns, pending>> /\ faults \subseteq faults'
          /\ pc[w] \in {"outer", "inner", "release"}
          /\ \E p \in {"inner", "judge", "release", "outer"} : Go(w, p)
      BY <1>7, SpendIsRemembered DEF Acquire, LeaveLoop, NoRequest, Release, Outside
    <2>2. pc'[w] \in {"inner", "judge", "release", "outer"} /\ \A v \in Workers \ {w} : pc'[v] = pc[v]
      BY <2>1, <1>r DEF Go, Roles
    <2>3. \A v \in Workers : Judged(v)'
      BY <2>1, <2>2, <1>r DEF Judged, InPass
    <2>4. PassOwed => PassOwed'
      BY <2>1, <2>2 DEF PassOwed, InPass
    <2> QED
      BY <2>1, <2>3, <2>4, <1>r, OwedAsBefore
  <1>8. ASSUME NEW w \in Workers, JudgeLinks(w) \/ Overtaken(w) \/ RunFails(w) PROVE FreshOrOwed'
    <2>1. /\ UNCHANGED <<place, master, spawns, pending>> /\ faults \subseteq faults' /\ Ends(w)
      BY <1>8, SpendIsRemembered DEF JudgeLinks, Overtaken, RunFails, Outside
    <2>2. OthersStay(w) /\ job'[w] = NoJob /\ pc'[w] = "idle"
      BY <2>1, <1>r, EndsDoes DEF DInv
    <2>3. \A v \in Workers : Judged(v)'
      BY <2>1, <2>2, <1>r, NoJobTyped DEF Judged, InPass, OthersStay
    <2>4. Smooth' => pc[w] = "judge"
      <3>1. CASE RunFails(w)
        BY <3>1, SpendIsRemembered DEF RunFails, Smooth, Outside
      <3>2. CASE Overtaken(w)
        <4>1. pc[w] \in Critical /\ lock # w /\ faults' = faults
          BY <3>2 DEF Overtaken, Heartbeats, Lost, Critical, InPass
        <4> QED
          BY <4>1 DEF DInv, HoldersOwn, Calm, Smooth
      <3> QED
        BY <1>8, <3>1, <3>2 DEF JudgeLinks
    <2>5. Smooth' /\ PassOwed => PassOwed'
      BY <2>1, <2>2, <2>4 DEF PassOwed, InPass, OthersStay
    <2> QED
      BY <2>1, <2>3, <2>5, <1>r, OwedAsBefore
  <1>9. ASSUME NEW w \in Workers, TakeRequest(w) PROVE FreshOrOwed'
    <2>1. /\ pc'[w] = "read" /\ OthersStay(w) /\ job'[w].before = master.gen
          /\ UNCHANGED <<master, spawns>>
      BY <1>9, <1>r, TakeDoes DEF TakeRequest
    <2>2. Judged(w)'
      BY <2>1, <1>r DEF Judged, InPass
    <2> QED
      BY <2>1, <2>2, OwedByThisPass
  \* A pass.
  <1>10. ASSUME NEW w \in Workers, UNCHANGED <<master, spawns>>, OthersStay(w), pc'[w] \in InPass,
                job'[w].before = job[w].before,
                (job'[w].plan = job[w].plan /\ pc[w] \in InPass) \/ job'[w].plan = master.plan
         PROVE  FreshOrOwed'
    <2>1. Judged(w)'
      BY <1>10, <1>r DEF Judged, InPass
    <2> QED
      BY <1>10, <2>1, OwedByThisPass
  <1>11. ASSUME NEW w \in Workers, StartPass(w) PROVE FreshOrOwed'
    BY <1>10, <1>11, <1>r, StartDoes DEF StartPass, InPass
  <1>12. ASSUME NEW w \in Workers, \E s \in Shots : Look(w, s) PROVE FreshOrOwed'
    <2>1. PICK s \in Shots : Look(w, s)
      BY <1>12
    <2> QED
      BY <1>10, <2>1, <1>r, LookDoes DEF InPass, SameRun
  <1>13. ASSUME NEW w \in Workers, Write(w) PROVE FreshOrOwed'
    BY <1>10, <1>13, <1>r, WriteDoes DEF Write, InPass, SameRun
  <1>14. ASSUME NEW w \in Workers, Rename(w) PROVE FreshOrOwed'
    BY <1>10, <1>14, <1>r, RenameDoes DEF Rename, InPass
  <1>15. ASSUME NEW w \in Workers, RenameFails(w) \/ WriteFails(w) PROVE FreshOrOwed'
    <2>1. ContainerFailed(w) /\ pc[w] \in {"write", "rename"}
      BY <1>15 DEF RenameFails, WriteFails
    <2> QED
      BY <1>10, <2>1, <1>r, FailDoes DEF ContainerFailed, InPass, SameRun
  <1>16. ASSUME NEW w \in Workers, Collect(w) PROVE FreshOrOwed'
    BY <1>10, <1>16, <1>r, CollectDoes DEF Collect, InPass, SameRun
  <1>17. ASSUME NEW w \in Workers, Move(w) PROVE FreshOrOwed'
    BY <1>10, <1>17, <1>r, MoveDoes DEF Move, InPass
  <1>18. ASSUME NEW w \in Workers, Flush(w) PROVE FreshOrOwed'
    BY <1>10, <1>18, <1>r, FlushDoes DEF Flush, InPass, SameRun
  <1>19. ASSUME NEW w \in Workers, FlushDue(w) PROVE FreshOrOwed'
    <2>1. /\ pc[w] \in InPass /\ pc'[w] = "flush" /\ OthersStay(w) /\ UNCHANGED <<master, spawns, job>>
      BY <1>19, <1>r DEF FlushDue, Done, Go, Roles, InPass, OthersStay
    <2> QED
      BY <1>10, <2>1 DEF InPass
  <1>20. ASSUME NEW w \in Workers, PassEnds(w) PROVE FreshOrOwed'
    <2>1. /\ pc[w] = "pass" /\ pc'[w] = "inner" /\ job[w].todo = {} /\ Garbage(w) = {}
          /\ pending' = (pending \/ master.gen # job[w].before) /\ OthersStay(w)
          /\ job'[w].before = 0 /\ UNCHANGED <<master, spawns, place, faults>>
      BY <1>20, <1>r, PassEndsDoes DEF PassEnds
    <2>2. ASSUME NEW v \in Workers PROVE Judged(v)'
      BY <2>1, <1>r DEF Judged, InPass, OthersStay
    <2>3. CASE master.gen # job[w].before
      BY <2>1, <2>2, <2>3, <1>r, OwedAsBefore DEF PassOwed
    <2>4. CASE master.gen = job[w].before
      <3>1. job[w].plan = master.plan /\ pc[w] \in InPass
        BY <2>1, <2>4, <1>r DEF Judged, InPass
      <3>2. Smooth /\ master.plan # NoPlan => Fresh
        <4> SUFFICES ASSUME Smooth, master.plan # NoPlan, NEW s \in Shots
                     PROVE  /\ InPlace(s) <=> master.plan[s] # 0
                            /\ InPlace(s) => place[s].plan = master.plan[s]
          BY DEF Fresh
        <4>1. CASE master.plan[s] = 0
          BY <2>1, <3>1, <4>1 DEF Garbage
        <4>2. CASE master.plan[s] # 0
          <5>1. job[w].shot # s
            BY <2>1, ConstantsOK DEF DInv, InFlight
          <5>2. s \in Behind(w)
            BY <2>1, <3>1, <4>2, <5>1 DEF Behind
          <5> QED
            BY <3>1, <4>2, <5>2 DEF QInv, Progress
        <4> QED
          BY <4>1, <4>2
      <3>3. Fresh => Fresh'
        BY <2>1 DEF Fresh, InPlace
      <3> QED
        BY <2>1, <2>2, <3>2, <3>3, <1>r DEF FreshOrOwed, Judged, Smooth
    <2> QED
      BY <2>3, <2>4
  <1> QED
    BY <1>2, <1>3, <1>4, <1>5, <1>6, <1>7, <1>8, <1>9, <1>11, <1>12, <1>13, <1>14, <1>15,
       <1>16, <1>17, <1>18, <1>19, <1>20 DEF Next, Run, Pass
(***************************************************************************)
(* Links.                                                                  *)
(***************************************************************************)

\* Workers that forget nothing, and no change of what is linked or in place.
LEMMA LinksAsBefore ==
    ASSUME SmoothLinks, UNCHANGED <<build, master, place, collected>>, asked => asked',
           faults \subseteq faults',
           \A v \in Workers : job[v].written \subseteq job'[v].written
    PROVE  SmoothLinks'
  <1> SUFFICES ASSUME Smooth' PROVE LinksOK'
    BY DEF SmoothLinks
  <1>1. LinksOK
    BY DEF SmoothLinks, Smooth
  <1>2. \A s \in Shots : Writer(s) => Writer(s)'
    BY DEF Writer
  <1> QED
    BY <1>1, <1>2 DEF LinksOK, InPlace

\* Every step keeps the links, or somebody who will ask for them.
LEMMA LStep == IInv /\ DInv /\ FreshOrOwed /\ SmoothLinks /\ [Next]_vars => SmoothLinks'
  <1> SUFFICES ASSUME IInv, DInv, FreshOrOwed, SmoothLinks, [Next]_vars PROVE SmoothLinks'
    OBVIOUS
  <1>r. Roles /\ DataTyped
    BY DEF IInv, DInv
  <1> USE DEF inputs, files, trigger, budget, history, At
  \* Outside the workers.
  <1>1. CASE UNCHANGED vars
    BY <1>1, LinksAsBefore DEF vars
  <1>2. ASSUME NEW s \in Shots, (\E v \in Plans : Land(s, v)) \/ Touch(s) PROVE SmoothLinks'
    BY <1>2, SpendIsRemembered, LinksAsBefore DEF Land, Touch, Outside
  <1>3. CASE BuildStarts
    <2> SUFFICES ASSUME Smooth' PROVE LinksOK'
      BY DEF SmoothLinks
    <2>1. /\ build' = [at |-> "look", plan |-> world, links |-> {}]
          /\ UNCHANGED <<master, place, collected, job, faults>>
      BY <1>3 DEF BuildStarts
    <2>2. build'.at = "look" /\ build'.links = {}
      BY <2>1
    <2>3. LinksOK
      BY <2>1 DEF SmoothLinks, Smooth
    <2> QED
      BY <2>1, <2>2, <2>3 DEF LinksOK, InPlace
  <1>4. CASE BuildLooks
    <2> SUFFICES ASSUME Smooth' PROVE LinksOK'
      BY DEF SmoothLinks
    <2>1. /\ build' = [build EXCEPT !.at = "publish", !.links = Linkable(build.plan)]
          /\ UNCHANGED <<master, place, collected, job, faults, asked>>
      BY <1>4 DEF BuildLooks
    <2>2. build'.at = "publish" /\ build'.links = Linkable(build.plan) /\ build'.plan = build.plan
      BY <2>1, <1>r DEF DataTyped
    <2>3. LinksOK
      BY <2>1 DEF SmoothLinks, Smooth
    <2> QED
      BY <2>1, <2>2, <2>3 DEF LinksOK, InPlace, Linkable
  <1>5. CASE BuildPublishes
    <2> SUFFICES ASSUME Smooth' PROVE LinksOK'
      BY DEF SmoothLinks
    <2>1. /\ build.at = "publish" /\ build' = NoBuild
          /\ master' = [gen |-> master.gen + 1, plan |-> build.plan, links |-> build.links]
          /\ UNCHANGED <<place, collected, job, faults, asked>>
      BY <1>5 DEF BuildPublishes
    <2>2. /\ build'.at = "idle" /\ build'.links = {}
          /\ master'.plan = build.plan /\ master'.links = build.links
      BY <2>1 DEF NoBuild
    <2>3. LinksOK
      BY <2>1 DEF SmoothLinks, Smooth
    <2> QED
      BY <2>1, <2>2, <2>3 DEF LinksOK, InPlace, Writer
  \* A worker that puts nothing in place.
  <1>6. ASSUME NEW w \in Workers, OthersStay(w), UNCHANGED <<build, master, place, collected, asked>>,
               faults \subseteq faults', job'[w].written = job[w].written
        PROVE  SmoothLinks'
    BY <1>6, LinksAsBefore DEF OthersStay
  <1>7. ASSUME NEW w \in Workers, Spawn(w) \/ Acquire(w) \/ LeaveLoop(w) \/ NoRequest(w) \/ Release(w) \/ FlushDue(w)
        PROVE  SmoothLinks'
    <2>1. UNCHANGED <<build, master, place, collected, asked, job>> /\ faults \subseteq faults'
      BY <1>7, SpendIsRemembered DEF Spawn, Acquire, LeaveLoop, NoRequest, Release, FlushDue, Outside
    <2> QED
      BY <2>1, LinksAsBefore
  <1>8. ASSUME NEW w \in Workers, NEW s \in Shots, Look(w, s) PROVE SmoothLinks'
    BY <1>6, <1>8, <1>r, LookDoes DEF SameRun
  <1>9. ASSUME NEW w \in Workers, Write(w) PROVE SmoothLinks'
    BY <1>6, <1>9, <1>r, WriteDoes DEF SameRun, Write
  <1>10. ASSUME NEW w \in Workers, RenameFails(w) \/ WriteFails(w) PROVE SmoothLinks'
    <2>1. ContainerFailed(w) /\ pc[w] \in {"write", "rename"} /\ faults \subseteq faults'
      BY <1>10, SpendIsRemembered DEF RenameFails, WriteFails, Outside
    <2>2. OthersStay(w) /\ job'[w].written = job[w].written
      BY <2>1, <1>r, FailDoes DEF SameRun
    <2>3. UNCHANGED <<build, master, place, collected, asked>>
      BY <2>1 DEF ContainerFailed
    <2> QED
      BY <2>1, <2>2, <2>3, <1>6
  <1>11. ASSUME NEW w \in Workers, Collect(w) PROVE SmoothLinks'
    BY <1>6, <1>11, <1>r, CollectDoes DEF SameRun, Collect
  <1>12. ASSUME NEW w \in Workers, Flush(w) PROVE SmoothLinks'
    BY <1>6, <1>12, <1>r, FlushDoes DEF SameRun, Flush
  <1>13. ASSUME NEW w \in Workers, PassEnds(w) PROVE SmoothLinks'
    BY <1>6, <1>13, <1>r, PassEndsDoes DEF PassEnds
  <1>14. ASSUME NEW w \in Workers, TakeRequest(w) PROVE SmoothLinks'
    BY <1>6, <1>14, <1>r, TakeDoes DEF TakeRequest
  <1>15. ASSUME NEW w \in Workers, StartPass(w) PROVE SmoothLinks'
    BY <1>6, <1>15, <1>r, StartDoes DEF StartPass
  \* What a worker put in place it remembers until it has judged the links.
  <1>16. ASSUME NEW w \in Workers, Rename(w) PROVE SmoothLinks'
    <2> SUFFICES ASSUME Smooth' PROVE LinksOK'
      BY DEF SmoothLinks
    <2>1. UNCHANGED <<build, master, collected, asked, faults>>
      BY <1>16 DEF Rename
    <2>2. PICK s \in Shots, c \in Container : s = job[w].shot /\ c = job[w].made
      BY <1>16, <1>r, RenameDoes
    <2>3. /\ place' = [place EXCEPT ![s] = c] /\ OthersStay(w)
          /\ job'[w].written = job[w].written \cup {s} /\ pc[w] = "rename"
      BY <1>16, <1>r, <2>2, RenameDoes
    <2>4. c.plan # 0
      BY <2>2, <2>3 DEF DInv, InFlight
    <2>5. /\ \A t \in Shots : t # s => (InPlace(t)' <=> InPlace(t))
          /\ InPlace(s)'
      BY <2>3, <2>4, <1>r, ForeignTyped DEF InPlace, DataTyped
    <2>6. Writer(s)' /\ \A t \in Shots : Writer(t) => Writer(t)'
      BY <2>3 DEF Writer, OthersStay
    <2>7. LinksOK /\ master.links \subseteq Shots /\ build.links \subseteq Shots
      BY <2>1, <1>r DEF SmoothLinks, Smooth, DataTyped
    <2> QED
      BY <2>1, <2>5, <2>6, <2>7 DEF LinksOK
  <1>17. ASSUME NEW w \in Workers, Move(w) PROVE SmoothLinks'
    <2> SUFFICES ASSUME Smooth' PROVE LinksOK'
      BY DEF SmoothLinks
    <2>1. UNCHANGED <<build, master, asked, faults>> /\ collected' = collected \cup {job[w].shot}
      BY <1>17 DEF Move
    <2>2. PICK s \in Shots : s = job[w].shot
      BY <1>17, <1>r, MoveDoes
    <2>3. /\ place' = [place EXCEPT ![s] = None] /\ OthersStay(w)
          /\ job'[w].written = job[w].written
      BY <1>17, <1>r, <2>2, MoveDoes
    <2>5. \A t \in Shots : t # s => (InPlace(t)' <=> InPlace(t))
      BY <2>3, <1>r DEF InPlace, DataTyped
    <2>6. \A t \in Shots : Writer(t) => Writer(t)'
      BY <2>3 DEF Writer, OthersStay
    <2>7. LinksOK /\ master.links \subseteq Shots /\ build.links \subseteq Shots
      BY <2>1, <1>r DEF SmoothLinks, Smooth, DataTyped
    <2> QED
      BY <2>1, <2>2, <2>5, <2>6, <2>7 DEF LinksOK
  <1>18. ASSUME NEW w \in Workers, JudgeLinks(w) PROVE SmoothLinks'
    <2> SUFFICES ASSUME Smooth' PROVE LinksOK'
      BY DEF SmoothLinks
    <2>1. /\ UNCHANGED <<build, master, place, collected, faults>>
          /\ asked' = (asked \/ Unlinked(w) # {})
      BY <1>18 DEF JudgeLinks
    <2>2. OthersStay(w)
      BY <1>18, <1>r, EndsDoes DEF JudgeLinks
    <2>3. LinksOK
      BY <2>1 DEF SmoothLinks, Smooth
    <2>4. \A t \in Shots : Writer(t) => Writer(t)' \/ t \in job[w].written
      BY <2>2 DEF Writer, OthersStay
    <2>5. \A t \in Shots : (asked => asked') /\ (t \in job[w].written /\ t \notin master.links => asked')
      BY <2>1 DEF Unlinked
    <2> QED
      BY <2>1, <2>3, <2>4, <2>5 DEF LinksOK, InPlace
  <1>19. ASSUME NEW w \in Workers, Overtaken(w) \/ RunFails(w) PROVE SmoothLinks'
    <2>1. CASE RunFails(w)
      BY <2>1, SpendIsRemembered DEF RunFails, Smooth, Outside, SmoothLinks
    <2>2. CASE Overtaken(w)
      <3>1. pc[w] \in Critical /\ lock # w /\ faults' = faults
        BY <2>2 DEF Overtaken, Heartbeats, Lost, Critical, InPass
      <3> QED
        BY <3>1 DEF DInv, HoldersOwn, Calm, Smooth, SmoothLinks
    <2> QED
      BY <1>19, <2>1, <2>2
  <1> QED
    BY <1>1, <1>2, <1>3, <1>4, <1>5, <1>7, <1>8, <1>9, <1>10, <1>11, <1>12, <1>13, <1>14, <1>15,
       <1>16, <1>17, <1>18, <1>19 DEF Next, Run, Pass

\* At the start nothing is published, linked or owed.
LEMMA FInit == Init => FreshOrOwed /\ SmoothLinks
  <1> SUFFICES ASSUME Init PROVE FreshOrOwed /\ SmoothLinks
    OBVIOUS
  <1>1. /\ master.gen = 0 /\ master.plan = NoPlan /\ master.links = {} /\ spawns = 0
        /\ build.at = "idle" /\ build.links = {} /\ pc = [w \in Workers |-> "idle"]
        /\ job = [w \in Workers |-> NoJob]
    BY DEF Init, NoBuild
  <1>2. FreshOrOwed
    BY <1>1, NoJobTyped DEF FreshOrOwed, InPass
  <1>3. SmoothLinks
    BY <1>1, NoJobTyped DEF SmoothLinks, LinksOK
  <1> QED
    BY <1>2, <1>3

\* What is so when everybody rests.
LEMMA RestingIsConsistent ==
    IInv /\ DInv /\ FreshOrOwed /\ SmoothLinks => RestIsConsistent
  <1> SUFFICES ASSUME IInv, DInv, FreshOrOwed, SmoothLinks, Smooth, Resting, master.plan # NoPlan,
                      NEW s \in Shots
               PROVE  /\ InPlace(s) <=> master.plan[s] # 0
                      /\ InPlace(s) => place[s].plan = master.plan[s]
                      /\ s \in master.links => InPlace(s)
                      /\ InPlace(s) /\ s \notin collected => s \in master.links
    BY DEF RestIsConsistent
  <1>1. /\ ~ asked /\ spawns = 0 /\ build.at = "idle"
        /\ \A w \in Workers : pc[w] = "idle" /\ job[w].written = {}
    BY DEF Resting, At, FreshOrOwed
  <1>2. ~ pending
    BY <1>1, NoneIsNobody DEF IInv, RequestsAreSeen, LockIsAtWork, Roles, Critical, InPass
  <1>3. Fresh
    BY <1>1, <1>2 DEF FreshOrOwed, PassOwed, InPass
  <1>4. LinksOK /\ ~ Writer(s)
    BY <1>1 DEF SmoothLinks, Writer
  <1> QED
    BY <1>1, <1>3, <1>4 DEF Fresh, LinksOK

\* When the trigger owes nothing, every worker is done and nothing failed on the
\* way, what is in place is what is published, no link dangles, and what is in
\* place is linked, but for shots whose container was once collected.
THEOREM RestStaysConsistent == Spec => []RestIsConsistent
  <1>1. Init => IInv /\ DInv /\ QInv /\ FreshOrOwed /\ SmoothLinks
    BY InitInv, DInit, QInit, FInit
  <1>2. (IInv /\ DInv /\ QInv /\ FreshOrOwed /\ SmoothLinks) /\ [Next]_vars
          => (IInv /\ DInv /\ QInv /\ FreshOrOwed /\ SmoothLinks)'
    BY StepInv, DStep, QStep, FStep, LStep
  <1>3. IInv /\ DInv /\ QInv /\ FreshOrOwed /\ SmoothLinks => RestIsConsistent
    BY RestingIsConsistent
  <1> QED
    BY <1>1, <1>2, <1>3, PTL DEF Spec
=============================================================================
