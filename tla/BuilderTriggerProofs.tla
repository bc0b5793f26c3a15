------------------------ MODULE BuilderTriggerProofs ------------------------
(***************************************************************************)
(* For any settings, any limits of faults and workers and any number of    *)
(* inputs: types, one gate at a time, no build that nobody asked for, a    *)
(* catalog that is the newest one built, and nothing left unchecked when   *)
(* everything is at rest.                                                  *)
(***************************************************************************)
EXTENDS BuilderTrigger, TLAPS

Phases == {"none", "reading", "publishing", "ok", "failed"}
Reads == UNION {[S -> Versions] : S \in SUBSET Sources}
BuildStates == [phase : Phases, read : Reads]

\* The settings stay, and the counters within their limits.
Limited ==
    /\ scene \in Scenes /\ relinks \in 0..MaxRelinks
    /\ faults \in [FaultKinds -> Nat] /\ \A k \in FaultKinds : faults[k] <= scene.limit[k]

\* Versions on disk, and those the trigger had a chance to hear of.
Versioned ==
    /\ input \in [Sources -> Versions] /\ seen \in Versions
    /\ due \in [Sources -> Versions] /\ begun \in [Sources -> Versions]
    /\ untold \subseteq Sources
    /\ looked \in BOOLEAN /\ unchecked \in BOOLEAN

\* A build locks when it has read everything; without a restart there is one
\* build at a time and it has read nothing older than what was published.
BuildsAreFresh ==
    /\ builds \in [Builds -> BuildStates]
    /\ built \in [Sources -> Versions] /\ newest \in [Sources -> Versions]
    /\ \A b \in Builds : builds[b].phase = "publishing" => DOMAIN builds[b].read = Sources
    /\ faults["restart"] = 0 =>
         /\ builds["stray"] = NoBuild /\ built = newest
         /\ \A s \in Sources : newest[s] <= input[s]
         /\ \A s \in DOMAIN builds["own"].read :
               newest[s] <= builds["own"].read[s] /\ builds["own"].read[s] <= input[s]

\* Workers within their bound, one of them converting.
WorkersBounded ==
    /\ watched \in [starting : Nat, converting : Nat, busy : Nat]
    /\ unwatched \in [starting : Nat, converting : Nat, busy : Nat]
    /\ Alive(watched) + Alive(unwatched) <= MaxWorkers
    /\ watched.converting + unwatched.converting <= 1

\* A gate is being started or runs exactly while the trigger says so.
GatesCounted ==
    /\ spawning \in Nat /\ gates \in Nat /\ validating \in BOOLEAN /\ again \in BOOLEAN
    /\ spawning + gates = IF validating THEN 1 ELSE 0

\* Nothing wakes the loop that was not notified since the last build began.
WokenByNotice ==
    /\ wake \in BOOLEAN /\ heard \in BOOLEAN
    /\ pc \in {"waiting", "debounce", "building"}
    /\ wake \/ pc = "debounce" => heard

IInv == Limited /\ Versioned /\ BuildsAreFresh /\ WorkersBounded /\ GatesCounted /\ WokenByNotice
-----------------------------------------------------------------------------
\* What a scene holds.
LEMMA SceneTyped ==
    ASSUME NEW s \in Scenes
    PROVE  /\ s.relinks \in Nat /\ s.workers \in Nat /\ s.workers >= 2
           /\ s.containers \in BOOLEAN /\ s.validates \in BOOLEAN
           /\ \A k \in FaultKinds : s.limit[k] \in Nat
  BY ConstantsOK

\* The bound of the landings is a number.
LEMMA VersionsAreNumbers == 0 \in Versions /\ Versions \subseteq Nat
  BY ConstantsOK DEF Versions

\* A build that has read nothing.
LEMMA NoBuildTyped == NoBuild \in BuildStates /\ DOMAIN NoBuild.read = {} /\ NoBuild.phase = "none"
  <1>1. [s \in {} |-> 0] \in [{} -> Versions] /\ {} \in SUBSET Sources
    OBVIOUS
  <1>2. [s \in {} |-> 0] \in Reads
    BY <1>1, Zenon DEF Reads
  <1> QED
    BY <1>2 DEF NoBuild, BuildStates, Phases

\* A fault of one kind counts that kind up.
LEMMA FaultKeepsLimits ==
    ASSUME Limited, NEW k \in FaultKinds, Fault(k), scene' = scene, relinks' = relinks
    PROVE  /\ Limited' /\ faults'[k] = faults[k] + 1
           /\ \A j \in FaultKinds \ {k} : faults'[j] = faults[j]
  BY SceneTyped DEF Limited, Fault, MaxRelinks

\* Without faults and relinks the counters stay.
LEMMA LimitsStay == Limited /\ UNCHANGED <<scene, counters>> => Limited'
  BY DEF Limited, MaxRelinks, counters

\* The initial states.
LEMMA InitInv == Init => IInv
  <1> SUFFICES ASSUME Init PROVE IInv
    OBVIOUS
  <1>1. scene \in Scenes /\ scene.workers \in Nat /\ scene.relinks \in Nat
    BY SceneTyped DEF Init
  <1>2. \A k \in FaultKinds : 0 <= scene.limit[k]
    BY <1>1, SceneTyped
  <1>3. Limited
    BY <1>1, <1>2 DEF Init, Limited, MaxRelinks
  <1>4. Versioned
    BY VersionsAreNumbers DEF Init, Versioned, Nothing
  <1>5. BuildsAreFresh
    <2>1. builds = [b \in Builds |-> NoBuild] /\ built = Nothing /\ newest = Nothing /\ input = Nothing
      BY DEF Init
    <2>2. Nothing \in [Sources -> Versions] /\ \A s \in Sources : Nothing[s] = 0
      BY VersionsAreNumbers DEF Nothing
    <2>3. "own" \in Builds /\ "stray" \in Builds
      BY DEF Builds
    <2> QED
      BY <2>1, <2>2, <2>3, NoBuildTyped DEF BuildsAreFresh
  <1>6. WorkersBounded
    BY <1>1 DEF Init, WorkersBounded, NoWorkers, Alive, MaxWorkers
  <1>7. GatesCounted
    <2>1. spawning + gates = 0 /\ validating = FALSE /\ again = FALSE
      BY DEF Init
    <2> QED
      BY <2>1 DEF Init, GatesCounted
  <1>8. WokenByNotice
    BY DEF Init, WokenByNotice
  <1> QED
    BY <1>3, <1>4, <1>5, <1>6, <1>7, <1>8 DEF IInv

\* A worker is started while there are fewer than the bound.
LEMMA WorkerStartedKeeps ==
    ASSUME Limited, WorkersBounded, WorkerStarted, UNCHANGED <<scene, unwatched>>
    PROVE  WorkersBounded'
  <1>1. scene.workers \in Nat
    BY SceneTyped DEF Limited
  <1> QED
    BY <1>1 DEF WorkerStarted, WorkersBounded, MaxWorkers, Alive

\* What the trigger starts and what it does not keeps the workers' bound.
LEMMA StartWorkerKeeps ==
    ASSUME Limited, WorkersBounded, StartWorker, UNCHANGED <<scene, unwatched, relinks>>
    PROVE  WorkersBounded' /\ Limited' /\ faults'["restart"] = faults["restart"]
  <1>1. CASE WorkerStarted /\ UNCHANGED faults
    BY <1>1, LimitsStay, WorkerStartedKeeps DEF counters
  <1>2. CASE Fault("worker") /\ UNCHANGED watched
    BY <1>2, FaultKeepsLimits DEF WorkersBounded, MaxWorkers, Alive, FaultKinds
  <1> QED
    BY <1>1, <1>2 DEF StartWorker

\* A gate is started only when none is there.
LEMMA StartGateKeeps ==
    ASSUME GatesCounted, NEW wanted \in BOOLEAN, StartGate(wanted), gates' = gates, scene \in Scenes
    PROVE  GatesCounted'
  BY SceneTyped DEF GatesCounted, StartGate, Validates

\* The own build begins anew, having read nothing.
LEMMA OwnBegins ==
    ASSUME BuildsAreFresh, NEW p \in {"none", "reading"},
           builds' = [builds EXCEPT !["own"] = [NoBuild EXCEPT !.phase = p]],
           UNCHANGED <<built, newest, input>>, faults'["restart"] = faults["restart"]
    PROVE  BuildsAreFresh'
  <1>1. "own" \in Builds /\ "stray" \in Builds /\ p \in Phases
    BY DEF Builds, Phases
  <1>2. [NoBuild EXCEPT !.phase = p] \in BuildStates
    BY <1>1, NoBuildTyped DEF BuildStates
  <1>3. [NoBuild EXCEPT !.phase = p].phase = p /\ DOMAIN [NoBuild EXCEPT !.phase = p].read = {}
    BY NoBuildTyped DEF BuildStates
  <1>4. builds'["own"].phase = p /\ DOMAIN builds'["own"].read = {} /\ builds'["stray"] = builds["stray"]
        /\ builds' \in [Builds -> BuildStates]
    BY <1>1, <1>2, <1>3 DEF BuildsAreFresh
  <1> QED
    BY <1>4 DEF BuildsAreFresh, Builds

\* Builds: what a step of one does.
LEMMA BuildSteps ==
    ASSUME IInv, NEW b \in Builds,
           \/ \E s \in Sources : Read(b, s)
           \/ Lock(b) \/ PublishOutput(b) \/ BuildFails(b)
    PROVE  IInv'
  <1> USE DEF inputs, workers, gate, history, counters, outputs
  <1>n. NoBuild \in BuildStates /\ DOMAIN NoBuild.read = {} /\ NoBuild.phase = "none"
    BY NoBuildTyped
  <1>b. BuildsAreFresh /\ Limited /\ Versioned
    BY DEF IInv
  <1>t. /\ builds[b] \in BuildStates /\ builds \in [Builds -> BuildStates]
        /\ builds[b].phase \in Phases /\ builds[b].read \in Reads
    BY <1>b DEF BuildsAreFresh, BuildStates
  <1>p. {"reading", "publishing", "ok", "failed", "none"} \subseteq Phases
    BY DEF Phases
  <1>o. "own" \in Builds /\ "stray" \in Builds /\ \A x \in Builds : x = "own" \/ x = "stray"
    BY DEF Builds
  <1>v. Versions \subseteq Nat
    BY VersionsAreNumbers
  \* a build that only changes its phase, not to publishing, or ends
  <1>e. ASSUME NEW p \in Phases, p # "publishing", builds' = [builds EXCEPT ![b] = Ended(b, p)],
               builds[b].phase \in {"reading", "publishing"},
               UNCHANGED <<built, newest, input>>, faults["restart"] = faults'["restart"]
        PROVE  BuildsAreFresh'
    <2>1. /\ Ended(b, p) \in BuildStates /\ Ended(b, p).phase # "publishing"
          /\ Ended(b, p).read = builds[b].read \/ Ended(b, p) = NoBuild
          /\ b = "stray" => Ended(b, p) = NoBuild
      BY <1>e, <1>t, <1>n DEF Ended, BuildStates
    <2>2. builds' \in [Builds -> BuildStates] /\ builds'[b] = Ended(b, p)
          /\ \A x \in Builds \ {b} : builds'[x] = builds[x]
      BY <2>1, <1>e, <1>t
    <2>3. builds'["own"].read = builds["own"].read \/ DOMAIN builds'["own"].read = {}
      BY <2>1, <2>2, <1>n, <1>o
    <2>4. faults["restart"] = 0 => builds'["stray"] = NoBuild
      BY <2>1, <2>2, <1>b, <1>o DEF BuildsAreFresh
    <2> QED
      BY <2>1, <2>2, <2>3, <2>4, <1>e, <1>b DEF BuildsAreFresh
  <1>1. ASSUME NEW s \in Sources, Read(b, s) PROVE IInv'
    <2> DEFINE more == [t \in DOMAIN builds[b].read \cup {s} |->
                          IF t = s THEN input[s] ELSE builds[b].read[t]]
    <2>1. builds' = [builds EXCEPT ![b].read = more] /\ builds[b].phase = "reading"
          /\ UNCHANGED <<scene, input, untold, looked, seen, wake, pc, built, workers, gate,
                         unchecked, heard, history, counters>>
      BY <1>1 DEF Read
    <2>2. PICK S \in SUBSET Sources : builds[b].read \in [S -> Versions]
      BY <1>t DEF Reads
    <2>3. more \in [S \cup {s} -> Versions] /\ S \cup {s} \in SUBSET Sources
          /\ DOMAIN more = DOMAIN builds[b].read \cup {s}
      BY <2>2, <1>b DEF Versioned
    <2>4. more \in Reads
      BY <2>3, Zenon DEF Reads
    <2>5. more[s] = input[s] /\ \A t \in DOMAIN builds[b].read : t # s => more[t] = builds[b].read[t]
      OBVIOUS
    <2> HIDE DEF more
    <2>6. /\ builds' \in [Builds -> BuildStates] /\ builds'[b].read = more
          /\ builds'[b].phase = "reading" /\ \A x \in Builds \ {b} : builds'[x] = builds[x]
      BY <2>1, <2>4, <1>t DEF BuildStates
    <2>7. BuildsAreFresh'
      <3>1. ASSUME faults["restart"] = 0
            PROVE  /\ builds'["stray"] = NoBuild
                   /\ \A t \in DOMAIN builds'["own"].read :
                        newest[t] <= builds'["own"].read[t] /\ builds'["own"].read[t] <= input[t]
        <4>1. b = "own"
          BY <3>1, <2>1, <1>b, <1>n, <1>o DEF BuildsAreFresh
        <4>2. input[s] \in Nat /\ newest[s] <= input[s]
          BY <3>1, <1>b, <1>v DEF BuildsAreFresh, Versioned
        <4>3. \A t \in DOMAIN builds["own"].read :
                 newest[t] <= builds["own"].read[t] /\ builds["own"].read[t] <= input[t]
          BY <3>1, <1>b DEF BuildsAreFresh
        <4>4. \A t \in DOMAIN more : newest[t] <= more[t] /\ more[t] <= input[t]
          BY <4>1, <4>2, <4>3, <2>3, <2>5
        <4>5. builds'["stray"] = builds["stray"] /\ builds'["own"].read = more
          BY <4>1, <2>6, <1>o
        <4> QED
          BY <4>4, <4>5, <3>1, <1>b DEF BuildsAreFresh
      <3>2. \A x \in Builds : builds'[x].phase = "publishing" => DOMAIN builds'[x].read = Sources
        BY <2>6, <1>b DEF BuildsAreFresh
      <3> QED
        BY <3>1, <3>2, <2>1, <2>6, <1>b DEF BuildsAreFresh
    <2> QED
      BY <2>1, <2>7, LimitsStay DEF IInv, Versioned, WorkersBounded, GatesCounted, WokenByNotice, MaxWorkers,
         Alive
  <1>2. CASE Lock(b)
    <2>1. /\ builds[b].phase = "reading" /\ DOMAIN builds[b].read = Sources
          /\ UNCHANGED <<scene, input, untold, looked, seen, wake, pc, built, workers, gate,
                         unchecked, heard, history, counters>>
      BY <1>2 DEF Lock, ReadAll
    <2>2. BuildsAreFresh'
      <3>1. CASE Locked
        BY <3>1, <1>2, <1>e, <2>1, <1>p DEF Lock
      <3>2. CASE ~Locked
        <4>1. builds' = [builds EXCEPT ![b].phase = "publishing"]
          BY <3>2, <1>2 DEF Lock
        <4>2. /\ builds' \in [Builds -> BuildStates] /\ builds'[b].read = builds[b].read
              /\ \A x \in Builds \ {b} : builds'[x] = builds[x]
          BY <4>1, <1>t, <1>p DEF BuildStates
        <4>3. faults["restart"] = 0 => b = "own"
          BY <2>1, <1>b, <1>n, <1>o DEF BuildsAreFresh
        <4>4. \A x \in Builds : builds'[x].read = builds[x].read
          BY <4>2
        <4> QED
          BY <4>2, <4>3, <4>4, <2>1, <1>b, <1>o DEF BuildsAreFresh
      <3> QED
        BY <3>1, <3>2
    <2> QED
      BY <2>1, <2>2, LimitsStay DEF IInv, Versioned, WorkersBounded, GatesCounted, WokenByNotice, MaxWorkers,
         Alive
  <1>3. CASE PublishOutput(b)
    <2>1. /\ builds[b].phase = "publishing" /\ built' = builds[b].read
          /\ newest' = [s \in Sources |-> Max2(newest[s], builds[b].read[s])]
          /\ unchecked' = TRUE /\ builds' = [builds EXCEPT ![b] = Ended(b, "ok")]
          /\ UNCHANGED <<scene, input, untold, looked, seen, wake, pc, workers, gate, heard, due,
                         begun, counters>>
      BY <1>3 DEF PublishOutput
    <2>2. builds[b].read \in [Sources -> Versions]
      BY <2>1, <1>t, <1>b DEF BuildsAreFresh, Reads
    <2>3. newest' \in [Sources -> Versions]
      BY <2>1, <2>2, <1>b DEF BuildsAreFresh, Max2
    <2>4. /\ Ended(b, "ok") \in BuildStates /\ Ended(b, "ok").phase # "publishing"
          /\ Ended(b, "ok").read = builds[b].read \/ Ended(b, "ok") = NoBuild
          /\ b = "stray" => Ended(b, "ok") = NoBuild
      BY <1>t, <1>n, <1>p DEF Ended, BuildStates
    <2>5. builds' \in [Builds -> BuildStates] /\ builds'[b] = Ended(b, "ok")
          /\ \A x \in Builds \ {b} : builds'[x] = builds[x]
      BY <2>1, <2>4, <1>t
    <2>6. ASSUME faults["restart"] = 0
          PROVE  /\ builds'["stray"] = NoBuild /\ built' = newest'
                 /\ \A s \in Sources : newest'[s] <= input[s]
                 /\ \A s \in DOMAIN builds'["own"].read :
                       newest'[s] <= builds'["own"].read[s] /\ builds'["own"].read[s] <= input[s]
      <3>1. b = "own" /\ builds["stray"] = NoBuild
        BY <2>6, <2>1, <1>b, <1>n, <1>o DEF BuildsAreFresh
      <3>2. \A s \in Sources : newest[s] <= builds["own"].read[s] /\ builds["own"].read[s] <= input[s]
        BY <2>6, <2>2, <3>1, <1>b DEF BuildsAreFresh
      <3>0. /\ builds["own"].read \in [Sources -> Versions]
            /\ \A s \in Sources : builds["own"].read[s] \in Nat /\ newest[s] \in Nat
        BY <3>1, <2>2, <1>b, <1>v DEF BuildsAreFresh
      <3>3. \A s \in Sources : Max2(newest[s], builds["own"].read[s]) = builds["own"].read[s]
        BY <3>2, <3>0 DEF Max2
      <3>4. newest' = builds["own"].read
        BY <3>3, <3>1, <2>1, <2>2
      <3>5. builds'["own"].read = builds["own"].read \/ DOMAIN builds'["own"].read = {}
        BY <3>1, <2>4, <2>5, <1>n, <1>o
      <3>6. builds'["stray"] = NoBuild
        BY <3>1, <2>5, <1>o
      <3>7. \A s \in Sources : builds["own"].read[s] <= builds["own"].read[s]
        BY <3>0
      <3> QED
        BY <3>1, <3>2, <3>4, <3>5, <3>6, <3>7, <2>1, <2>2
    <2>7. BuildsAreFresh'
      BY <2>1, <2>2, <2>3, <2>4, <2>5, <2>6, <1>b DEF BuildsAreFresh
    <2> QED
      BY <2>1, <2>7, LimitsStay DEF IInv, Versioned, WorkersBounded, GatesCounted, WokenByNotice, MaxWorkers,
         Alive
  <1>4. CASE BuildFails(b)
    <2>1. /\ builds[b].phase \in {"reading", "publishing"} /\ Fault("build")
          /\ builds' = [builds EXCEPT ![b] = Ended(b, "failed")]
          /\ unchecked' \in {unchecked, unchecked \/ builds[b].phase = "publishing"}
          /\ UNCHANGED <<scene, input, untold, looked, seen, wake, pc, built, workers, gate, heard,
                         history, relinks>>
      BY <1>4 DEF BuildFails, Running
    <2>2. Limited' /\ faults'["restart"] = faults["restart"]
      BY <2>1, <1>b, FaultKeepsLimits DEF FaultKinds
    <2>3. BuildsAreFresh'
      BY <2>1, <2>2, <1>e, <1>p
    <2>4. unchecked' \in BOOLEAN
      BY <2>1, <1>b DEF Versioned
    <2>5. Versioned'
      BY <2>1, <2>4, <1>b DEF Versioned
    <2> QED
      BY <2>1, <2>2, <2>3, <2>5 DEF IInv, WorkersBounded, GatesCounted, WokenByNotice, MaxWorkers, Alive
  <1> QED
    BY <1>1, <1>2, <1>3, <1>4

\* Inputs that change, and who hears of them.
LEMMA InputSteps ==
    ASSUME IInv, (\E s \in Sources : Land(s) \/ Tell(s)) \/ HookSkipped \/ FirstLook \/ LookAgain
    PROVE  IInv'
  <1> USE DEF inputs, workers, gate, history, counters, outputs
  <1>v. Versions \subseteq Nat /\ "labfrog" \in Sources
    BY VersionsAreNumbers DEF Sources
  <1>1. ASSUME NEW s \in Sources, Land(s) PROVE IInv'
    <2>1. /\ input["spool"] + input["labfrog"] + input["review"] < MaxLandings
          /\ input' = [input EXCEPT ![s] = @ + 1]
          /\ untold' = IF s = "labfrog" THEN untold ELSE untold \cup {s}
          /\ due' = IF s = "labfrog" /\ looked THEN [due EXCEPT ![s] = input'[s]] ELSE due
          /\ UNCHANGED <<scene, looked, seen, wake, pc, outputs, workers, gate, unchecked,
                         heard, begun, newest, counters>>
      BY <1>1 DEF Land
    <2>2. input["spool"] \in Nat /\ input["labfrog"] \in Nat /\ input["review"] \in Nat
      BY <1>v DEF IInv, Versioned, Sources
    <2>3. input[s] + 1 \in Versions /\ input[s] \in Nat
      <3>1. s = "spool" \/ s = "labfrog" \/ s = "review"
        BY DEF Sources
      <3>2. input[s] < MaxLandings /\ input[s] \in Nat
        BY <3>1, <2>1, <2>2, ConstantsOK
      <3> QED
        BY <3>2, ConstantsOK DEF Versions
    <2>4. input' \in [Sources -> Versions] /\ \A t \in Sources : input[t] <= input'[t]
      <3>1. input \in [Sources -> Versions]
        BY DEF IInv, Versioned
      <3>2. \A t \in Sources : input'[t] = (IF t = s THEN input[s] + 1 ELSE input[t]) /\ input[t] \in Nat
        BY <3>1, <2>1, <1>v
      <3>3. input' \in [Sources -> Versions]
        BY <3>1, <2>1, <2>3
      <3> QED
        BY <3>2, <3>3
    <2>5. Versioned'
      BY <2>1, <2>4 DEF IInv, Versioned
    <2>6. BuildsAreFresh'
      <3>1. DOMAIN builds["own"].read \subseteq Sources
            /\ \A t \in DOMAIN builds["own"].read : builds["own"].read[t] \in Nat
        <4>1. builds["own"].read \in Reads
          BY DEF IInv, BuildsAreFresh, Builds, BuildStates
        <4>2. PICK S \in SUBSET Sources : builds["own"].read \in [S -> Versions]
          BY <4>1, Zenon DEF Reads
        <4> QED
          BY <4>2, <1>v
      <3>2. \A t \in Sources : input[t] \in Nat /\ input'[t] \in Nat /\ newest[t] \in Nat
        BY <2>4, <1>v DEF IInv, Versioned, BuildsAreFresh
      <3> QED
        BY <3>1, <3>2, <2>1, <2>4 DEF IInv, BuildsAreFresh
    <2> QED
      BY <2>1, <2>5, <2>6, LimitsStay DEF IInv, WorkersBounded, GatesCounted, WokenByNotice, MaxWorkers, Alive
  <1>2. ASSUME NEW s \in Sources, Tell(s) PROVE IInv'
    BY <1>2, LimitsStay DEF Tell, Notify, IInv, Versioned, BuildsAreFresh, WorkersBounded, GatesCounted,
       WokenByNotice, MaxWorkers, Alive
  <1>3. CASE FirstLook
    BY <1>3, <1>v, LimitsStay DEF FirstLook, IInv, Versioned, BuildsAreFresh, WorkersBounded, GatesCounted,
       WokenByNotice, MaxWorkers, Alive
  <1>4. CASE LookAgain
    BY <1>4, <1>v, LimitsStay DEF LookAgain, Notify, IInv, Versioned, BuildsAreFresh, WorkersBounded,
       GatesCounted, WokenByNotice, MaxWorkers, Alive
  <1>5. CASE HookSkipped
    BY <1>5, LimitsStay DEF HookSkipped, IInv, Versioned, BuildsAreFresh, WorkersBounded,
       GatesCounted, WokenByNotice, MaxWorkers, Alive
  <1> QED
    BY <1>1, <1>2, <1>3, <1>4, <1>5

\* The loop of the trigger.
LEMMA LoopSteps ==
    ASSUME IInv, Trigger \/ LaunchFails
    PROVE  IInv'
  <1> USE DEF inputs, workers, gate, history, counters, outputs
  <1>b. Limited /\ Versioned /\ BuildsAreFresh /\ WorkersBounded /\ GatesCounted /\ WokenByNotice
    BY DEF IInv
  <1>o. [NoBuild EXCEPT !.phase = "none"] = NoBuild
    BY DEF NoBuild
  <1>1. CASE Wake
    BY <1>1, LimitsStay DEF Wake, IInv, Versioned, BuildsAreFresh, WorkersBounded, GatesCounted,
       WokenByNotice, MaxWorkers, Alive
  <1>2. CASE Debounced
    <2>1. /\ wake' = FALSE /\ heard' = FALSE /\ StartWorker /\ pc' = "building"
          /\ builds' = [builds EXCEPT !["own"] = [NoBuild EXCEPT !.phase = "reading"]]
          /\ begun' = input
          /\ UNCHANGED <<inputs, built, unwatched, gate, unchecked, due, newest, relinks>>
      BY <1>2 DEF Debounced
    <2>2. WorkersBounded' /\ Limited' /\ faults'["restart"] = faults["restart"]
      BY <2>1, <1>b, StartWorkerKeeps
    <2>3. BuildsAreFresh'
      BY <2>1, <2>2, <1>b, OwnBegins
    <2> QED
      BY <2>1, <2>2, <2>3, <1>b DEF IInv, Versioned, GatesCounted, WokenByNotice
  <1>3. CASE BuildSucceeded
    <2>1. /\ StartWorker /\ StartGate(~ContainersEnabled) /\ pc' = "waiting"
          /\ builds' = [builds EXCEPT !["own"] = NoBuild]
          /\ UNCHANGED <<inputs, wake, built, unwatched, gates, unchecked, heard, history, relinks>>
      BY <1>3 DEF BuildSucceeded
    <2>2. WorkersBounded' /\ Limited' /\ faults'["restart"] = faults["restart"]
      BY <2>1, <1>b, StartWorkerKeeps
    <2>3. BuildsAreFresh'
      BY <2>1, <2>2, <1>b, <1>o, OwnBegins
    <2>4. (~ContainersEnabled) \in BOOLEAN /\ scene \in Scenes
      BY <1>b, SceneTyped DEF Limited, ContainersEnabled
    <2>5. GatesCounted'
      BY <2>1, <2>4, <1>b, StartGateKeeps
    <2> QED
      BY <2>1, <2>2, <2>3, <2>5, <1>b DEF IInv, Versioned, WokenByNotice
  <1>4. CASE BuildFailed
    <2>1. /\ pc' = "waiting" /\ builds' = [builds EXCEPT !["own"] = NoBuild]
          /\ UNCHANGED <<inputs, wake, built, workers, gate, unchecked, heard, history, counters>>
      BY <1>4 DEF BuildFailed
    <2>2. BuildsAreFresh'
      BY <2>1, <1>b, <1>o, OwnBegins
    <2> QED
      BY <2>1, <2>2, <1>b, LimitsStay DEF IInv, Versioned, WorkersBounded, GatesCounted, WokenByNotice,
         MaxWorkers, Alive
  <1>5. CASE LaunchFails
    <2>1. /\ wake' = FALSE /\ heard' = FALSE /\ pc' = "waiting" /\ begun' = input
          /\ UNCHANGED <<inputs, outputs, unwatched, gate, unchecked, due, newest, relinks>>
      BY <1>5 DEF LaunchFails
    <2>2. WorkersBounded' /\ Limited' /\ faults'["restart"] = faults["restart"]
      <3>1. CASE WorkerStarted /\ Fault("launch")
        BY <3>1, <2>1, <1>b, WorkerStartedKeeps, FaultKeepsLimits DEF FaultKinds
      <3>2. CASE /\ UNCHANGED watched
                 /\ \A k \in {"launch", "worker"} : faults[k] < scene.limit[k]
                 /\ faults' = [faults EXCEPT !["launch"] = @ + 1, !["worker"] = @ + 1]
        <4>1. WorkersBounded'
          BY <3>2, <2>1, <1>b DEF WorkersBounded, MaxWorkers, Alive
        <4>2. /\ scene' = scene /\ scene \in Scenes
              /\ \A k \in FaultKinds : scene.limit[k] \in Nat /\ faults[k] \in Nat
          BY <2>1, <1>b, SceneTyped DEF Limited
        <4>3. Limited' /\ faults'["restart"] = faults["restart"]
          BY <3>2, <4>2, <2>1, <1>b DEF Limited, FaultKinds, MaxRelinks
        <4> QED
          BY <4>1, <4>3
      <3> QED
        BY <3>1, <3>2, <1>5 DEF LaunchFails
    <2> QED
      BY <2>1, <2>2, <1>b DEF IInv, Versioned, BuildsAreFresh, GatesCounted, WokenByNotice
  <1> QED
    BY <1>1, <1>2, <1>3, <1>4, <1>5 DEF Trigger

\* Workers and gates.
LEMMA ProcessSteps ==
    ASSUME IInv, Worker \/ WorkerWrites \/ WorkerRelinks \/ Gate \/ GateSpawnFails
    PROVE  IInv'
  <1> USE DEF inputs, workers, gate, history, counters, outputs
  <1>b. Limited /\ Versioned /\ BuildsAreFresh /\ WorkersBounded /\ GatesCounted /\ WokenByNotice
    BY DEF IInv
  <1>s. scene \in Scenes /\ scene.workers \in Nat /\ scene.relinks \in Nat
    BY <1>b, SceneTyped DEF Limited
  <1>1. CASE WorkerBegins
    <2>1. UNCHANGED <<inputs, wake, pc, outputs, gate, unchecked, heard, history, counters>>
      BY <1>1 DEF WorkerBegins
    <2>2. WorkersBounded'
      <3>0. MaxWorkers \in Nat /\ MaxWorkers' = MaxWorkers
        BY <2>1, <1>s DEF MaxWorkers
      <3> HIDE DEF MaxWorkers
      <3>1. /\ watched \in [starting : Nat, converting : Nat, busy : Nat]
            /\ unwatched \in [starting : Nat, converting : Nat, busy : Nat]
            /\ Alive(watched) + Alive(unwatched) <= MaxWorkers
            /\ watched.converting + unwatched.converting <= 1
        BY <1>b DEF WorkersBounded
      <3>2. CASE Converting \/ newest = Nothing
        <4>1. CASE /\ watched.starting > 0 /\ unwatched' = unwatched
                   /\ watched' = [watched EXCEPT !.starting = @ - 1, !.busy = @ + 1]
          <5>1. watched' = [starting |-> watched.starting - 1, converting |-> watched.converting,
                            busy |-> watched.busy + 1]
            BY <4>1, <3>1
          <5> QED
            BY <5>1, <4>1, <3>0, <3>1 DEF WorkersBounded, Alive
        <4>2. CASE /\ unwatched.starting > 0 /\ watched' = watched
                   /\ unwatched' = [unwatched EXCEPT !.starting = @ - 1]
          <5>1. unwatched' = [starting |-> unwatched.starting - 1,
                              converting |-> unwatched.converting, busy |-> unwatched.busy]
            BY <4>2, <3>1
          <5> QED
            BY <5>1, <4>2, <3>0, <3>1 DEF WorkersBounded, Alive
        <4> QED
          BY <4>1, <4>2, <3>2, <1>1 DEF WorkerBegins
      <3>3. CASE ~(Converting \/ newest = Nothing)
        <4>1. watched.converting = 0 /\ unwatched.converting = 0
          BY <3>3, <3>1 DEF Converting
        <4>2. CASE /\ watched.starting > 0 /\ unwatched' = unwatched
                   /\ watched' = [watched EXCEPT !.starting = @ - 1, !.converting = 1]
          <5>1. watched' = [starting |-> watched.starting - 1, converting |-> 1, busy |-> watched.busy]
            BY <4>2, <3>1
          <5> QED
            BY <5>1, <4>1, <4>2, <3>0, <3>1 DEF WorkersBounded, Alive
        <4>3. CASE /\ unwatched.starting > 0 /\ watched' = watched
                   /\ unwatched' = [unwatched EXCEPT !.starting = @ - 1, !.converting = 1]
          <5>1. unwatched' = [starting |-> unwatched.starting - 1, converting |-> 1,
                              busy |-> unwatched.busy]
            BY <4>3, <3>1
          <5> QED
            BY <5>1, <4>1, <4>3, <3>0, <3>1 DEF WorkersBounded, Alive
        <4> QED
          BY <4>2, <4>3, <3>3, <1>1 DEF WorkerBegins
      <3> QED
        BY <3>2, <3>3
    <2> QED
      BY <2>1, <2>2, <1>b, LimitsStay DEF IInv, Versioned, BuildsAreFresh, GatesCounted, WokenByNotice
  <1>2. CASE WorkerDone
    <2>1. /\ StartGate(TRUE)
          /\ UNCHANGED <<inputs, wake, pc, outputs, unwatched, gates, unchecked, heard, history, counters>>
      BY <1>2 DEF WorkerDone
    <2>2. WorkersBounded'
      BY <1>2, <1>b, <1>s DEF WorkerDone, WorkersBounded, Alive, MaxWorkers
    <2>3. GatesCounted'
      BY <2>1, <1>b, <1>s, StartGateKeeps
    <2> QED
      BY <2>1, <2>2, <2>3, <1>b, LimitsStay DEF IInv, Versioned, BuildsAreFresh, WokenByNotice
  <1>3. CASE WorkerBusy
    <2>1. UNCHANGED <<inputs, wake, pc, outputs, gate, unchecked, heard, history, counters>>
      BY <1>3 DEF WorkerBusy
    <2>2. WorkersBounded'
      BY <1>3, <1>b, <1>s DEF WorkerBusy, WorkersBounded, Alive, MaxWorkers
    <2> QED
      BY <2>1, <2>2, <1>b, LimitsStay DEF IInv, Versioned, BuildsAreFresh, GatesCounted, WokenByNotice
  <1>4. CASE UnwatchedEnds
    <2>1. UNCHANGED <<inputs, wake, pc, outputs, gate, unchecked, heard, history, counters>>
      BY <1>4 DEF UnwatchedEnds
    <2>2. WorkersBounded'
      BY <1>4, <1>b, <1>s DEF UnwatchedEnds, WorkersBounded, Alive, MaxWorkers
    <2> QED
      BY <2>1, <2>2, <1>b, LimitsStay DEF IInv, Versioned, BuildsAreFresh, GatesCounted, WokenByNotice
  <1>5. CASE WorkerWrites
    BY <1>5, LimitsStay DEF WorkerWrites, IInv, Versioned, BuildsAreFresh, WorkersBounded, GatesCounted,
       WokenByNotice, MaxWorkers, Alive
  <1>6. CASE WorkerRelinks
    <2>1. /\ wake' = TRUE /\ heard' = TRUE /\ relinks < MaxRelinks /\ relinks' = relinks + 1
          /\ UNCHANGED <<inputs, pc, outputs, unwatched, gate, unchecked, history, faults>>
      BY <1>6 DEF WorkerRelinks, Notify
    <2>2. WorkersBounded'
      BY <1>6, <1>b, <1>s DEF WorkerRelinks, WorkersBounded, Alive, MaxWorkers
    <2>3. Limited'
      BY <2>1, <1>b, <1>s DEF Limited, MaxRelinks
    <2> QED
      BY <2>1, <2>2, <2>3, <1>b DEF IInv, Versioned, BuildsAreFresh, GatesCounted, WokenByNotice
  <1>7. CASE GateSpawned
    <2>1. /\ unchecked' = FALSE
          /\ UNCHANGED <<inputs, wake, pc, outputs, workers, validating, again, heard, history, counters>>
      BY <1>7 DEF GateSpawned
    <2>2. GatesCounted'
      BY <1>7, <1>b DEF GateSpawned, GatesCounted
    <2> QED
      BY <2>1, <2>2, <1>b, LimitsStay DEF IInv, Versioned, BuildsAreFresh, WorkersBounded, WokenByNotice,
         MaxWorkers, Alive
  <1>8. CASE GateEnds
    <2>1. UNCHANGED <<inputs, wake, pc, outputs, workers, unchecked, heard, history, counters>>
      BY <1>8 DEF GateEnds
    <2>2. GatesCounted'
      <3>1. validating = TRUE
        BY <1>8, <1>b DEF GateEnds, GatesCounted
      <3>2. spawning = 0 /\ gates = 1
        BY <3>1, <1>8, <1>b DEF GateEnds, GatesCounted
      <3>3. CASE again = TRUE
        <4>1. validating' = TRUE /\ again' = FALSE
          BY <3>3, <1>8 DEF GateEnds
        <4>2. spawning' + gates' = 1 /\ spawning' \in Nat /\ gates' \in Nat
          BY <3>2, <3>3, <1>8 DEF GateEnds
        <4> QED
          BY <4>1, <4>2, Zenon DEF GatesCounted
      <3>4. CASE again = FALSE
        <4>1. validating' = FALSE /\ again' = FALSE
          BY <3>4, <1>8 DEF GateEnds
        <4>2. spawning' + gates' = 0 /\ spawning' \in Nat /\ gates' \in Nat
          BY <3>2, <3>4, <1>8 DEF GateEnds
        <4> QED
          BY <4>1, <4>2, Zenon DEF GatesCounted
      <3> QED
        BY <3>3, <3>4, <1>b DEF GatesCounted
    <2> QED
      BY <2>1, <2>2, <1>b, LimitsStay DEF IInv, Versioned, BuildsAreFresh, WorkersBounded, WokenByNotice,
         MaxWorkers, Alive
  <1>9. CASE GateSpawnFails
    <2>1. /\ Fault("gate")
          /\ UNCHANGED <<inputs, wake, pc, outputs, workers, again, gates, unchecked, heard, history, relinks>>
      BY <1>9 DEF GateSpawnFails
    <2>2. GatesCounted'
      <3>1. validating = TRUE
        BY <1>9, <1>b DEF GateSpawnFails, GatesCounted
      <3>2. spawning' + gates' = 0 /\ spawning' \in Nat /\ gates' \in Nat
        BY <3>1, <1>9, <1>b DEF GateSpawnFails, GatesCounted
      <3>3. validating' = FALSE /\ again' = again
        BY <1>9 DEF GateSpawnFails
      <3> QED
        BY <3>2, <3>3, <1>b DEF GatesCounted
    <2>3. Limited' /\ faults'["restart"] = faults["restart"]
      BY <2>1, <1>b, FaultKeepsLimits DEF FaultKinds
    <2> QED
      BY <2>1, <2>2, <2>3, <1>b DEF IInv, Versioned, BuildsAreFresh, WorkersBounded, WokenByNotice,
         MaxWorkers, Alive
  <1> QED
    BY <1>1, <1>2, <1>3, <1>4, <1>5, <1>6, <1>7, <1>8, <1>9 DEF Worker, Gate

\* The process starts anew.
LEMMA RestartStep ==
    ASSUME IInv, Restart
    PROVE  IInv'
  <1>b. Limited /\ Versioned /\ BuildsAreFresh /\ WorkersBounded
    BY DEF IInv
  <1>1. Limited' /\ faults'["restart"] = faults["restart"] + 1
    BY <1>b, FaultKeepsLimits DEF Restart, FaultKinds
  <1>2. Versioned'
    BY <1>b, VersionsAreNumbers DEF Restart, Versioned, Nothing
  <1>3. BuildsAreFresh'
    <2>1. builds' \in [Builds -> BuildStates]
          /\ \A b \in Builds : builds'[b].phase = "publishing" => DOMAIN builds'[b].read = Sources
      BY <1>b, NoBuildTyped DEF Restart, BuildsAreFresh, Builds
    <2>2. faults["restart"] \in Nat
      BY <1>b DEF Limited, FaultKinds
    <2> QED
      BY <2>1, <2>2, <1>1, <1>b DEF Restart, BuildsAreFresh
  <1>4. WorkersBounded'
    <2>1. scene' = scene /\ scene.workers \in Nat
      BY <1>b, SceneTyped DEF Restart, Limited
    <2> QED
      BY <1>b, <2>1 DEF Restart, WorkersBounded, NoWorkers, Alive, MaxWorkers
  <1>5. GatesCounted'
    <2>1. spawning' + gates' = 0 /\ validating' = FALSE /\ again' = FALSE
      BY DEF Restart
    <2> QED
      BY <2>1 DEF Restart, GatesCounted
  <1>6. WokenByNotice'
    BY DEF Restart, WokenByNotice
  <1> QED
    BY <1>1, <1>2, <1>3, <1>4, <1>5, <1>6 DEF IInv

\* The invariant is inductive.
LEMMA StepInv == IInv /\ [Next]_vars => IInv'
  <1> SUFFICES ASSUME IInv, [Next]_vars PROVE IInv'
    OBVIOUS
  <1>1. CASE UNCHANGED vars
    BY <1>1, LimitsStay DEF vars, inputs, workers, gate, history, counters, outputs, IInv, Versioned,
       BuildsAreFresh, WorkersBounded, GatesCounted, WokenByNotice, MaxWorkers, Alive
  <1>2. CASE Builder
    BY <1>2, BuildSteps DEF Builder
  <1>3. CASE Failure
    BY <1>3, BuildSteps, LoopSteps, ProcessSteps, RestartStep DEF Failure
  <1> QED
    BY <1>1, <1>2, <1>3, InputSteps, LoopSteps, ProcessSteps DEF Next

\* What is inductive gives each variable its type.
LEMMA InvTypes == IInv => TypeOK
  <1> SUFFICES ASSUME IInv PROVE TypeOK
    OBVIOUS
  <1>1. scene.workers \in Nat
    BY SceneTyped DEF IInv, Limited
  <1>2. {watched, unwatched} \subseteq Processes
    BY <1>1 DEF IInv, WorkersBounded, Alive, MaxWorkers, Processes
  <1>3. ASSUME NEW b \in Builds
        PROVE  /\ builds[b].phase \in {"none", "reading", "publishing", "ok", "failed"}
               /\ \E S \in SUBSET Sources : builds[b].read \in [S -> Versions]
    <2>1. builds[b].phase \in Phases /\ builds[b].read \in Reads
      BY DEF IInv, BuildsAreFresh, BuildStates
    <2> QED
      BY <2>1, Zenon DEF Phases, Reads
  <1>4. {looked, wake, validating, again, unchecked, heard} \subseteq BOOLEAN
    BY Zenon DEF IInv, Versioned, WokenByNotice, GatesCounted
  <1> QED
    BY <1>2, <1>3, <1>4 DEF IInv, Limited, Versioned, BuildsAreFresh, GatesCounted, WokenByNotice, TypeOK

\* The types hold for any settings and limits.
THEOREM TypeCorrect == Spec => []TypeOK
  BY InitInv, StepInv, InvTypes, PTL DEF Spec

\* One gate at a time, however builds, workers and gates fail or are restarted.
THEOREM GatesAlternate == Spec => []OneGateAtATime
  <1>1. IInv => OneGateAtATime
    BY DEF IInv, GatesCounted, OneGateAtATime
  <1> QED
    BY <1>1, InitInv, StepInv, PTL DEF Spec

\* Without a restart, when no build runs the catalog is the newest that was built.
THEOREM CatalogConverges == Spec => []Converged
  <1>1. IInv => Converged
    BY DEF IInv, BuildsAreFresh, Converged
  <1> QED
    BY <1>1, InitInv, StepInv, PTL DEF Spec

\* No build starts that nothing was notified for since the last one.
THEOREM BuildsAreAskedFor == Spec => NoNeedlessBuild
  <1>1. IInv => (pc = "debounce" /\ pc' # "debounce" => heard)
    BY DEF IInv, WokenByNotice
  <1> QED
    BY <1>1, InitInv, StepInv, PTL DEF Spec, NoNeedlessBuild
-----------------------------------------------------------------------------
(* Whatever changed is checked.                                             *)

\* Nothing has failed so far.
NoFaults == \A k \in FaultKinds : faults[k] = 0
\* A version that is not the empty one.
Some(versions) == \E s \in Sources : versions[s] > 0

\* Without faults the builder that runs is the one that is awaited, and does not
\* fail; nobody's workers are left over.
Undisturbed ==
    NoFaults =>
      /\ unwatched = NoWorkers
      /\ builds["own"].phase # "failed"
      /\ builds["own"].phase # "none" => pc = "building"

\* A build is asked for when there is something to build, and it reads what there
\* was: so whoever converts, or finds a change, has a master.
Something ==
    /\ seen <= input["labfrog"] /\ \A s \in untold : input[s] > 0
    /\ \A s \in Sources : begun[s] <= input[s]
    /\ NoFaults =>
         /\ wake \/ pc = "debounce" => Some(input)
         /\ pc = "building" => Some(begun)
         /\ \A s \in DOMAIN builds["own"].read : begun[s] <= builds["own"].read[s]
         /\ unchecked \/ watched.converting > 0 => Some(newest)

\* What has changed since the last gate began is still owed one: by a build, by
\* a worker, or by the gate that was asked for.
Owed ==
    \/ wake \/ pc # "waiting"
    \/ watched.starting > 0 \/ watched.converting > 0
    \/ spawning > 0 \/ (gates > 0 /\ again)

\* Without faults, what no gate has seen is owed one.
ChecksOwed == Validates /\ NoFaults /\ unchecked => Owed


\* Kept by every step beside IInv.
CInv == Undisturbed /\ Something /\ ChecksOwed

\* A fault is counted for good.
LEMMA FaultIsNoted ==
    ASSUME Limited, NEW k \in FaultKinds, Fault(k)
    PROVE  ~NoFaults'
  BY DEF Limited, Fault, NoFaults

\* Nothing is owed at first.
LEMMA CheckInit == Init => CInv
  <1> SUFFICES ASSUME Init PROVE CInv
    OBVIOUS
  <1>1. builds["own"] = NoBuild /\ NoBuild.phase = "none" /\ DOMAIN NoBuild.read = {}
    BY NoBuildTyped DEF Init, Builds
  <1>2. \A s \in Sources : input[s] = 0 /\ begun[s] = 0
    BY DEF Init, Nothing
  <1>3. "labfrog" \in Sources
    BY DEF Sources
  <1> QED
    BY <1>1, <1>2, <1>3 DEF Init, CInv, Undisturbed, Something, ChecksOwed, NoWorkers

\* Numbers to compare.
LEMMA InvNumbers ==
    ASSUME IInv
    PROVE  /\ "labfrog" \in Sources
           /\ \A s \in Sources : input[s] \in Nat /\ begun[s] \in Nat /\ newest[s] \in Nat
           /\ seen \in Nat
           /\ DOMAIN builds["own"].read \subseteq Sources
           /\ \A s \in DOMAIN builds["own"].read : builds["own"].read[s] \in Nat
  <1>v. Versions \subseteq Nat /\ "labfrog" \in Sources /\ "own" \in Builds
    BY VersionsAreNumbers DEF Sources, Builds
  <1>1. builds["own"].read \in Reads
    BY <1>v DEF IInv, BuildsAreFresh, BuildStates
  <1>2. PICK S \in SUBSET Sources : builds["own"].read \in [S -> Versions]
    BY <1>1, Zenon DEF Reads
  <1> QED
    BY <1>v, <1>2 DEF IInv, Versioned, BuildsAreFresh

\* Inputs change, and are heard of.
LEMMA InputChecks ==
    ASSUME IInv, CInv,
           (\E s \in Sources : Land(s) \/ Tell(s)) \/ HookSkipped \/ FirstLook \/ LookAgain
    PROVE  CInv'
  <1> USE DEF inputs, workers, gate, history, counters, outputs
  <1>c. Undisturbed /\ Something /\ ChecksOwed
    BY DEF CInv
  <1>1. ASSUME NEW s \in Sources, Land(s) PROVE CInv'
    <2>1. /\ input' = [input EXCEPT ![s] = @ + 1] /\ untold' \subseteq untold \cup {s}
          /\ UNCHANGED <<scene, looked, seen, wake, pc, outputs, workers, gate, unchecked,
                         heard, begun, newest, counters>>
      BY <1>1 DEF Land
    <2>2. /\ input[s] + 1 > 0 /\ input \in [Sources -> Versions]
          /\ \A t \in Sources : input'[t] \in Nat /\ input[t] <= input'[t] /\ input'[s] > 0
      BY <2>1, InvNumbers DEF IInv, Versioned
    <2>3. NoFaults' = NoFaults /\ Validates' = Validates /\ Owed' = Owed
      BY <2>1 DEF NoFaults, Validates, Owed
    <2>4. Some(input) => Some(input')
      BY <2>2, InvNumbers DEF Some
    <2>5. Something'
      <3>1. seen' <= input'["labfrog"] /\ \A t \in untold' : input'[t] > 0
        BY <1>c, <2>1, <2>2, InvNumbers DEF Something, IInv, Versioned
      <3>2. \A t \in Sources : begun'[t] <= input'[t]
        BY <1>c, <2>1, <2>2, InvNumbers DEF Something
      <3> QED
        BY <1>c, <2>1, <2>3, <2>4, <3>1, <3>2 DEF Something
    <2> QED
      BY <1>c, <2>1, <2>3, <2>5 DEF CInv, Undisturbed, ChecksOwed
  <1>2. ASSUME NEW s \in Sources, Tell(s) PROVE CInv'
    <2>1. /\ s \in untold /\ untold' \subseteq untold /\ wake' = TRUE
          /\ UNCHANGED <<scene, input, looked, seen, pc, outputs, workers, gate, unchecked,
                         begun, newest, counters>>
      BY <1>2 DEF Tell, Notify
    <2>2. Some(input)
      BY <1>c, <2>1 DEF Something, Some
    <2> QED
      BY <1>c, <2>1, <2>2 DEF CInv, Undisturbed, Something, ChecksOwed, Owed, NoFaults, Validates
  <1>3. CASE FirstLook
    <2>1. /\ seen' = input["labfrog"]
          /\ UNCHANGED <<scene, input, untold, wake, pc, outputs, workers, gate, unchecked,
                         heard, history, counters>>
      BY <1>3 DEF FirstLook
    <2> QED
      BY <1>c, <2>1, InvNumbers DEF CInv, Undisturbed, Something, ChecksOwed, Owed, NoFaults,
         Validates
  <1>4. CASE LookAgain
    <2>1. /\ seen # input["labfrog"] /\ seen' = input["labfrog"] /\ wake' = TRUE
          /\ UNCHANGED <<scene, input, untold, looked, pc, outputs, workers, gate, unchecked,
                         history, counters>>
      BY <1>4 DEF LookAgain, Notify
    <2>2. Some(input)
      BY <1>c, <2>1, InvNumbers DEF Something, Some
    <2> QED
      BY <1>c, <2>1, <2>2, InvNumbers DEF CInv, Undisturbed, Something, ChecksOwed, Owed,
         NoFaults, Validates
  <1>5. CASE HookSkipped
    <2>1. /\ untold' \subseteq untold
          /\ UNCHANGED <<scene, input, looked, seen, wake, pc, outputs, workers, gate,
                         unchecked, heard, history, counters>>
      BY <1>5 DEF HookSkipped
    <2> QED
      BY <1>c, <2>1 DEF CInv, Undisturbed, Something, ChecksOwed, Owed, NoFaults, Validates
  <1> QED
    BY <1>1, <1>2, <1>3, <1>4, <1>5

\* A gate that is asked for is started, or remembered by the one that runs.
LEMMA StartGateOwes ==
    ASSUME IInv, NEW wanted, wanted, Validates, StartGate(wanted), gates' = gates
    PROVE  spawning' > 0 \/ (gates' > 0 /\ again')
  <1>1. /\ spawning \in Nat /\ gates \in Nat /\ (validating => spawning + gates = 1)
    BY DEF IInv, GatesCounted
  <1>2. CASE validating
    <2>1. again' /\ spawning' = spawning
      BY <1>2 DEF StartGate
    <2> QED
      BY <1>1, <1>2, <2>1
  <1>3. CASE ~validating
    <2>1. spawning' = spawning + 1
      BY <1>3 DEF StartGate
    <2> QED
      BY <1>1, <2>1
  <1> QED
    BY <1>2, <1>3

\* The loop: what it starts is followed by a gate.
LEMMA LoopChecks ==
    ASSUME IInv, CInv, Trigger \/ LaunchFails
    PROVE  CInv'
  <1> USE DEF inputs, workers, gate, history, counters, outputs
  <1>c. Undisturbed /\ Something /\ ChecksOwed /\ Limited /\ BuildsAreFresh
    BY DEF CInv, IInv
  <1>n. /\ NoBuild.phase = "none" /\ DOMAIN NoBuild.read = {} /\ "own" \in Builds
        /\ builds \in [Builds -> BuildStates] /\ scene \in Scenes
    BY <1>c, NoBuildTyped DEF Builds, BuildsAreFresh, Limited
  <1>w. ASSUME StartWorker, NoFaults' PROVE NoFaults /\ (ContainersEnabled => watched'.starting > 0)
    <2>1. faults' = faults
      BY <1>c, <1>w, FaultIsNoted DEF StartWorker, WorkerStarted, FaultKinds
    <2>2. ContainersEnabled => watched' = [watched EXCEPT !.starting = @ + 1]
      BY <1>c, <1>w, FaultIsNoted DEF StartWorker, WorkerStarted, FaultKinds
    <2>3. NoFaults
      BY <2>1, <1>w DEF NoFaults
    <2>4. watched.starting \in Nat /\ watched \in [starting : Nat, converting : Nat, busy : Nat]
      BY DEF IInv, WorkersBounded
    <2>5. ContainersEnabled => watched'.starting = watched.starting + 1
      BY <2>2, <2>4
    <2> QED
      BY <2>3, <2>4, <2>5
  <1>k. StartWorker => watched'.converting = watched.converting
    BY DEF StartWorker, WorkerStarted, IInv, WorkersBounded
  <1>1. CASE Wake
    <2>1. /\ wake /\ pc' = "debounce"
          /\ UNCHANGED <<inputs, outputs, workers, gate, unchecked, heard, history, counters>>
      BY <1>1 DEF Wake
    <2> QED
      BY <1>c, <1>1, <2>1
         DEF Wake, CInv, Undisturbed, Something, ChecksOwed, Owed, NoFaults, Validates
  <1>2. CASE Debounced
    <2>1. /\ pc = "debounce" /\ wake' = FALSE /\ StartWorker /\ pc' = "building"
          /\ builds' = [builds EXCEPT !["own"] = [NoBuild EXCEPT !.phase = "reading"]]
          /\ begun' = input
          /\ UNCHANGED <<inputs, built, unwatched, gate, unchecked, due, newest, relinks>>
      BY <1>2 DEF Debounced
    <2>2. builds'["own"].phase = "reading" /\ DOMAIN builds'["own"].read = {}
      BY <1>n, <2>1, NoBuildTyped DEF BuildStates
    <2>3. NoFaults' => NoFaults
      BY <1>w, <2>1
    <2>4. Something'
      BY <1>c, <1>k, <2>1, <2>2, <2>3, InvNumbers DEF Something
    <2> QED
      BY <1>c, <2>1, <2>2, <2>3, <2>4 DEF CInv, Undisturbed, ChecksOwed, Owed
  <1>3. CASE BuildSucceeded
    <2>1. /\ pc = "building" /\ StartWorker /\ StartGate(~ContainersEnabled) /\ pc' = "waiting"
          /\ builds' = [builds EXCEPT !["own"] = NoBuild]
          /\ UNCHANGED <<inputs, wake, built, unwatched, gates, unchecked, heard, history, relinks>>
      BY <1>3 DEF BuildSucceeded
    <2>2. builds'["own"] = NoBuild
      BY <1>n, <2>1
    <2>3. NoFaults' => NoFaults /\ (ContainersEnabled => watched'.starting > 0)
      BY <1>w, <2>1
    <2>4. Something'
      BY <1>c, <1>k, <1>n, <2>1, <2>2, <2>3 DEF Something
    <2>5. Validates /\ ~ContainersEnabled => spawning' > 0 \/ (gates' > 0 /\ again')
      BY <2>1, StartGateOwes
    <2> QED
      BY <1>c, <1>n, <2>1, <2>2, <2>3, <2>4, <2>5 DEF CInv, Undisturbed, ChecksOwed, Owed, Validates
  <1>4. CASE BuildFailed
    <2>1. /\ pc = "building" /\ pc' = "waiting" /\ builds' = [builds EXCEPT !["own"] = NoBuild]
          /\ builds["own"].phase = "failed"
          /\ UNCHANGED <<inputs, wake, built, workers, gate, unchecked, heard, history, counters>>
      BY <1>4 DEF BuildFailed
    <2>2. builds'["own"] = NoBuild /\ ~NoFaults /\ ~NoFaults'
      BY <1>c, <1>n, <2>1 DEF Undisturbed, NoFaults
    <2> QED
      BY <1>c, <1>n, <2>1, <2>2 DEF CInv, Undisturbed, Something, ChecksOwed
  <1>5. CASE LaunchFails
    <2>1. ~NoFaults'
      <3>1. CASE Fault("launch")
        BY <1>c, <3>1, FaultIsNoted DEF FaultKinds
      <3>2. CASE faults' = [faults EXCEPT !["launch"] = @ + 1, !["worker"] = @ + 1]
        BY <1>c, <3>2 DEF Limited, NoFaults, FaultKinds
      <3> QED
        BY <1>5, <3>1, <3>2 DEF LaunchFails
    <2>2. begun' = input /\ UNCHANGED <<inputs, outputs, gate>>
      BY <1>5 DEF LaunchFails
    <2> QED
      BY <1>c, <2>1, <2>2, InvNumbers DEF CInv, Undisturbed, Something, ChecksOwed
  <1> QED
    BY <1>1, <1>2, <1>3, <1>4, <1>5 DEF Trigger

\* A build reads what there is, and publishes what is no older than its start.
LEMMA BuilderChecks ==
    ASSUME IInv, CInv, NEW b \in Builds,
           \/ \E s \in Sources : Read(b, s)
           \/ Lock(b) \/ PublishOutput(b) \/ BuildFails(b)
    PROVE  CInv'
  <1> USE DEF inputs, workers, gate, history, counters, outputs
  <1>c. Undisturbed /\ Something /\ ChecksOwed /\ Limited /\ BuildsAreFresh
    BY DEF CInv, IInv
  <1>n. /\ NoBuild.phase = "none" /\ DOMAIN NoBuild.read = {}
        /\ "own" \in Builds /\ "stray" \in Builds /\ \A x \in Builds : x = "own" \/ x = "stray"
        /\ builds \in [Builds -> BuildStates] /\ builds[b] \in BuildStates
    BY <1>c, NoBuildTyped DEF Builds, BuildsAreFresh
  \* without faults it is the awaited one
  <1>o. ASSUME NoFaults, builds[b].phase # "none"
        PROVE  b = "own" /\ builds["stray"] = NoBuild /\ pc = "building" /\ newest = built
    <2>1. builds["stray"] = NoBuild /\ built = newest
      BY <1>o, <1>c DEF NoFaults, BuildsAreFresh, FaultKinds
    <2>2. b = "own"
      BY <1>o, <1>n, <2>1
    <2> QED
      BY <1>o, <1>c, <2>1, <2>2 DEF Undisturbed
  <1>1. ASSUME NEW s \in Sources, Read(b, s) PROVE CInv'
    <2>1. PICK more : more = [t \in DOMAIN builds[b].read \cup {s} |->
                                IF t = s THEN input[s] ELSE builds[b].read[t]]
      OBVIOUS
    <2>2. /\ builds' = [builds EXCEPT ![b].read = more] /\ builds[b].phase = "reading"
          /\ UNCHANGED <<scene, input, untold, looked, seen, wake, pc, built, workers, gate,
                         unchecked, heard, history, counters>>
      BY <1>1, <2>1 DEF Read
    <2>3. /\ builds'[b].phase = builds[b].phase /\ builds'[b].read = more
          /\ \A x \in Builds \ {b} : builds'[x] = builds[x]
      BY <1>n, <2>2 DEF BuildStates
    <2>4. NoFaults' = NoFaults /\ Validates' = Validates /\ Owed' = Owed
      BY <2>2 DEF NoFaults, Validates, Owed
    <2>5. builds'["own"].phase = builds["own"].phase
      BY <1>n, <2>3
    <2>6. ASSUME NoFaults PROVE \A t \in DOMAIN builds'["own"].read : begun[t] <= builds'["own"].read[t]
      <3>1. b = "own" /\ DOMAIN more = DOMAIN builds["own"].read \cup {s}
        BY <1>o, <2>1, <2>2, <2>6
      <3>2. more[s] = input[s] /\ \A t \in DOMAIN builds["own"].read : t # s => more[t] = builds["own"].read[t]
        BY <2>1, <3>1
      <3>3. begun[s] <= input[s] /\ \A t \in DOMAIN builds["own"].read : begun[t] <= builds["own"].read[t]
        BY <1>c, <2>6 DEF Something
      <3> QED
        BY <2>3, <3>1, <3>2, <3>3
    <2> QED
      BY <1>c, <2>2, <2>4, <2>5, <2>6 DEF CInv, Undisturbed, Something, ChecksOwed, Some
  <1>2. CASE Lock(b)
    <2>1. /\ builds[b].phase = "reading"
          /\ builds' = [builds EXCEPT ![b] =
                IF Locked THEN Ended(b, "failed") ELSE [@ EXCEPT !.phase = "publishing"]]
          /\ UNCHANGED <<scene, input, untold, looked, seen, wake, pc, built, workers, gate,
                         unchecked, heard, history, counters>>
      BY <1>2 DEF Lock, ReadAll
    <2>2. NoFaults' = NoFaults /\ Validates' = Validates /\ Owed' = Owed
      BY <2>1 DEF NoFaults, Validates, Owed
    <2>3. ASSUME NoFaults
          PROVE  /\ builds'["own"].phase = "publishing" /\ pc = "building"
                 /\ builds'["own"].read = builds["own"].read
      <3>1. b = "own" /\ builds["stray"] = NoBuild /\ pc = "building"
        BY <1>o, <2>1, <2>3
      <3>2. ~Locked
        BY <1>n, <2>1, <3>1 DEF Locked
      <3> QED
        BY <1>n, <2>1, <3>1, <3>2 DEF BuildStates
    <2> QED
      BY <1>c, <2>1, <2>2, <2>3 DEF CInv, Undisturbed, Something, ChecksOwed, Some
  <1>3. CASE PublishOutput(b)
    <2>1. /\ builds[b].phase = "publishing"
          /\ newest' = [s \in Sources |-> Max2(newest[s], builds[b].read[s])]
          /\ builds' = [builds EXCEPT ![b] = Ended(b, "ok")]
          /\ UNCHANGED <<scene, input, untold, looked, seen, wake, pc, workers, gate, heard, due,
                         begun, counters>>
      BY <1>3 DEF PublishOutput
    <2>2. NoFaults' = NoFaults /\ Validates' = Validates
      BY <2>1 DEF NoFaults, Validates
    <2>3. ASSUME NoFaults
          PROVE  /\ builds'["own"].phase = "ok" /\ builds'["own"].read = builds["own"].read
                 /\ pc = "building" /\ Some(newest')
      <3>1. b = "own" /\ pc = "building" /\ DOMAIN builds["own"].read = Sources
        BY <1>o, <1>c, <2>1, <2>3 DEF BuildsAreFresh
      <3>2. builds'["own"] = [builds["own"] EXCEPT !.phase = "ok"]
        BY <1>n, <2>1, <3>1 DEF Ended
      <3>3. Some(begun)
        BY <1>c, <2>3, <3>1 DEF Something
      <3>4. PICK s \in Sources : begun[s] > 0
        BY <3>3 DEF Some
      <3>5. /\ begun[s] <= builds["own"].read[s] /\ builds["own"].read[s] \in Nat
            /\ newest[s] \in Nat /\ begun[s] \in Nat
        BY <1>c, <2>3, <3>1, InvNumbers DEF Something
      <3>6. newest'[s] > 0
        BY <2>1, <3>1, <3>4, <3>5 DEF Max2
      <3> QED
        BY <1>n, <3>1, <3>2, <3>6 DEF Some, BuildStates
    <2>4. ChecksOwed'
      BY <2>1, <2>2, <2>3 DEF ChecksOwed, Owed
    <2> QED
      BY <1>c, <2>1, <2>2, <2>3, <2>4 DEF CInv, Undisturbed, Something, Some
  <1>4. CASE BuildFails(b)
    <2>1. ~NoFaults'
      BY <1>c, <1>4, FaultIsNoted DEF BuildFails, FaultKinds
    <2>2. UNCHANGED <<input, untold, seen, begun>>
      BY <1>4 DEF BuildFails
    <2> QED
      BY <1>c, <2>1, <2>2 DEF CInv, Undisturbed, Something, ChecksOwed
  <1> QED
    BY <1>1, <1>2, <1>3, <1>4

\* Workers and gates: who ends leaves the gate to be started, a build to come or
\* another that converts.
LEMMA ProcessChecks ==
    ASSUME IInv, CInv, Worker \/ WorkerWrites \/ WorkerRelinks \/ Gate \/ GateSpawnFails
    PROVE  CInv'
  <1> USE DEF inputs, workers, gate, history, counters, outputs
  <1>c. Undisturbed /\ Something /\ ChecksOwed /\ Limited /\ BuildsAreFresh
    BY DEF CInv, IInv
  <1>w. /\ watched \in [starting : Nat, converting : Nat, busy : Nat]
        /\ watched.starting \in Nat /\ watched.converting \in Nat
        /\ NoFaults => unwatched.starting = 0 /\ unwatched.converting = 0
    BY <1>c DEF IInv, WorkersBounded, Undisturbed, NoWorkers
  \* what a step of a worker or gate leaves alone
  <1>s. ASSUME UNCHANGED <<inputs, pc, outputs, unwatched, history, faults>>,
               NoFaults => (wake' => wake \/ Some(input)),
               NoFaults => (unchecked' \/ watched'.converting > 0 => Some(newest)),
               Validates /\ NoFaults /\ unchecked' => Owed'
        PROVE  CInv'
    <2>1. NoFaults' = NoFaults /\ Validates' = Validates
      BY <1>s DEF NoFaults, Validates
    <2>2. Undisturbed' /\ ChecksOwed'
      BY <1>c, <1>s, <2>1 DEF Undisturbed, ChecksOwed
    <2>3. Something'
      BY <1>c, <1>s, <2>1 DEF Something, Some
    <2> QED
      BY <2>2, <2>3 DEF CInv
  <1>1. CASE WorkerBegins
    <2>1. UNCHANGED <<inputs, wake, pc, outputs, gate, unchecked, heard, history, counters>>
      BY <1>1 DEF WorkerBegins
    <2>2. CASE ~NoFaults
      BY <1>c, <2>1, <2>2 DEF CInv, Undisturbed, Something, ChecksOwed, NoFaults
    <2>3. CASE NoFaults
      <3>1. UNCHANGED unwatched /\ watched.starting > 0
        BY <1>1, <1>w, <2>3 DEF WorkerBegins
      <3>2. CASE Converting \/ newest = Nothing
        <4>1. watched' = [watched EXCEPT !.starting = @ - 1, !.busy = @ + 1]
          BY <1>1, <1>w, <2>3, <3>2 DEF WorkerBegins
        <4>2. watched'.converting = watched.converting
          BY <1>w, <4>1
        <4>3. watched.converting > 0 \/ newest = Nothing
          BY <1>w, <2>3, <3>2 DEF Converting
        <4>4. newest = Nothing => ~Some(newest)
          BY DEF Nothing, Some
        <4>5. unchecked => watched'.converting > 0
          BY <1>c, <2>3, <4>2, <4>3, <4>4 DEF Something
        <4>6. watched'.converting > 0 \/ unchecked => Some(newest)
          BY <1>c, <2>3, <4>2 DEF Something
        <4> QED
          BY <1>s, <2>1, <3>1, <4>5, <4>6 DEF Owed
      <3>3. CASE ~(Converting \/ newest = Nothing)
        <4>1. watched' = [watched EXCEPT !.starting = @ - 1, !.converting = 1]
          BY <1>1, <1>w, <2>3, <3>3 DEF WorkerBegins
        <4>2. watched'.converting = 1
          BY <1>w, <4>1
        <4>3. PICK s \in Sources : newest[s] # 0
          <5>1. newest \in [Sources -> Versions]
            BY <1>c DEF BuildsAreFresh
          <5> QED
            BY <3>3, <5>1 DEF Nothing
        <4>4. Some(newest)
          BY <4>3, InvNumbers DEF Some
        <4> QED
          BY <1>s, <2>1, <3>1, <4>2, <4>4 DEF Owed
      <3> QED
        BY <3>2, <3>3
    <2> QED
      BY <2>2, <2>3
  <1>2. CASE WorkerWrites
    <2>1. UNCHANGED <<inputs, wake, pc, outputs, workers, gate, heard, history, counters>>
          /\ Converting
      BY <1>2 DEF WorkerWrites
    <2>2. NoFaults => watched'.converting > 0 /\ Some(newest)
      BY <1>c, <1>w, <2>1 DEF Converting, Something
    <2> QED
      BY <1>s, <2>1, <2>2 DEF Owed
  <1>3. CASE WorkerRelinks
    <2>1. /\ watched.converting = 1 /\ wake' = TRUE
          /\ watched' = [watched EXCEPT !.converting = 0]
          /\ UNCHANGED <<inputs, pc, outputs, unwatched, gate, unchecked, history, faults>>
      BY <1>3 DEF WorkerRelinks, Notify
    <2>2. NoFaults => Some(newest) /\ Some(input)
      <3> SUFFICES ASSUME NoFaults PROVE Some(newest) /\ Some(input)
        OBVIOUS
      <3>1. Some(newest) /\ \A s \in Sources : newest[s] <= input[s]
        BY <1>c, <2>1 DEF Something, BuildsAreFresh, NoFaults, FaultKinds
      <3> QED
        BY <3>1, InvNumbers DEF Some
    <2> QED
      BY <1>s, <2>1, <2>2 DEF Owed
  <1>4. CASE WorkerDone
    <2>1. /\ watched.converting = 1 /\ StartGate(TRUE)
          /\ watched' = [watched EXCEPT !.converting = 0]
          /\ UNCHANGED <<inputs, wake, pc, outputs, unwatched, gates, unchecked, heard, history,
                         counters>>
      BY <1>4 DEF WorkerDone
    <2>2. watched'.converting = 0
      BY <1>w, <2>1
    <2>3. Validates => spawning' > 0 \/ (gates' > 0 /\ again')
      BY <2>1, StartGateOwes
    <2>4. NoFaults => (unchecked => Some(newest))
      BY <1>c DEF Something
    <2> QED
      BY <1>s, <2>1, <2>2, <2>3, <2>4 DEF Owed
  <1>5. CASE WorkerBusy
    <2>1. /\ watched' = [watched EXCEPT !.busy = @ - 1]
          /\ UNCHANGED <<inputs, wake, pc, outputs, unwatched, gate, unchecked, heard, history,
                         counters>>
      BY <1>5 DEF WorkerBusy
    <2>2. watched'.converting = watched.converting /\ watched'.starting = watched.starting
      BY <1>w, <2>1
    <2> QED
      BY <1>c, <1>s, <2>1, <2>2 DEF Owed, Something, ChecksOwed
  <1>6. CASE UnwatchedEnds
    <2>1. /\ unwatched.converting = 1
          /\ UNCHANGED <<inputs, wake, pc, outputs, watched, gate, unchecked, heard, history,
                         counters>>
      BY <1>6 DEF UnwatchedEnds
    <2>2. ~NoFaults
      BY <1>w, <2>1
    <2> QED
      BY <1>c, <2>1, <2>2 DEF CInv, Undisturbed, Something, ChecksOwed, NoFaults
  <1>7. CASE GateSpawned
    <2>1. /\ unchecked' = FALSE
          /\ UNCHANGED <<inputs, wake, pc, outputs, workers, validating, again, heard, history,
                         counters>>
      BY <1>7 DEF GateSpawned
    <2> QED
      BY <1>c, <1>s, <2>1 DEF Something
  <1>8. CASE GateEnds
    <2>1. /\ spawning' = IF again THEN spawning + 1 ELSE spawning
          /\ UNCHANGED <<inputs, wake, pc, outputs, workers, unchecked, heard, history, counters>>
      BY <1>8 DEF GateEnds
    <2>2. spawning \in Nat /\ again \in BOOLEAN
      BY DEF IInv, GatesCounted
    <2>3. spawning > 0 \/ again => spawning' > 0
      BY <2>1, <2>2
    <2> QED
      BY <1>c, <1>s, <2>1, <2>3 DEF Something, Owed, ChecksOwed
  <1>9. CASE GateSpawnFails
    <2>1. ~NoFaults'
      BY <1>c, <1>9, FaultIsNoted DEF GateSpawnFails, FaultKinds
    <2>2. UNCHANGED <<input, untold, seen, begun>>
      BY <1>9 DEF GateSpawnFails
    <2> QED
      BY <1>c, <2>1, <2>2 DEF CInv, Undisturbed, Something, ChecksOwed
  <1> QED
    BY <1>1, <1>2, <1>3, <1>4, <1>5, <1>6, <1>7, <1>8, <1>9 DEF Worker, Gate

\* Every step keeps what is owed.
LEMMA CheckStep == IInv /\ CInv /\ [Next]_vars => CInv'
  <1> SUFFICES ASSUME IInv, CInv, [Next]_vars PROVE CInv'
    OBVIOUS
  <1>1. CASE UNCHANGED vars
    BY <1>1 DEF vars, inputs, workers, gate, history, counters, outputs, CInv, Undisturbed,
       Something, ChecksOwed, Owed, Some, NoFaults, Validates
  <1>2. CASE Builder
    BY <1>2, BuilderChecks DEF Builder
  <1>3. CASE Restart
    <2>1. Limited /\ Something
      BY DEF IInv, CInv
    <2>2. ~NoFaults'
      BY <1>3, <2>1, FaultIsNoted DEF Restart, FaultKinds
    <2>3. input' = input /\ seen' = seen /\ untold' = {} /\ begun' = Nothing
      BY <1>3 DEF Restart
    <2>4. \A s \in Sources : Nothing[s] <= input[s]
      BY InvNumbers DEF Nothing
    <2> QED
      BY <2>1, <2>2, <2>3, <2>4 DEF CInv, Undisturbed, Something, ChecksOwed
  <1>4. CASE Failure
    BY <1>3, <1>4, BuilderChecks, LoopChecks, ProcessChecks DEF Failure
  <1> QED
    BY <1>1, <1>2, <1>4, InputChecks, LoopChecks, ProcessChecks DEF Next

\* When loop, workers and gates are at rest, a gate has begun since the last
\* change to master or containers, unless something failed.
THEOREM WhatChangedIsChecked == Spec => []CheckedWhenQuiet
  <1>1. IInv /\ CInv => CheckedWhenQuiet
    <2> SUFFICES ASSUME IInv, CInv, Validates, Quiet, NoFaults PROVE ~unchecked
      BY DEF CheckedWhenQuiet, NoFaults
    <2>1. watched.starting = 0 /\ watched.converting = 0
      BY DEF Quiet, Alive, IInv, WorkersBounded
    <2>2. spawning = 0 /\ gates = 0
      BY DEF Quiet, IInv, GatesCounted
    <2> QED
      BY <2>1, <2>2 DEF Quiet, CInv, ChecksOwed, Owed
  <1> QED
    BY <1>1, InitInv, StepInv, CheckInit, CheckStep, PTL DEF Spec
=============================================================================
