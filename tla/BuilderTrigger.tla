--------------------------- MODULE BuilderTrigger ---------------------------
(***************************************************************************)
(* BuilderTrigger: the API's background task that turns notifications      *)
(* about new inputs into debounced runs of the builder subprocess, starts  *)
(* a container worker before and after each build, and starts the          *)
(* validation gate when a worker ends.  Builder, workers and gate are      *)
(* processes of their own: here they show what the trigger can observe of  *)
(* them (what a build read and published, who converts, how they exit).    *)
(* The coroutines interleave at their awaits.                              *)
(***************************************************************************)
EXTENDS Integers, FiniteSets

CONSTANTS
    Scenes,             \* settings, and what may go wrong: one of them is chosen
    MaxLandings         \* bound: how often an input changes, in all

Sources == {"spool", "labfrog", "review"}
Builds == {"own", "stray"}       \* the running trigger's, and a former one's
FaultKinds == {"launch", "build", "worker", "gate", "restart"}

ASSUME ConstantsOK ==
    /\ MaxLandings \in Nat
    /\ Scenes \subseteq [containers : BOOLEAN, validates : BOOLEAN,
                        relinks : Nat, workers : Nat \ {0, 1},
                        limit : [FaultKinds -> Nat]]

VARIABLES
    scene,      \* the deployment's settings, and the limits of faults and workers
    input,      \* version of each source's input on disk
    untold,     \* sources that changed and whose writer has yet to notify
    looked,     \* the export watcher took its first look
    seen,       \* version of the LabFrog export the watcher saw last
    wake,       \* self._wake
    pc,         \* where run() awaits: "waiting" | "debounce" | "building"
    builds,     \* builder processes: [phase, read]
    built,      \* versions the published catalog was built from
    watched,    \* workers this trigger reaps: [starting, converting, busy]
    unwatched,  \* workers a former trigger left running
    validating, \* self._validating
    again,      \* self._validate_again
    spawning,   \* gates being started
    gates,      \* gates running
    unchecked,  \* master or containers changed since a gate began
    heard,      \* notified since the last build began
    due,        \* versions the running trigger was told of or its watcher can see
    begun,      \* versions on disk when the last build began
    newest,     \* the newest versions a successful build read
    relinks, faults

inputs == <<scene, input, untold, looked, seen>>
outputs == <<builds, built>>
workers == <<watched, unwatched>>
gate == <<validating, again, spawning, gates>>
history == <<due, begun, newest>>
counters == <<relinks, faults>>
vars == <<inputs, wake, pc, outputs, workers, gate, unchecked, heard, history,
          counters>>

ContainersEnabled == scene.containers   \* HZDRBuilderSettings.containers_enabled
Validates == scene.validates            \* ... validation_python is set
MaxRelinks == scene.relinks             \* bound: how often a worker asks for one
MaxWorkers == scene.workers             \* bound: workers alive at a time
-----------------------------------------------------------------------------
NoBuild == [phase |-> "none", read |-> [s \in {} |-> 0]]
NoWorkers == [starting |-> 0, converting |-> 0, busy |-> 0]
Nothing == [s \in Sources |-> 0]

Alive(w) == w.starting + w.converting + w.busy
Running(b) == builds[b].phase \in {"reading", "publishing"}
Max2(m, n) == IF m >= n THEN m ELSE n

Init ==
    /\ scene \in Scenes
    /\ input = Nothing /\ untold = {} /\ looked = FALSE /\ seen = 0
    /\ wake = FALSE /\ pc = "waiting"
    /\ builds = [b \in Builds |-> NoBuild] /\ built = Nothing
    /\ watched = NoWorkers /\ unwatched = NoWorkers
    /\ validating = FALSE /\ again = FALSE /\ spawning = 0 /\ gates = 0
    /\ unchecked = FALSE /\ heard = FALSE
    /\ due = Nothing /\ begun = Nothing /\ newest = Nothing
    /\ relinks = 0 /\ faults = [k \in FaultKinds |-> 0]

Fault(k) ==
    /\ faults[k] < scene.limit[k]
    /\ faults' = [faults EXCEPT ![k] = @ + 1]

\* notify: the event is set, however often.
Notify == wake' = TRUE /\ heard' = TRUE
-----------------------------------------------------------------------------
\* An event is spooled, an export is replaced, or a ruling is recorded.
Land(s) ==
    /\ input["spool"] + input["labfrog"] + input["review"] < MaxLandings
    /\ input' = [input EXCEPT ![s] = @ + 1]
    /\ untold' = IF s = "labfrog" THEN untold ELSE untold \cup {s}
    /\ due' = IF s = "labfrog" /\ looked THEN [due EXCEPT ![s] = input'[s]] ELSE due
    /\ UNCHANGED <<scene, looked, seen, wake, pc, outputs, workers, gate, unchecked,
                   heard, begun, newest, counters>>

\* The consumer's hook runs, or the route asks with request_rebuild: the next
\* build reads everything on disk by now.
Tell(s) ==
    /\ s \in untold
    /\ untold' = untold \ {s}
    /\ due' = [due EXCEPT ![s] = input[s]]
    /\ Notify
    /\ UNCHANGED <<scene, input, looked, seen, pc, outputs, workers, gate, unchecked,
                   begun, newest, counters>>

\* The acknowledgement of the batch raised: the retry holds only duplicates, and
\* the consumer does not call its hook.
HookSkipped ==
    /\ "spool" \in untold
    /\ untold' = untold \ {"spool"}
    /\ UNCHANGED <<scene, input, looked, seen, wake, pc, outputs, workers, gate,
                   unchecked, heard, history, counters>>

\* The watcher's first look only records the state.
FirstLook ==
    /\ ~looked
    /\ looked' = TRUE /\ seen' = input["labfrog"]
    /\ UNCHANGED <<scene, input, untold, wake, pc, outputs, workers, gate, unchecked,
                   heard, history, counters>>

LookAgain ==
    /\ looked /\ seen # input["labfrog"]
    /\ seen' = input["labfrog"]
    /\ Notify
    /\ UNCHANGED <<scene, input, untold, looked, pc, outputs, workers, gate, unchecked,
                   history, counters>>
-----------------------------------------------------------------------------

\* (mutant) a request while one runs is dropped
StartGateOrDrop(wanted) ==
    LET starts == wanted /\ Validates /\ ~validating IN
    /\ spawning' = IF starts THEN spawning + 1 ELSE spawning
    /\ validating' = (validating \/ starts)
    /\ UNCHANGED again

\* _start_validation: while one runs a request is remembered, once.
StartGate(wanted) ==
    LET starts == wanted /\ Validates /\ ~validating IN
    /\ spawning' = IF starts THEN spawning + 1 ELSE spawning
    /\ validating' = (validating \/ starts)
    /\ again' = (again \/ (wanted /\ Validates /\ validating))

\* _spawn_worker: it is started and not awaited.
WorkerStarted ==
    \/ ~ContainersEnabled /\ UNCHANGED watched
    \/ /\ ContainersEnabled
       /\ Alive(watched) + Alive(unwatched) < MaxWorkers
       /\ watched' = [watched EXCEPT !.starting = @ + 1]

\* _start_container_worker: where it cannot be started, that is only logged.
StartWorker ==
    \/ WorkerStarted /\ UNCHANGED faults
    \/ ContainersEnabled /\ Fault("worker") /\ UNCHANGED watched

Wake ==
    /\ pc = "waiting" /\ wake
    /\ wake' = FALSE
    /\ pc' = "debounce"
    /\ UNCHANGED <<inputs, outputs, workers, gate, unchecked, heard, history, counters>>

\* (mutant) the wake flag is not cleared after the debounce window
DebouncedKeepingWake ==
    /\ pc = "debounce"
    /\ heard' = FALSE
    /\ StartWorker
    /\ pc' = "building"
    /\ builds' = [builds EXCEPT !["own"] = [NoBuild EXCEPT !.phase = "reading"]]
    /\ begun' = input
    /\ UNCHANGED <<inputs, wake, built, unwatched, gate, unchecked, due, newest, relinks>>

\* (mutant) the builder is started like a worker and not awaited
DebouncedUnawaited ==
    LET b == IF builds["stray"] = NoBuild THEN "stray" ELSE "own" IN
    /\ pc = "debounce"
    /\ wake' = FALSE /\ heard' = FALSE
    /\ StartWorker
    /\ pc' = IF b = "own" THEN "building" ELSE "waiting"
    /\ builds' = [builds EXCEPT ![b] = [NoBuild EXCEPT !.phase = "reading"]]
    /\ begun' = input
    /\ UNCHANGED <<inputs, built, unwatched, gate, unchecked, due, newest, relinks>>

\* The debounce window ends: the flag is cleared before the worker and the
\* builder start, so what is notified from here on costs one more build.
Debounced ==
    /\ pc = "debounce"
    /\ wake' = FALSE /\ heard' = FALSE
    /\ StartWorker
    /\ pc' = "building"
    /\ builds' = [builds EXCEPT !["own"] = [NoBuild EXCEPT !.phase = "reading"]]
    /\ begun' = input
    /\ UNCHANGED <<inputs, built, unwatched, gate, unchecked, due, newest, relinks>>

\* The builder cannot be launched, whether its worker could or not: logged,
\* nothing is retried.
LaunchFails ==
    /\ pc = "debounce"
    /\ \/ WorkerStarted /\ Fault("launch")
       \/ /\ ContainersEnabled /\ UNCHANGED watched
          /\ \A k \in {"launch", "worker"} : faults[k] < scene.limit[k]
          /\ faults' = [faults EXCEPT !["launch"] = @ + 1, !["worker"] = @ + 1]
    /\ wake' = FALSE /\ heard' = FALSE
    /\ pc' = "waiting"
    /\ begun' = input
    /\ UNCHANGED <<inputs, outputs, unwatched, gate, unchecked, due, newest, relinks>>
-----------------------------------------------------------------------------
\* The builder process.  It reads every input once, before it locks.  The
\* single- and the multi-campaign build read them in different orders.
Read(b, s) ==
    /\ builds[b].phase = "reading" /\ s \notin DOMAIN builds[b].read
    /\ builds' = [builds EXCEPT ![b].read =
          [t \in DOMAIN builds[b].read \cup {s} |->
              IF t = s THEN input[s] ELSE builds[b].read[t]]]
    /\ UNCHANGED <<inputs, wake, pc, built, workers, gate, unchecked, heard,
                   history, counters>>

ReadAll(b) == builds[b].phase = "reading" /\ DOMAIN builds[b].read = Sources
Locked == \E b \in Builds : builds[b].phase = "publishing"

\* A process that nobody awaits ends without a trace.
Ended(b, phase) == IF b = "own" THEN [builds[b] EXCEPT !.phase = phase] ELSE NoBuild

\* single_writer_lock around the publish step: taken, or the build fails.
Lock(b) ==
    /\ ReadAll(b)
    /\ builds' = [builds EXCEPT ![b] =
          IF Locked THEN Ended(b, "failed") ELSE [@ EXCEPT !.phase = "publishing"]]
    /\ UNCHANGED <<inputs, wake, pc, built, workers, gate, unchecked, heard,
                   history, counters>>

PublishOutput(b) ==
    /\ builds[b].phase = "publishing"
    /\ built' = builds[b].read
    /\ newest' = [s \in Sources |-> Max2(newest[s], builds[b].read[s])]
    /\ unchecked' = TRUE
    /\ builds' = [builds EXCEPT ![b] = Ended(b, "ok")]
    /\ UNCHANGED <<inputs, wake, pc, workers, gate, heard, due, begun, counters>>

\* With several campaigns it may have published some of them by then.
BuildFails(b) ==
    /\ Running(b) /\ Fault("build")
    /\ builds' = [builds EXCEPT ![b] = Ended(b, "failed")]
    /\ unchecked' \in {unchecked, unchecked \/ builds[b].phase = "publishing"}
    /\ UNCHANGED <<inputs, wake, pc, built, workers, gate, heard, history, relinks>>

\* (mutant) the loop clears the flag after the build instead of before it
BuildSucceededClearing ==
    /\ pc = "building" /\ builds["own"].phase = "ok"
    /\ StartWorker
    /\ StartGate(~ContainersEnabled)
    /\ pc' = "waiting" /\ wake' = FALSE
    /\ builds' = [builds EXCEPT !["own"] = NoBuild]
    /\ UNCHANGED <<inputs, built, unwatched, gates, unchecked, heard, history, relinks>>

\* The builder exited 0: the worker that converts what it published, which
\* validates when done; without containers, the gate itself.
BuildSucceeded ==
    /\ pc = "building" /\ builds["own"].phase = "ok"
    /\ StartWorker
    /\ StartGate(~ContainersEnabled)
    /\ pc' = "waiting"
    /\ builds' = [builds EXCEPT !["own"] = NoBuild]
    /\ UNCHANGED <<inputs, wake, built, unwatched, gates, unchecked, heard, history,
                   relinks>>

\* (mutant) a failed build clears what was notified while it ran
BuildFailedClearing ==
    /\ pc = "building" /\ builds["own"].phase = "failed"
    /\ pc' = "waiting" /\ wake' = FALSE
    /\ builds' = [builds EXCEPT !["own"] = NoBuild]
    /\ UNCHANGED <<inputs, built, workers, gate, unchecked, heard, history, counters>>

\* The builder exited otherwise: its output is logged, nothing is retried.
BuildFailed ==
    /\ pc = "building" /\ builds["own"].phase = "failed"
    /\ pc' = "waiting"
    /\ builds' = [builds EXCEPT !["own"] = NoBuild]
    /\ UNCHANGED <<inputs, wake, built, workers, gate, unchecked, heard, history,
                   counters>>
-----------------------------------------------------------------------------
\* The worker processes, as far as the trigger sees them.  One converts; what
\* it does at a request that arrives meanwhile is part of its writing.
Converting == watched.converting + unwatched.converting > 0

\* A worker that finds no published master also exits with BUSY_EXIT.
WorkerBegins ==
    /\ IF Converting \/ newest = Nothing
         THEN \/ /\ watched.starting > 0
                 /\ watched' = [watched EXCEPT !.starting = @ - 1, !.busy = @ + 1]
                 /\ UNCHANGED unwatched
              \/ /\ unwatched.starting > 0
                 /\ unwatched' = [unwatched EXCEPT !.starting = @ - 1]
                 /\ UNCHANGED watched
         ELSE \/ /\ watched.starting > 0
                 /\ watched' = [watched EXCEPT !.starting = @ - 1, !.converting = 1]
                 /\ UNCHANGED unwatched
              \/ /\ unwatched.starting > 0
                 /\ unwatched' = [unwatched EXCEPT !.starting = @ - 1, !.converting = 1]
                 /\ UNCHANGED watched
    /\ UNCHANGED <<inputs, wake, pc, outputs, gate, unchecked, heard, history, counters>>

WorkerWrites ==
    /\ Converting /\ ~unchecked
    /\ unchecked' = TRUE
    /\ UNCHANGED <<inputs, wake, pc, outputs, workers, gate, heard, history, counters>>

\* (mutant) a worker that asks for a relink is not rebuilt for
WorkerRelinksUnheard ==
    /\ watched.converting = 1 /\ relinks < MaxRelinks
    /\ relinks' = relinks + 1
    /\ watched' = [watched EXCEPT !.converting = 0]
    /\ UNCHANGED <<inputs, wake, heard, pc, outputs, unwatched, gate, unchecked, history,
                   faults>>

\* RELINK_EXIT: a build is coming, and its worker is followed by the gate.
WorkerRelinks ==
    /\ watched.converting = 1 /\ relinks < MaxRelinks
    /\ relinks' = relinks + 1
    /\ watched' = [watched EXCEPT !.converting = 0]
    /\ Notify
    /\ UNCHANGED <<inputs, pc, outputs, unwatched, gate, unchecked, history, faults>>

\* It converted, failed or was killed: the gate checks what it left.
WorkerDone ==
    /\ watched.converting = 1
    /\ watched' = [watched EXCEPT !.converting = 0]
    /\ StartGate(TRUE)
    /\ UNCHANGED <<inputs, wake, pc, outputs, unwatched, gates, unchecked, heard, history,
                   counters>>

\* BUSY_EXIT: the worker that converts is followed by the gate.
WorkerBusy ==
    /\ watched.busy > 0
    /\ watched' = [watched EXCEPT !.busy = @ - 1]
    /\ UNCHANGED <<inputs, wake, pc, outputs, unwatched, gate, unchecked, heard, history,
                   counters>>

UnwatchedEnds ==
    /\ unwatched.converting = 1
    /\ unwatched' = [unwatched EXCEPT !.converting = 0]
    /\ UNCHANGED <<inputs, wake, pc, outputs, watched, gate, unchecked, heard, history,
                   counters>>
-----------------------------------------------------------------------------
\* The gate reads what is on disk from here on.
GateSpawned ==
    /\ spawning > 0
    /\ spawning' = spawning - 1 /\ gates' = gates + 1
    /\ unchecked' = FALSE
    /\ UNCHANGED <<inputs, wake, pc, outputs, workers, validating, again, heard, history,
                   counters>>

\* Nothing is left running: what was remembered waits for the next gate.
GateSpawnFails ==
    /\ spawning > 0 /\ Fault("gate")
    /\ spawning' = spawning - 1
    /\ validating' = FALSE
    /\ UNCHANGED <<inputs, wake, pc, outputs, workers, again, gates, unchecked, heard,
                   history, relinks>>

\* (mutant) the remembered request is served and not forgotten
GateEndsStillAsked ==
    /\ gates > 0
    /\ gates' = gates - 1
    /\ again' = again
    /\ validating' = again
    /\ spawning' = IF again THEN spawning + 1 ELSE spawning
    /\ UNCHANGED <<inputs, wake, pc, outputs, workers, unchecked, heard, history, counters>>

\* _reap_validation: the remembered request starts the next one.
GateEnds ==
    /\ gates > 0
    /\ gates' = gates - 1
    /\ again' = FALSE
    /\ validating' = again
    /\ spawning' = IF again THEN spawning + 1 ELSE spawning
    /\ UNCHANGED <<inputs, wake, pc, outputs, workers, unchecked, heard, history, counters>>
-----------------------------------------------------------------------------
\* The API process ends, by a shutdown that cancels its tasks or by a crash,
\* and starts again.  Workers run on in their sessions; nothing stops the
\* builder, though the runtime may on its way out.  What the consumers and
\* routes had yet to announce is forgotten; gates left running are not
\* followed further.
Restart ==
    /\ Fault("restart")
    /\ untold' = {} /\ looked' = FALSE
    /\ wake' = FALSE /\ heard' = FALSE /\ pc' = "waiting"
    /\ \/ builds' = [builds EXCEPT !["own"] = NoBuild]
       \/ /\ Running("own") /\ builds["stray"] = NoBuild
          /\ builds' = [b \in Builds |-> IF b = "own" THEN NoBuild ELSE builds["own"]]
    /\ watched' = NoWorkers
    /\ unwatched' = [starting |-> watched.starting + unwatched.starting,
                     converting |-> watched.converting + unwatched.converting,
                     busy |-> 0]
    /\ validating' = FALSE /\ again' = FALSE /\ spawning' = 0 /\ gates' = 0
    /\ due' = Nothing /\ begun' = Nothing
    /\ UNCHANGED <<scene, input, seen, built, unchecked, newest, relinks>>

Trigger == Wake \/ Debounced \/ BuildSucceeded \/ BuildFailed
Builder == \E b \in Builds : Lock(b) \/ PublishOutput(b) \/ \E s \in Sources : Read(b, s)
Worker == WorkerBegins \/ WorkerDone \/ WorkerBusy \/ UnwatchedEnds
Gate == GateSpawned \/ GateEnds
Failure == LaunchFails \/ (\E b \in Builds : BuildFails(b)) \/ GateSpawnFails \/ Restart

Next ==
    \/ \E s \in Sources : Land(s) \/ Tell(s)
    \/ HookSkipped \/ FirstLook \/ LookAgain
    \/ Trigger \/ Builder \/ Worker \/ WorkerWrites \/ WorkerRelinks \/ Gate \/ Failure

Spec == Init /\ [][Next]_vars

\* The event loop schedules its coroutines, and the processes it starts end.
\* Inputs need not change, nothing has to fail, and nobody owes a notification.
FairSpec ==
    /\ Spec
    /\ WF_vars(FirstLook) /\ WF_vars(LookAgain)
    /\ WF_vars(Trigger) /\ WF_vars(Builder) /\ WF_vars(Gate)
    /\ WF_vars(WorkerBegins) /\ WF_vars(WorkerBusy)
    /\ WF_vars(WorkerDone \/ WorkerRelinks) /\ WF_vars(UnwatchedEnds)
-----------------------------------------------------------------------------
Versions == 0..MaxLandings
Processes == [starting : 0..MaxWorkers, converting : 0..1, busy : 0..MaxWorkers]

\* Every variable keeps its type.
TypeOK ==
    /\ scene \in Scenes
    /\ {input, due, begun, newest, built} \subseteq [Sources -> Versions]
    /\ untold \subseteq Sources /\ seen \in Versions
    /\ {looked, wake, validating, again, unchecked, heard} \subseteq BOOLEAN
    /\ pc \in {"waiting", "debounce", "building"}
    /\ \A b \in Builds :
          /\ builds[b].phase \in {"none", "reading", "publishing", "ok", "failed"}
          /\ \E S \in SUBSET Sources : builds[b].read \in [S -> Versions]
    /\ {watched, unwatched} \subseteq Processes
    /\ spawning \in Nat /\ gates \in Nat
    /\ relinks \in 0..MaxRelinks
    /\ faults \in [FaultKinds -> Nat] /\ \A k \in FaultKinds : faults[k] <= scene.limit[k]

\* builder_trigger.py:543-545: a burst costs one build, and what is notified
\* while a build runs queues exactly one more: no build starts that nothing
\* was notified for since the last one.
NoNeedlessBuild == [][pc = "debounce" /\ pc' # "debounce" => heard]_vars

\* An input the trigger was told of, or an export that changes after its
\* watcher's first look, is followed by an attempt to build it, whatever
\* launches, builds and workers fail, unless the process is restarted first.
AttemptFollows == \A s \in Sources : begun[s] < due[s] ~> begun[s] >= due[s]

\* Where builds neither fail nor are interrupted, such an input reaches the
\* catalog, also one that changes while a build runs.
BuildsSucceed == \A k \in {"launch", "build", "restart"} : scene.limit[k] = 0
EventuallyBuilt ==
    \A s \in Sources : BuildsSucceed /\ built[s] < due[s] ~> built[s] >= due[s]

\* container-writer.md:412: "One run at a time".
OneGateAtATime == spawning + gates <= 1

Quiet ==
    /\ pc = "waiting" /\ ~wake
    /\ Alive(watched) = 0
    /\ spawning + gates = 0

\* Whatever published or converted last, and whichever workers found others
\* busy or asked for a relink, when everything has ended the gate has begun
\* after the last change to master and containers, unless it, a worker or the
\* builder failed or the API was restarted.
CheckedWhenQuiet ==
    Validates /\ Quiet /\ (\A k \in FaultKinds : faults[k] = 0) => ~unchecked

\* Inputs changing finitely often, the trigger comes to rest.
ComesToRest == <>[]Quiet

\* builder_trigger.py:11-13: the builder reads everything and republishes, so
\* "coalescing and duplicate triggers converge to the same catalog": with no
\* build running the catalog is the newest that was built.  It reads before it
\* locks, so that this rests on one trigger awaiting each of its builds: after
\* a restart the build of the former process can publish last.
Converged ==
    faults["restart"] = 0 /\ (\A b \in Builds : ~Running(b)) => built = newest
=============================================================================
