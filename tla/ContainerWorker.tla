--------------------------- MODULE ContainerWorker ---------------------------
(***************************************************************************)
(* The container workers of one campaign (metadata/hzdr_containers.py,     *)
(* scripts/hzdr-container-worker.py), the builds that link what they write *)
(* (hzdr_nexus._write_shot_container_links) and the relink requests that   *)
(* tie the two together.                                                   *)
(*                                                                         *)
(* A shot's input is what the published master plans for it, a version     *)
(* number (0: no acquisition), and the raw file behind it, a version       *)
(* number as well, which may be out of reach (away).  A container is what  *)
(* it was written from.  The lock is the one of module WriterLock, taken   *)
(* for what is proved of it there: at most one holder, unless a holder on  *)
(* another host is overtaken by age.                                       *)
(***************************************************************************)
EXTENDS Naturals, FiniteSets

CONSTANTS
    Shots,      \* the shots of the campaign
    Workers,    \* the worker processes that may be alive at once
    Versions,   \* how many versions of a shot's plan there are
    SizesTell,  \* whether containers of different plans differ in size
    Budgets,    \* how often each thing from outside may happen: one is chosen
    MaxTouches, \* a bound of the raw files' versions
    None        \* no container, no record, nobody

Outside == {"land", "touch", "crash", "fail", "overtake"}

ASSUME ConstantsOK ==
    /\ Versions \in Nat \ {0}
    /\ SizesTell \in BOOLEAN
    /\ Budgets \subseteq [Outside -> Nat]
    /\ MaxTouches \in Nat
    /\ None \notin Workers \cup Shots

VARIABLES
    world,     \* what a build that reads now puts into the master, per shot
    raw,       \* the raw file's version, per shot
    away,      \* the shots whose raw file cannot be reached
    master,    \* the published master: its number, what it plans, what it links
    place,     \* shots/: the container in place, per shot
    manifest,  \* shots/.build-manifest.json, per shot
    temps,     \* the workers whose temp container exists
    pending,   \* shots/.convert.pending exists
    lock,      \* shots/.convert.lock: whose record it holds
    pc, job,   \* where each worker is, and what it knows
    build,     \* the builder
    asked,     \* the trigger has been woken for a build
    spawns,    \* container workers the trigger has still to start
    left,      \* what is left of the budget
    faults,    \* history: the kinds of fault that happened
    unserved,  \* history: a request after which no pass has read its inputs
    clean,     \* history: the workers whose pass saw all its inputs as they are
    collected  \* history: the shots whose container was once collected

inputs == <<world, raw, away>>
files == <<place, manifest, temps>>
trigger == <<build, asked, spawns>>
budget == <<left, faults>>
history == <<unserved, clean, collected>>
vars == <<inputs, files, trigger, budget, master, pending, lock, pc, job,
          history>>

(***************************************************************************)
(* Containers, fingerprints and manifest records.                          *)
(***************************************************************************)
Plans == 0..Versions
RawVersions == 0..MaxTouches + 1

\* What a stat of the raw file says; 0 when it is not there.
Seen(s) == IF s \in away THEN 0 ELSE raw[s]

\* The fingerprint: the plan, and whether the file is there.
Fingerprint(plan, stat) == <<plan, stat # 0>>

Container == [plan : Plans, stat : RawVersions, raw : RawVersions]

\* Another campaign's container under the name of one of these shots.
Foreign == [plan |-> 0, stat |-> 0, raw |-> 0]

FingerprintOf(c) == Fingerprint(c.plan, c.stat)

\* What a container's size tells of its fingerprint.
SizeOf(c) == IF SizesTell THEN FingerprintOf(c) ELSE Fingerprint(0, c.stat)

Record == [print : Plans \X BOOLEAN, size : Plans \X BOOLEAN, stat : RawVersions]
RecordOf(c) == [print |-> FingerprintOf(c), size |-> SizeOf(c), stat |-> c.stat]

\* No container and no record is told from any of them.
ASSUME NoneIsNothing == None \notin Container \cup Record

(***************************************************************************)
(* _changed_files: whether the container in place must be written again.   *)
(* The manifest answers if it knows the fingerprint and the size, else the *)
(* container itself; then the raw file's stat is compared.                 *)
(***************************************************************************)
Vouches(record, s, wanted) ==
    /\ record # None
    /\ record.print = wanted
    /\ record.size = SizeOf(place[s])

\* (mutant) only the fingerprint is compared
OtherFingerprint(s, record, plan, stat) ==
    place[s] = None \/ FingerprintOf(place[s]) # Fingerprint(plan, stat)

NeedsWriting(s, record, plan, stat) ==
    LET wanted == Fingerprint(plan, stat)
        vouched == place[s] # None /\ Vouches(record, s, wanted)
        before == IF vouched THEN record.stat ELSE place[s].stat
    IN \/ place[s] = None
       \/ ~ vouched /\ FingerprintOf(place[s]) # wanted
       \/ stat # 0 /\ before \notin {0, stat}

(***************************************************************************)
(* The initial state: nothing converted yet.                               *)
(***************************************************************************)
NoPlan == [s \in Shots |-> 0]
NoRecords == [s \in Shots |-> None]
NoJob == [before |-> 0, plan |-> NoPlan, records |-> NoRecords, todo |-> {},
          shot |-> None, stat |-> 0, made |-> Foreign, dirty |-> FALSE,
          written |-> {}, removed |-> {}]
NoBuild == [at |-> "idle", plan |-> NoPlan, links |-> {}]

Init ==
    /\ world \in [Shots -> {0, 1}] /\ Cardinality({s \in Shots : world[s] = 0}) <= 1
    /\ raw = [s \in Shots |-> 1] /\ away = {}
    /\ master = [gen |-> 0, plan |-> NoPlan, links |-> {}]
    /\ \E S \in SUBSET Shots :
          Cardinality(S) <= 1 /\ place = [s \in Shots |-> IF s \in S THEN Foreign ELSE None]
    /\ manifest = NoRecords /\ temps = {} /\ pending = FALSE /\ lock = None
    /\ pc = [w \in Workers |-> "idle"] /\ job = [w \in Workers |-> NoJob]
    /\ build = NoBuild /\ asked = TRUE /\ spawns = 0
    /\ left \in Budgets
    /\ faults = {} /\ unserved = FALSE /\ clean = {} /\ collected = {}

Spend(what) ==
    /\ left[what] > 0
    /\ left' = [left EXCEPT ![what] = @ - 1]
    /\ faults' = faults \cup ({what} \ {"land", "touch"})

(***************************************************************************)
(* Outside: events land and change what a shot consists of; a raw file     *)
(* changes, or comes and goes.                                             *)
(***************************************************************************)
Land(s, v) ==
    /\ v # world[s]
    /\ Spend("land")
    /\ world' = [world EXCEPT ![s] = v]
    /\ asked' = TRUE
    /\ UNCHANGED <<raw, away, files, build, spawns, master, pending, lock, pc, job,
                   history>>

Touch(s) ==
    /\ Spend("touch")
    /\ \/ raw[s] <= MaxTouches /\ raw' = [raw EXCEPT ![s] = @ + 1] /\ UNCHANGED away
       \/ away' = (away \ {s}) \cup ({s} \ away) /\ UNCHANGED raw
    /\ clean' = {}
    /\ UNCHANGED <<world, files, trigger, master, pending, lock, pc, job, unserved,
                   collected>>

(***************************************************************************)
(* The builder, started by the trigger with a worker before it and one     *)
(* after: it reads its inputs, looks which containers are in place, and    *)
(* replaces the master.                                                    *)
(***************************************************************************)
BuildStarts ==
    /\ asked /\ build.at = "idle"
    /\ build' = [at |-> "look", plan |-> world, links |-> {}]
    /\ asked' = FALSE
    /\ spawns' = spawns + 1
    /\ UNCHANGED <<inputs, files, budget, master, pending, lock, pc, job, history>>

\* A container that can be linked: its shot has an acquisition in this plan and
\* the file in place is of that very shot.
InPlace(s) == place[s] \notin {None, Foreign}
Linkable(plan) == {s \in Shots : plan[s] # 0 /\ InPlace(s)}

BuildLooks ==
    /\ build.at = "look"
    /\ build' = [build EXCEPT !.at = "publish", !.links = Linkable(build.plan)]
    /\ UNCHANGED <<inputs, files, budget, asked, spawns, master, pending, lock, pc, job,
                   history>>

BuildPublishes ==
    /\ build.at = "publish"
    /\ master' = [gen |-> master.gen + 1, plan |-> build.plan, links |-> build.links]
    /\ build' = NoBuild
    /\ spawns' = spawns + 1
    /\ clean' = {}
    /\ UNCHANGED <<inputs, files, budget, asked, pending, lock, pc, job, unserved,
                   collected>>
-----------------------------------------------------------------------------
(***************************************************************************)
(* A worker.                                                               *)
(***************************************************************************)
At(w, p) == pc[w] = p
Go(w, p) == pc' = [pc EXCEPT ![w] = p]

Ends(w) ==
    /\ Go(w, "idle")
    /\ job' = [job EXCEPT ![w] = NoJob]

Lost(w) == lock # w

\* The trigger starts a worker: without a master it has nothing to convert,
\* else it leaves its request, whoever has the lock.
Spawn(w) ==
    /\ At(w, "idle") /\ spawns > 0
    /\ spawns' = spawns - 1
    /\ IF master.gen = 0
         THEN UNCHANGED <<pc, pending, unserved>>
         ELSE Go(w, "outer") /\ pending' = TRUE /\ unserved' = TRUE
    /\ UNCHANGED <<inputs, files, build, asked, budget, master, lock, job, clean,
                   collected>>

\* The outer loop: while the marker is there, take the lock.  It is free, or
\* its holder is on another host and has not refreshed it for long enough.
Acquire(w) ==
    /\ At(w, "outer") /\ pending
    /\ \/ lock = None /\ UNCHANGED budget
       \/ lock # None /\ Spend("overtake")
    /\ lock' = w
    /\ Go(w, "inner")
    /\ UNCHANGED <<inputs, files, trigger, master, pending, job, history>>

\* The marker is gone, or somebody has the lock and will see the marker.
LeaveLoop(w) ==
    /\ At(w, "outer")
    /\ ~ pending \/ lock # None
    /\ Go(w, "judge")
    /\ UNCHANGED <<inputs, files, trigger, budget, master, pending, lock, job, history>>

\* The inner loop: take the marker and note the master's signature.
TakeRequest(w) ==
    /\ At(w, "inner") /\ pending
    /\ pending' = FALSE
    /\ job' = [job EXCEPT ![w].before = master.gen]
    /\ Go(w, "read")
    /\ UNCHANGED <<inputs, files, trigger, budget, master, lock, history>>

\* (mutant) the temps of earlier writers stay
KeepsTemps(w) ==
    /\ At(w, "read")
    /\ job' = [job EXCEPT ![w].plan = master.plan,
                          ![w].todo = {s \in Shots : master.plan[s] # 0},
                          ![w].records = manifest]
    /\ Go(w, "pass")
    /\ unserved' = FALSE
    /\ clean' = clean \cup {w}
    /\ UNCHANGED <<inputs, files, trigger, budget, master, pending, lock, collected>>

\* (mutant) each pass judges only its own containers
ForgetsWritten(w) ==
    /\ At(w, "read")
    /\ temps' = temps \cap {w}
    /\ job' = [job EXCEPT ![w] = [NoJob EXCEPT !.before = job[w].before,
                          !.plan = master.plan, !.records = manifest,
                          !.todo = {s \in Shots : master.plan[s] # 0}]]
    /\ Go(w, "pass")
    /\ unserved' = FALSE
    /\ clean' = clean \cup {w}
    /\ UNCHANGED <<inputs, place, manifest, trigger, budget, master, pending, lock,
                   collected>>

\* Clear the temps of earlier writers, load the manifest, plan from the master.
StartPass(w) ==
    /\ At(w, "read")
    /\ temps' = temps \cap {w}
    /\ job' = [job EXCEPT ![w].plan = master.plan,
                          ![w].todo = {s \in Shots : master.plan[s] # 0},
                          ![w].records = manifest,
                          ![w].dirty = FALSE]
    /\ Go(w, "pass")
    /\ unserved' = FALSE
    /\ clean' = clean \cup {w}
    /\ UNCHANGED <<inputs, place, manifest, trigger, budget, master, pending, lock,
                   collected>>

\* One shot: heartbeat, stat, compare.  A container that is up to date but not
\* in the manifest is adopted.
Look(w, s) ==
    /\ At(w, "pass") /\ s \in job[w].todo
    /\ ~ Lost(w)
    /\ LET record == job[w].records[s]
           plan == job[w].plan[s]
           wanted == Fingerprint(plan, Seen(s))
           known == record # None /\ record.print = wanted
       IN IF NeedsWriting(s, record, plan, Seen(s))
            THEN /\ job' = [job EXCEPT ![w].todo = @ \ {s}, ![w].shot = s, ![w].stat = Seen(s)]
                 /\ Go(w, "write")
            ELSE /\ job' = IF known THEN [job EXCEPT ![w].todo = @ \ {s}]
                     ELSE [job EXCEPT ![w].todo = @ \ {s}, ![w].dirty = TRUE, ![w].records[s] =
                            [print |-> wanted, size |-> SizeOf(place[s]), stat |-> Seen(s)]]
                 /\ UNCHANGED pc
    /\ UNCHANGED <<inputs, files, trigger, budget, master, pending, lock, history>>

\* The raw file is read into a temp container; the heartbeat before the rename.
Write(w) ==
    /\ At(w, "write")
    /\ ~ Lost(w)
    /\ job' = [job EXCEPT ![w].made =
                 [plan |-> job[w].plan[job[w].shot], stat |-> job[w].stat,
                  raw |-> Seen(job[w].shot)]]
    /\ temps' = temps \cup {w}
    /\ Go(w, "rename")
    /\ UNCHANGED <<inputs, place, manifest, trigger, budget, master, pending, lock,
                   history>>

\* The rename into place.  Every few seconds the manifest is flushed here.
Rename(w) ==
    /\ At(w, "rename") /\ w \in temps
    /\ place' = [place EXCEPT ![job[w].shot] = job[w].made]
    /\ job' = [job EXCEPT ![w].records[job[w].shot] = RecordOf(job[w].made),
                          ![w].written = @ \cup {job[w].shot}, ![w].dirty = TRUE,
                          ![w].shot = None, ![w].stat = 0, ![w].made = Foreign]
    /\ temps' = temps \ {w}
    /\ \E next \in {"pass", "beat"} : Go(w, next)
    /\ UNCHANGED <<inputs, manifest, trigger, budget, master, pending, lock, history>>

\* One container fails, its record with it, and the pass goes on.
ContainerFailed(w) ==
    /\ job' = [job EXCEPT ![w].records[job[w].shot] = None, ![w].dirty = TRUE,
                          ![w].shot = None, ![w].stat = 0, ![w].made = Foreign]
    /\ temps' = temps \ {w}
    /\ Go(w, "pass")
    /\ clean' = clean \ {w}
    /\ UNCHANGED <<inputs, place, manifest, trigger, master, pending, lock, unserved,
                   collected>>

\* Somebody removed the temp.
RenameFails(w) ==
    /\ At(w, "rename") /\ w \notin temps
    /\ ContainerFailed(w)
    /\ UNCHANGED budget

\* Whatever else stops one container: a full disk, a refused rename.
WriteFails(w) ==
    /\ pc[w] \in {"write", "rename"}
    /\ Spend("fail")
    /\ ContainerFailed(w)

\* The containers of this campaign the plan has no acquisition for; none are
\* if it has no acquisition at all.
Garbage(w) ==
    {s \in Shots : /\ job[w].plan # NoPlan
                   /\ job[w].plan[s] = 0
                   /\ InPlace(s)}

\* After the last shot they go to the trash, each after a heartbeat.
Collect(w) ==
    /\ At(w, "pass") /\ job[w].todo = {}
    /\ ~ Lost(w)
    /\ \E s \in Garbage(w) : job' = [job EXCEPT ![w].shot = s]
    /\ Go(w, "move")
    /\ UNCHANGED <<inputs, files, trigger, budget, master, pending, lock, history>>

Move(w) ==
    /\ At(w, "move")
    /\ place' = [place EXCEPT ![job[w].shot] = None]
    /\ job' = [job EXCEPT ![w].records[job[w].shot] = None, ![w].dirty = TRUE,
                          ![w].removed = @ \cup {job[w].shot}, ![w].shot = None]
    /\ Go(w, "pass")
    /\ collected' = collected \cup {job[w].shot}
    /\ UNCHANGED <<inputs, manifest, temps, trigger, budget, master, pending, lock,
                   unserved, clean>>

\* The heartbeat before a flush: now and then after a container, and at the end.
Done(w) == At(w, "pass") /\ job[w].todo = {} /\ Garbage(w) = {}

FlushDue(w) ==
    /\ At(w, "beat") \/ (Done(w) /\ job[w].dirty)
    /\ ~ Lost(w)
    /\ Go(w, "flush")
    /\ UNCHANGED <<inputs, files, trigger, budget, master, pending, lock, job, history>>

Flush(w) ==
    /\ At(w, "flush")
    /\ manifest' = job[w].records
    /\ job' = [job EXCEPT ![w].dirty = FALSE]
    /\ Go(w, "pass")
    /\ UNCHANGED <<inputs, place, temps, trigger, budget, master, pending, lock, history>>

\* A heartbeat finds another record in the lock: LockLostError ends the run,
\* which looks at no links.
Heartbeats(w) ==
    \/ pc[w] \in {"write", "beat"}
    \/ At(w, "pass") /\ (job[w].todo # {} \/ Garbage(w) # {} \/ job[w].dirty)

Overtaken(w) ==
    /\ Heartbeats(w) /\ Lost(w)
    /\ temps' = temps \ {w}
    /\ clean' = clean \ {w}
    /\ Ends(w)
    /\ UNCHANGED <<inputs, place, manifest, trigger, budget, master, pending, lock,
                   unserved, collected>>

\* The pass is over: another one if the master changed meanwhile.
PassEnds(w) ==
    /\ Done(w) /\ ~ job[w].dirty
    /\ pending' = (pending \/ master.gen # job[w].before)
    /\ job' = [job EXCEPT ![w].plan = NoPlan, ![w].before = 0, ![w].records = NoRecords]
    /\ clean' = clean \ {w}
    /\ Go(w, "inner")
    /\ UNCHANGED <<inputs, files, trigger, budget, master, lock, unserved, collected>>

\* No marker any more ...
NoRequest(w) ==
    /\ At(w, "inner") /\ ~ pending
    /\ Go(w, "release")
    /\ UNCHANGED <<inputs, files, trigger, budget, master, pending, lock, job, history>>

\* (mutant) no second look at the marker
ReleaseAndLeave(w) ==
    /\ At(w, "release")
    /\ lock' = IF Lost(w) THEN lock ELSE None
    /\ Go(w, "judge")
    /\ UNCHANGED <<inputs, files, trigger, budget, master, pending, job, history>>

\* ... release, if the lock still is this worker's, and look once more.
Release(w) ==
    /\ At(w, "release")
    /\ lock' = IF Lost(w) THEN lock ELSE None
    /\ Go(w, "outer")
    /\ UNCHANGED <<inputs, files, trigger, budget, master, pending, job, history>>

\* relink_needed, judged at the end against the master as published now.
Unlinked(w) ==
    (job[w].written \ master.links) \cup (job[w].removed \cap master.links)

JudgeLinks(w) ==
    /\ At(w, "judge")
    /\ asked' = (asked \/ Unlinked(w) # {})
    /\ Ends(w)
    /\ UNCHANGED <<inputs, files, build, spawns, budget, master, pending, lock, history>>

\* A pass that raises (the master cannot be read, the manifest not be written)
\* and a worker that dies: the lock goes (released, or reclaimed from a dead
\* process), the links are not judged, a request already taken is not put back.
RunFails(w) ==
    /\ \/ Spend("fail") /\ pc[w] \in {"read", "flush"}
       \/ Spend("crash") /\ ~ At(w, "idle")
    /\ lock' = IF Lost(w) THEN lock ELSE None
    /\ temps' = temps \ {w}
    /\ clean' = clean \ {w}
    /\ Ends(w)
    /\ UNCHANGED <<inputs, place, manifest, trigger, master, pending, unserved,
                   collected>>

Pass(w) ==
    \/ TakeRequest(w) \/ StartPass(w) \/ (\E s \in Shots : Look(w, s))
    \/ Write(w) \/ Rename(w) \/ RenameFails(w)
    \/ Collect(w) \/ Move(w) \/ FlushDue(w) \/ Flush(w) \/ PassEnds(w)

Run(w) == Acquire(w) \/ LeaveLoop(w) \/ Overtaken(w) \/ NoRequest(w) \/ Release(w) \/ JudgeLinks(w)

Next ==
    \/ \E s \in Shots, v \in Plans : Land(s, v)
    \/ \E s \in Shots : Touch(s)
    \/ BuildStarts \/ BuildLooks \/ BuildPublishes
    \/ \E w \in Workers :
         Spawn(w) \/ Run(w) \/ Pass(w) \/ WriteFails(w) \/ RunFails(w)

Spec == Init /\ [][Next]_vars

-----------------------------------------------------------------------------

Smooth == faults = {}

\* run_conversion: "a request is never lost between the two" - the holder's
\* last look at the marker and its release.  Whoever finds the lock taken may
\* leave: when all have, a pass has begun after every request.
RequestsServed ==
    Smooth /\ (\A w \in Workers : At(w, "idle")) => ~ pending /\ ~ unserved

\* convert_campaign brings shots/ up to date with its published master: a pass
\* that failed at nothing and whose inputs did not change leaves, for every
\* planned shot, a container of that plan and of the raw file as it is, and no
\* container of this campaign beside them.  Containers that earlier workers
\* put there and died before recording are included.  Not included: a file
\* that was there for the stat and gone when it was read, or the other way round;
\* in the first case its container has no data and counts as up to date even
\* when the file is back, against member_stats (hzdr_containers.py:645), "a file
\* that comes back is converted".
UpToDate(s) ==
    IF master.plan[s] # 0
    THEN InPlace(s) /\ place[s].plan = master.plan[s] /\ place[s].raw = Seen(s)
    ELSE ~ InPlace(s)

CameOrWentWhileRead(s) ==
    InPlace(s) /\ ~ (place[s].stat = 0 <=> place[s].raw = 0)

Passed(w) == w \in clean /\ Done(w) /\ ~ job[w].dirty

PassBringsUpToDate ==
    "overtake" \notin faults /\ master.plan # NoPlan =>
        \A w \in Workers : Passed(w) =>
            \A s \in Shots : UpToDate(s) \/ CameOrWentWhileRead(s)

\* An overtaken worker may pass its last heartbeat and then stall; what it
\* renames into place afterwards is never put under a successor that looks.
InPass == {"pass", "write", "rename", "beat", "flush", "move"}
LateRenameIsEarly ==
    [][\A w \in Workers :
          Rename(w) /\ Lost(w) /\ lock # None => pc[lock] \notin InPass]_vars

\* When the trigger owes nothing and every worker is done, and nothing failed
\* on the way: every planned container is in place with its plan, no other one
\* is, no link dangles, and every container is linked that was never collected.
Resting == /\ ~ asked /\ spawns = 0 /\ build.at = "idle"
           /\ \A w \in Workers : At(w, "idle")
RestIsConsistent ==
    Smooth /\ Resting /\ master.plan # NoPlan =>
        \A s \in Shots :
           /\ InPlace(s) <=> master.plan[s] # 0
           /\ InPlace(s) => place[s].plan = master.plan[s]
           /\ s \in master.links => InPlace(s)
           /\ InPlace(s) /\ s \notin collected => s \in master.links

\* container-writer.md:319: containers finished after a build looked "must still
\* be linked".
FinishedAreLinked ==
    Smooth /\ Resting => Linkable(master.plan) \subseteq master.links

=============================================================================
