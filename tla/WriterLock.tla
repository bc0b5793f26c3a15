----------------------------- MODULE WriterLock -----------------------------
(***************************************************************************)
(* single_writer_lock: the lock file that serialises the builders of one   *)
(* campaign, and in shots/ its container workers.  Processes on one or     *)
(* several hosts create it, judge the one they find, move a stale one      *)
(* aside, check what they moved, write while they hold it, and release it, *)
(* under a kernel lock on a guard file that excludes the processes of one  *)
(* host.  Any of them may die, and any may stall for any time.             *)
(***************************************************************************)
EXTENDS Naturals, FiniteSets

CONSTANTS
    Procs,          \* processes that use the lock, one acquisition after another
    Hosts,
    Workers,        \* those that pass stale_after and refresh; others are builders
    Nothing,        \* no file at the path, nobody in the guard
    Empty,          \* the text of a lock file its creator has not written yet
    Rounds,         \* rounds of _acquire's loop (3 in the code)
    MaxAttempts     \* bound: acquisitions per process

\* An acquisition, its unique record, and the file it created.
Acquisitions == Procs \X (1..MaxAttempts)

ASSUME ConstantsOK ==
    /\ Workers \subseteq Procs
    /\ Nothing \notin Procs \cup Acquisitions
    /\ Empty \notin Acquisitions
    \* one round to find a dead lock, and one to create in its place
    /\ Rounds \in Nat /\ Rounds >= 2
    /\ MaxAttempts \in Nat

VARIABLES
    host,       \* where each process runs
    guarded,    \* the file system has kernel locks (per host at least)
    file,       \* the acquisition whose file is at the lock's path
    written,    \* files their creator has written its record to
    old,        \* files whose mtime is older than what a judge waits for
    guard,      \* per host, the process in a guarded step
    pc,         \* where each process is
    attempt,    \* number of its present acquisition
    tries,      \* rounds of _acquire's loop
    judged,     \* the text judged stale
    moved       \* the file moved to this process's tombstone

deployment == <<host, guarded>>
files == <<file, written, old>>
attempts == <<attempt, tries, judged, moved>>
lockVars == <<deployment, files, guard, pc, attempts>>
-----------------------------------------------------------------------------
Mine(p) == <<p, attempt[p]>>
Text(a) == IF a \in written THEN a ELSE Empty
IsMine(p) == file # Nothing /\ Text(file) = Mine(p)

\* The process of an acquisition runs.  A record names its process by PID and
\* start time, so a PID used again is not taken for it.
Alive(a) == attempt[a[1]] = a[2] /\ pc[a[1]] \notin {"idle", "dead"}

LockInit ==
    /\ host \in [Procs -> Hosts] /\ guarded \in BOOLEAN
    /\ file = Nothing /\ written = {} /\ old = {}
    /\ guard = [h \in Hosts |-> Nothing]
    /\ pc = [p \in Procs |-> "idle"]
    /\ attempt = [p \in Procs |-> 0] /\ tries = [p \in Procs |-> 0]
    /\ judged = [p \in Procs |-> Nothing] /\ moved = [p \in Procs |-> Nothing]

Goto(p, label) == pc' = [pc EXCEPT ![p] = label]

\* _guard: one process of a host at a time, where the kernel has locks.
Enter(p) ==
    /\ guarded => guard[host[p]] = Nothing
    /\ guard' = IF guarded THEN [guard EXCEPT ![host[p]] = p] ELSE guard
Leave(p) == guard' = [h \in Hosts |-> IF guard[h] = p THEN Nothing ELSE guard[h]]
-----------------------------------------------------------------------------
\* A process begins an acquisition, with a record of its own.
Start(p) ==
    /\ pc[p] \in {"idle", "dead"} /\ attempt[p] < MaxAttempts
    /\ Goto(p, "guard")
    /\ attempt' = [attempt EXCEPT ![p] = @ + 1]
    /\ tries' = [tries EXCEPT ![p] = 0]
    /\ UNCHANGED <<deployment, files, guard, judged, moved>>

EnterGuard(p) ==
    /\ pc[p] = "guard"
    /\ Enter(p)
    /\ Goto(p, "create")
    /\ UNCHANGED <<deployment, files, attempts>>

\* Another process's step took longer than GUARD_TIMEOUT_S.
GuardBusy(p) ==
    /\ pc[p] = "guard" /\ guarded /\ guard[host[p]] # Nothing
    /\ Goto(p, "idle")
    /\ UNCHANGED <<deployment, files, guard, attempts>>

\* O_CREAT|O_EXCL.
Create(p) ==
    /\ pc[p] = "create" /\ tries[p] < Rounds
    /\ tries' = [tries EXCEPT ![p] = @ + 1]
    /\ IF file = Nothing
         THEN /\ file' = Mine(p)
              /\ Goto(p, "write")
         ELSE UNCHANGED file /\ Goto(p, "judge")
    /\ UNCHANGED <<deployment, written, old, guard, attempt, judged, moved>>

GiveUp(p) ==
    /\ pc[p] = "create" /\ tries[p] = Rounds
    /\ Leave(p) /\ Goto(p, "idle")
    /\ UNCHANGED <<deployment, files, attempts>>

\* The record goes to the file created, wherever that is by now.
Write(p) ==
    /\ pc[p] = "write"
    /\ written' = written \cup {Mine(p)}
    /\ old' = old \ {Mine(p)}
    /\ Leave(p) /\ Goto(p, "held")
    /\ UNCHANGED <<deployment, file, attempts>>

\* (mutant) a holder that stalled on this host is overtaken by age too
HeldUnlessOld(p, a) ==
    IF a \notin written THEN a \notin old
    ELSE IF host[a[1]] = host[p] THEN Alive(a) /\ a \notin old
    ELSE ~(p \in Workers /\ a \in old)

\* (mutant) this host's locks are judged by age, like another's
HeldByAge(p, a) == a \notin old

\* _judge_lock: an empty file by age, this host's by its process, another
\* host's by age where stale_after was given.
Held(p, a) ==
    IF a \notin written THEN a \notin old
    ELSE IF host[a[1]] = host[p] THEN Alive(a)
    ELSE ~(p \in Workers /\ a \in old)

Judge(p) ==
    /\ pc[p] = "judge"
    /\ \/ /\ file = Nothing
          /\ Goto(p, "create")
          /\ UNCHANGED <<guard, judged>>
       \/ /\ file # Nothing
          /\ Held(p, file) \/ ~guarded
          /\ Leave(p) /\ Goto(p, "idle")
          /\ UNCHANGED judged
       \/ /\ file # Nothing
          /\ ~Held(p, file) /\ guarded
          /\ judged' = [judged EXCEPT ![p] = Text(file)]
          /\ Goto(p, "rename")
          /\ UNCHANGED guard
    /\ UNCHANGED <<deployment, files, attempt, tries, moved>>

\* _reclaim: whatever is at the path goes to a tombstone.
Rename(p) ==
    /\ pc[p] = "rename"
    /\ IF file = Nothing
         THEN Goto(p, "create") /\ UNCHANGED <<file, moved>>
         ELSE /\ moved' = [moved EXCEPT ![p] = file]
              /\ file' = Nothing
              /\ Goto(p, "check")
    /\ UNCHANGED <<deployment, written, old, guard, attempt, tries, judged>>

\* The tombstone says what was judged, or it is linked back unless the path is
\* taken by now.
Check(p) ==
    /\ pc[p] = "check"
    /\ IF Text(moved[p]) = judged[p]
         THEN Goto(p, "create") /\ UNCHANGED <<file, guard>>
         ELSE /\ file' = IF file = Nothing THEN moved[p] ELSE file
              /\ Leave(p) /\ Goto(p, "idle")
    /\ UNCHANGED <<deployment, written, old, attempts>>
-----------------------------------------------------------------------------
\* WriterLock.refresh, which a worker calls before each container and before it
\* publishes one: a lock that is not its own ends its work.
Refresh(p) ==
    /\ p \in Workers /\ pc[p] = "held"
    /\ IF IsMine(p) THEN old' = old \ {file} /\ UNCHANGED pc
                    ELSE UNCHANGED old /\ Goto(p, "release")
    /\ UNCHANGED <<deployment, file, written, guard, attempts>>

\* What the lock was taken for is published, or fails.
Finish(p) ==
    /\ pc[p] = "held"
    /\ Goto(p, "release")
    /\ UNCHANGED <<deployment, files, guard, attempts>>

\* The guarded release; when the guard stays busy, without it.
EnterRelease(p) ==
    /\ pc[p] = "release"
    /\ \/ Enter(p)
       \/ guarded /\ guard[host[p]] # Nothing /\ UNCHANGED guard
    /\ Goto(p, "reread")
    /\ UNCHANGED <<deployment, files, attempts>>

\* _release reads the file, and removes what is there afterwards.
Reread(p) ==
    /\ pc[p] = "reread"
    /\ IF IsMine(p) THEN UNCHANGED guard /\ Goto(p, "unlink")
                    ELSE Leave(p) /\ Goto(p, "idle")
    /\ UNCHANGED <<deployment, files, attempts>>

Unlink(p) ==
    /\ pc[p] = "unlink"
    /\ file' = Nothing
    /\ Leave(p) /\ Goto(p, "idle")
    /\ UNCHANGED <<deployment, written, old, attempts>>
-----------------------------------------------------------------------------
\* The process is killed: the kernel drops its guard and nothing else.
Crash(p) ==
    /\ pc[p] \notin {"idle", "dead"}
    /\ Leave(p) /\ Goto(p, "dead")
    /\ UNCHANGED <<deployment, files, attempts>>

\* Time passes while nobody touches the file.
Age ==
    /\ file # Nothing /\ file \notin old
    /\ old' = old \cup {file}
    /\ UNCHANGED <<deployment, file, written, guard, pc, attempts>>

Step(p) ==
    \/ EnterGuard(p) \/ Create(p) \/ GiveUp(p) \/ Write(p)
    \/ Judge(p) \/ Rename(p) \/ Check(p)
    \/ Refresh(p) \/ EnterRelease(p) \/ Reread(p) \/ Unlink(p)

LockNext ==
    \/ \E p \in Procs : Start(p) \/ GuardBusy(p) \/ Step(p) \/ Finish(p) \/ Crash(p)
    \/ Age

LockSpec == LockInit /\ [][LockNext]_lockVars
-----------------------------------------------------------------------------
Labels == {"idle", "dead", "guard", "create", "write", "judge", "rename", "check",
           "held", "release", "reread", "unlink"}

\* Every variable keeps its type.
TypeOK ==
    /\ host \in [Procs -> Hosts] /\ guarded \in BOOLEAN
    /\ file \in Acquisitions \cup {Nothing}
    /\ written \subseteq Acquisitions /\ old \subseteq Acquisitions
    /\ guard \in [Hosts -> Procs \cup {Nothing}]
    /\ pc \in [Procs -> Labels]
    /\ attempt \in [Procs -> 0..MaxAttempts]
    /\ tries \in [Procs -> 0..Rounds]
    /\ judged \in [Procs -> Acquisitions \cup {Nothing, Empty}]
    /\ moved \in [Procs -> Acquisitions \cup {Nothing}]

OneHost == \A p, q \in Procs : host[p] = host[q]
Holders == {p \in Procs : pc[p] = "held"}

\* hzdr_nexus.py:451-470: on one host, or where there are no kernel locks,
\* nobody publishes beside another, though processes die anywhere, stall
\* anywhere, give up the guard, and reclaim each other's dead locks.
AtMostOneHolder ==
    OneHost \/ ~guarded => \A p, q \in Holders : p = q

\* hzdr_nexus.py:458-460: "A lock left behind by a crashed/killed process is
\* reclaimed automatically": on one host a process is refused only for a lock
\* whose process runs, or one left empty that is too young to tell.
RefusedOnlyIfHeld ==
    [][\A p \in Procs :
        /\ OneHost /\ guarded
        /\ pc[p] \in {"create", "judge", "check"} /\ pc'[p] = "idle"
        => file # Nothing /\ (Alive(file) \/ (file \notin written /\ file \notin old))]_lockVars
=============================================================================
