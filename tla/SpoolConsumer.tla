--------------------------- MODULE SpoolConsumer ---------------------------
(***************************************************************************)
(* HZDRSpoolConsumer.run with its three transports: the poll loop that     *)
(* claims a batch of broker messages, appends each new event to a JSONL    *)
(* spool file, fsyncs it, acknowledges the batch and tells the builder     *)
(* trigger.  One broker partition, one consumer process, the spool files,  *)
(* and the faults the loop meets: a write that fails, a write cut short, a *)
(* failing fsync, a failing acknowledgement, a process crash and a power   *)
(* loss.  Every step ends at an await or at a system call.                 *)
(***************************************************************************)
EXTENDS Naturals, Sequences, FiniteSets

CONSTANTS
    Records,        \* messages producers publish: [id, experiment]
    Junk,           \* a broker record whose value is JSON but no object
    Garbled,        \* a broker record whose value is no JSON at all
    Corrupt,        \* a line of a spool file that does not parse
    Campaigns,      \* campaigns, each standing for its directory name (slug)
    Configured,     \* SpoolConfig.campaign
    Unassigned,     \* UNASSIGNED_EXPERIMENT_ID, and its shared directory
    Scenes,         \* transports, and what may go wrong: one of them is chosen
    BatchSize,      \* SpoolConfig.batch_size
    MaxFaults,      \* bound: how often each kind of fault happens
    MaxLog          \* bound: how many records are published

Files == Campaigns \cup {Unassigned}
Ids == {r.id : r \in Records}
MaxLines == MaxLog + MaxFaults    \* a file grows by one line per record or fault
FaultKinds == {"nospace", "torn", "fsync", "ack", "crash", "power"}

ASSUME ConstantsOK ==
    /\ \A r \in Records : r = [id |-> r.id, experiment |-> r.experiment]
    /\ Junk \notin Records /\ Garbled \notin Records \cup {Junk}
    /\ Corrupt \notin Ids
    /\ Configured \in Campaigns
    /\ BatchSize \in Nat \ {0}
    /\ MaxFaults \in Nat
    /\ Scenes \subseteq [transport : {"http", "kafka", "asapo"},
                        limit : [FaultKinds -> 0..MaxFaults]]
    /\ MaxLog \in Nat

VARIABLES
    scene,      \* the transport of this deployment, and its faults' limits
    log,        \* the partition: published records, never removed
    offset,     \* the group's position kept by the broker
    acked,      \* offsets acknowledged so far
    position,   \* the Kafka client's in-memory position
    pc,         \* "claim" | "spool" | "fsync" | "announce"
    batch,      \* offsets of the messages of the claimed batch
    todo,       \* those of them consume_one has not finished with
    written,    \* identities written in this iteration of the loop
    loaded,     \* self._loaded
    staged,     \* self._staged
    lines,      \* complete lines of each spool file, in the page cache
    torn,       \* the file ends in a fragment with no newline
    synced,     \* number of lines of each file known to be on the disk
    announced,  \* identities in the files when the builder was last notified
    faults      \* number of faults of each kind so far

broker == <<scene, log, offset, acked>>
memory == <<position, batch, todo, written, loaded, staged>>
disk == <<lines, torn, synced>>
vars == <<broker, memory, disk, pc, announced, faults>>

\* BROKER_MODE: which consumer the process runs.
Broker == scene.transport
-----------------------------------------------------------------------------
\* What the files hold: the identities a reader of the JSONL lines finds.
Holds(f, e) == \E n \in 1..Len(lines[f]) : lines[f][n] = e
SpooledIds == {e \in Ids : \E f \in Files : Holds(f, e)}

\* SpoolConfig.path_for: the message names the file; no usable name, ours.
PathFor(r) == IF r.experiment \in Files THEN r.experiment ELSE Configured

\* The batch goes through consume_one in broker order.
InTurn(i) == i \in todo /\ \A j \in todo : i <= j

\* (mutant) only the configured campaign's file is read back
KnownOwnFile == IF loaded THEN staged ELSE {e \in Ids : Holds(Configured, e)}

\* _ensure_loaded: the first message of a process reads every spool file.
Known == IF loaded THEN staged ELSE SpooledIds

\* The broker's cursor from which a claim reads: Kafka's client keeps its own
\* in memory and nothing seeks it back, the others keep it at the server.
ReadFrom == IF Broker = "kafka" THEN position ELSE offset

Init ==
    /\ scene \in Scenes
    /\ log = <<>> /\ offset = 0 /\ acked = {}
    /\ position = 0 /\ pc = "claim" /\ batch = {} /\ todo = {} /\ written = {}
    /\ loaded = FALSE /\ staged = {}
    /\ lines = [f \in Files |-> <<>>]
    /\ torn = [f \in Files |-> FALSE]
    /\ synced = [f \in Files |-> 0]
    /\ announced = {}
    /\ faults = [k \in FaultKinds |-> 0]

\* The harness' HTTP broker only holds JSON objects.
Publish(r) ==
    /\ Len(log) < MaxLog
    /\ r \notin Records => Broker # "http"
    /\ log' = Append(log, r)
    /\ UNCHANGED <<scene, offset, acked, memory, disk, pc, announced, faults>>
-----------------------------------------------------------------------------
\* _claim returns the objects among the next records.  Kafka skips what is JSON
\* but no object; a batch of nothing else is empty, so the loop sleeps and polls
\* on.  A value that is no JSON raises in the value_deserializer, inside poll:
\* no batch reaches past it, the position stays and every retry fetches it again.
Claim ==
    /\ pc = "claim"
    /\ \E last \in ReadFrom + 1..Len(log) :
        /\ last - ReadFrom <= BatchSize
        /\ \A i \in ReadFrom + 1..last : log[i] # Garbled
        /\ LET got == {i \in ReadFrom + 1..last : log[i] \in Records} IN
           /\ Broker = "asapo" => got = ReadFrom + 1..last
           /\ batch' = got
           /\ todo' = got
           /\ pc' = IF got = {} THEN "claim" ELSE "spool"
        /\ position' = IF Broker = "kafka" THEN last ELSE position
        /\ offset' = IF Broker = "asapo" THEN last ELSE offset
    /\ written' = {}
    /\ UNCHANGED <<scene, log, acked, loaded, staged, disk, announced, faults>>

\* ASAPO: get_next has moved the group on when _decode_message refuses a
\* payload; the messages claimed before it are dropped with the exception.
ClaimUndecodable ==
    /\ pc = "claim"
    /\ Broker = "asapo"
    /\ \E last \in offset + 1..Len(log) :
        /\ last - offset <= BatchSize
        /\ log[last] \notin Records
        /\ \A i \in offset + 1..last - 1 : log[i] \in Records
        /\ offset' = last
    /\ UNCHANGED <<scene, log, acked, memory, disk, pc, announced, faults>>

\* consume_one, the event is known already: nothing is written.
Duplicate(i) ==
    /\ pc = "spool" /\ InTurn(i)
    /\ log[i].id \in Known
    /\ loaded' = TRUE /\ staged' = Known
    /\ todo' = todo \ {i}
    /\ UNCHANGED <<broker, position, batch, written, disk, pc, announced, faults>>

\* (mutant) the identity is remembered before the append
AppendRemembered(i) ==
    /\ pc = "spool" /\ InTurn(i)
    /\ log[i].id \notin Known
    /\ loaded' = TRUE /\ staged' = Known \cup {log[i].id}

\* consume_one reaches _append_event_durable.
AppendEvent(i) ==
    /\ pc = "spool" /\ InTurn(i)
    /\ log[i].id \notin Known
    /\ loaded' = TRUE /\ staged' = Known

\* A new event: the line is written and flushed.  After a fragment the bytes
\* run on in the fragment's line and neither parses.
WriteLine(i) ==
    /\ AppendEvent(i)
    /\ LET f == PathFor(log[i]) IN
        /\ lines' = [lines EXCEPT ![f] =
                        Append(@, IF torn[f] THEN Corrupt ELSE log[i].id)]
        /\ torn' = [torn EXCEPT ![f] = FALSE]
    /\ pc' = "fsync"
    /\ UNCHANGED <<broker, position, batch, todo, written, synced, announced,
                   faults>>

\* (mutant) remembered and acknowledged without an fsync
RememberedUnsynced(i) ==
    /\ pc = "fsync" /\ InTurn(i)
    /\ staged' = staged \cup {log[i].id}
    /\ written' = written \cup {log[i].id}
    /\ todo' = todo \ {i}
    /\ pc' = "spool"
    /\ UNCHANGED <<broker, position, batch, loaded, disk, announced, faults>>

\* os.fsync returns: only now is the identity remembered.
Fsync(i) ==
    /\ pc = "fsync" /\ InTurn(i)
    /\ LET f == PathFor(log[i]) IN
        synced' = [synced EXCEPT ![f] = Len(lines[f])]
    /\ staged' = staged \cup {log[i].id}
    /\ written' = written \cup {log[i].id}
    /\ todo' = todo \ {i}
    /\ pc' = "spool"
    /\ UNCHANGED <<broker, position, batch, loaded, lines, torn, announced, faults>>

\* (mutant) the token is one record further than last_offset + 1
BeyondBatch(h) == h - 1 \in batch /\ h \in 1..Len(log) /\ \A i \in batch : i < h

\* The token of an offset commit, and what an acknowledgement covers: all
\* records up to it, or with ASAPO the messages of the batch one by one.
EndOfBatch(h) == h \in batch /\ \A i \in batch : i <= h
CoversAllBefore(h) == 1..h                                          \* (mutant)
Covered(h) == IF Broker = "asapo" THEN batch ELSE 1..h

Commit(h) ==
    /\ EndOfBatch(h)
    /\ acked' = acked \cup Covered(h)
    /\ offset' = IF Broker = "asapo" THEN offset ELSE h

Ack(h) ==
    /\ pc = "spool" /\ todo = {}
    /\ Commit(h)
    /\ pc' = "announce"
    /\ UNCHANGED <<scene, log, memory, disk, announced, faults>>

\* on_new_events: the hook is called when this batch wrote something.
Announce ==
    /\ pc = "announce"
    /\ announced' = IF written # {} THEN SpooledIds ELSE announced
    /\ pc' = "claim"
    /\ batch' = {} /\ written' = {}
    /\ UNCHANGED <<broker, position, todo, loaded, staged, disk, faults>>
-----------------------------------------------------------------------------
Fault(k) ==
    /\ faults[k] < scene.limit[k]
    /\ faults' = [faults EXCEPT ![k] = @ + 1]

\* (mutant) the failing message is skipped and the batch goes on
SkipMessage ==
    /\ pc' = "spool"
    /\ todo' = todo \ {i \in todo : InTurn(i)}
    /\ UNCHANGED <<position, batch, written, announced>>

\* The except clause of run: the exception is logged and the loop claims anew.
GiveUpBatch ==
    /\ pc' = "claim"
    /\ batch' = {} /\ todo' = {} /\ written' = {}
    /\ UNCHANGED <<position, announced>>

\* The append raises with nothing of the line in the file.
WriteFails(i) ==
    /\ AppendEvent(i)
    /\ Fault("nospace")
    /\ GiveUpBatch
    /\ UNCHANGED <<broker, disk>>

\* The append raises with part of the line in the file.
WriteTorn(i) ==
    /\ AppendEvent(i)
    /\ Fault("torn")
    /\ torn' = [torn EXCEPT ![PathFor(log[i])] = TRUE]
    /\ GiveUpBatch
    /\ UNCHANGED <<broker, lines, synced>>

\* The line is in the file, os.fsync (or the flush that wrote it) raises.
FsyncFails ==
    /\ pc = "fsync"
    /\ Fault("fsync")
    /\ GiveUpBatch
    /\ UNCHANGED <<broker, loaded, staged, disk>>

\* The acknowledgement raises; the broker may have applied it, all of it or
\* (message by message) some of it.
AckFails(h) ==
    /\ pc = "spool" /\ todo = {}
    /\ Fault("ack")
    /\ \/ Commit(h)
       \/ /\ UNCHANGED offset
          /\ IF Broker = "asapo"
             THEN \E S \in SUBSET batch : acked' = acked \cup S
             ELSE UNCHANGED acked
    /\ GiveUpBatch
    /\ UNCHANGED <<scene, log, loaded, staged, disk>>

\* A new process starts from the broker's position, with an empty memory.
Restart ==
    /\ pc' = "claim"
    /\ position' = offset
    /\ batch' = {} /\ todo' = {} /\ written' = {}
    /\ loaded' = FALSE /\ staged' = {}
    /\ UNCHANGED <<broker, announced>>

\* The process dies between two steps: the page cache outlives it, and dying
\* inside the write leaves what WriteTorn leaves.
Crash ==
    /\ Fault("crash")
    /\ Restart
    /\ UNCHANGED disk

\* The machine dies: each file keeps what was synced and any part of the rest,
\* a fragment of the first lost line included.
PowerLoss ==
    /\ Fault("power")
    /\ \E keep \in [Files -> 0..MaxLines], cut \in SUBSET Files :
        /\ \A f \in Files :
            /\ keep[f] \in synced[f]..Len(lines[f])
            /\ f \in cut => torn[f] \/ keep[f] < Len(lines[f])
        /\ lines' = [f \in Files |-> SubSeq(lines[f], 1, keep[f])]
        /\ torn' = [f \in Files |-> f \in cut]
        /\ synced' = keep
    /\ Restart

Next ==
    \/ \E r \in Records \cup {Junk, Garbled} : Publish(r)
    \/ Claim \/ ClaimUndecodable
    \/ \E i \in todo : Duplicate(i) \/ WriteLine(i) \/ Fsync(i)
    \/ \E h \in 1..Len(log) : Ack(h)
    \/ Announce
    \/ \E i \in todo : WriteFails(i) \/ WriteTorn(i)
    \/ FsyncFails
    \/ \E h \in 1..Len(log) : AckFails(h)
    \/ Crash
    \/ PowerLoss

\* A fetch may hold every pending record, and one of them that is no JSON loses
\* the poll whatever lies before it: then no claim is owed.
PollReturns == Broker = "kafka" => \A i \in position + 1..Len(log) : log[i] # Garbled

\* The loop's own steps run as long as the process does, and compose restarts
\* the process; producers owe nothing and no fault has to happen.
Loop ==
    \/ Claim /\ PollReturns
    \/ ClaimUndecodable
    \/ \E i \in todo : Duplicate(i) \/ WriteLine(i) \/ Fsync(i)
    \/ \E h \in 1..Len(log) : Ack(h)
    \/ Announce

Spec == Init /\ [][Next]_vars
FairSpec == Spec /\ WF_vars(Loop)
-----------------------------------------------------------------------------
\* Every variable keeps its type.
TypeOK ==
    /\ scene \in Scenes
    /\ log \in Seq(Records \cup {Junk, Garbled})
    /\ offset \in 0..Len(log) /\ position \in 0..Len(log)
    /\ acked \subseteq 1..Len(log)
    /\ pc \in {"claim", "spool", "fsync", "announce"}
    /\ batch \subseteq 1..Len(log) /\ todo \subseteq batch
    /\ written \subseteq Ids
    /\ loaded \in BOOLEAN /\ staged \subseteq Ids
    /\ lines \in [Files -> Seq(Ids \cup {Corrupt})]
    /\ torn \in [Files -> BOOLEAN]
    /\ synced \in [Files -> Nat]
    /\ announced \subseteq Ids
    /\ faults \in [FaultKinds -> Nat]
    /\ \A k \in FaultKinds : faults[k] <= scene.limit[k]

\* Nothing is owed to offset i: it is passed over, or a file holds its event.
Settled(i) == log[i] = Junk \/ (log[i] \in Records /\ log[i].id \in SpooledIds)

SpooledBeforeAcked == \A i \in acked : Settled(i)

\* Kafka's client, which is never sought back, need not repeat an append.
Never(k) == scene.limit[k] = 0
NoneSkipped == Broker = "kafka" => Never("nospace") /\ Never("fsync") /\ Never("torn")

\* Nothing that loses a line may happen: no append is cut short, no power is lost.
Reliable == NoneSkipped /\ Never("torn") /\ Never("power")

\* The rule of the whole ingest (spool.py, kafka.py): a message the broker may
\* forget is an event the spool holds.  Failing writes, fsyncs and acks,
\* re-delivery and restarts are all in between.
AckedIsSpooled == Reliable => SpooledBeforeAcked

\* The same for what a power loss leaves (spool.py:85): as long as no process
\* died, an acknowledged event's line has been fsynced.
DurableIds == {e \in Ids : \E f \in Files : \E n \in 1..synced[f] : lines[f][n] = e}
DurableUnlessRestarted ==
    Reliable /\ faults["crash"] = 0 =>
        \A i \in acked : log[i] = Junk \/ (log[i] \in Records /\ log[i].id \in DurableIds)

\* consume_one drops every message whose identity is in _staged, so _staged
\* must never be ahead of the files: a retry of a failed append would be lost.
StagedIsSpooled == Reliable => staged \subseteq SpooledIds

\* Re-delivery, re-publication under another campaign and restarts leave one
\* line per event over all files; only an append whose fsync failed, and which
\* is therefore not remembered, is repeated.
Copies(e) == Cardinality({x \in Files \X (1..MaxLines) :
                            x[2] <= Len(lines[x[1]]) /\ lines[x[1]][x[2]] = e})
OneLinePerEvent == \A e \in Ids : Copies(e) <= 1 + faults["fsync"]

\* When an append was cut short the next line runs on in the fragment and is
\* lost with it; the strict readers of the builder see that it happened, also
\* after a power loss.  Not so where a process died first: the next one counts
\* lines as spooled that no fsync covered, and a power loss takes them.
LossLeavesATrace ==
    NoneSkipped /\ (faults["crash"] = 0 \/ faults["power"] = 0) =>
        SpooledBeforeAcked \/ \E f \in Files : Holds(f, Corrupt)

\* kafka.py:12-13: "an offset is committed if and only if its event is durably
\* on disk".
CommittedIsSpooled == Broker = "kafka" => SpooledBeforeAcked

\* One record that is no JSON stops Kafka's loop, restarts included.
Blocked == Broker = "kafka" /\ \E i \in 1..Len(log) : log[i] = Garbled

\* The hook ran with the event in the files: the builder's trigger was told.
Told(i) == log[i] \in Records => log[i].id \in announced

\* spool.py:5-6: what a producer publishes ends up in a spool file, and unless
\* an acknowledgement failed or the process died the trigger hears of it.
\* Excepted are ASAPO, whose claim takes the message out of the group's stream,
\* a Kafka log with a record that is no JSON, and what is not Reliable; after a
\* failed acknowledgement the retry is all duplicates and the hook is not called.
EventuallySpooled ==
    \A i \in 1..MaxLog :
        (i <= Len(log) /\ Reliable /\ Broker # "asapo")
            ~> \/ Blocked
               \/ /\ i <= Len(log) /\ Settled(i)
                  /\ faults["ack"] + faults["crash"] = 0 => Told(i)

\* The loop implements the promise: files only gain events and the broker is
\* told only about events the files hold.
Promise == INSTANCE DurableSpool WITH accepted <- SpooledIds, firm <- Reliable
KeepsPromise == Promise!Spec
=============================================================================
