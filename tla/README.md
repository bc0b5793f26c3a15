# DAMNIT-web (HZDR): verification of the ingest and build pipeline

TLA+ models of the part of this repository that has to be right without anyone
watching it: how a producer's event becomes a line in a spool file, how those
lines become the published master and catalog of a campaign, how the processes
that publish keep out of one another's way, what a reviewer decides meanwhile,
what stands in a shot's container, and what a browser is told of all this. TLC
checks the models on small instances; TLAPS proves theorems about them for every
value of the constants.

Paths are relative to the repository; `consumer/` and `metadata/` stand for
`api/src/damnit_api/consumer/` and `api/src/damnit_api/metadata/`.

## 1. Inventory

```
 producers ──> broker ──> spool consumer ──> events/<campaign>/*.jsonl
 (Kafka, ASAPO, HTTP)        │ on_new_events          │ read by every build
                             v                        v
 LabFrog exporter ─watch─> builder trigger ──starts──> hzdr-hdf5-builder ──> <campaign>.nxs
 reviewer's ruling ──ask──>  │    ^                                      └─> hzdr_sources.json
                             │    │ RELINK / BUSY / done                        ^    ^
                             ├──> container worker ──> shots/*.nxs              │    │
                             └──> validation gate                 review API ───┘    │
 clients <──GraphQL── live updates <── runs.sqlite                live catalog ──────┘
```

| Part | State it keeps | Operations | What makes it hard | Module |
|---|---|---|---|---|
| **Spool consumers** (`consumer/spool.py`, `kafka.py`, `asapo.py`) | spool files, fsynced or not; `_staged` and `_loaded` in memory; the group's position at the broker and, for Kafka, another in the client | `run`: `_claim`, `consume_one`, `_append_event_durable`, `_ack`, `on_new_events` | any call may fail or be cut short; the process may die between any two; re-delivery; three brokers with three ideas of a position | SpoolConsumer |
| **Builder trigger** (`consumer/builder_trigger.py`) | `_wake`, `_validating`, `_validate_again`, the tasks that reap workers and gates, the watcher's last signature | `notify`, `run`, `_run_builder_once`, `_watch_labfrog_exports`, `_spawn_*`, `_reap_*` | coroutines interleave at awaits; subprocesses end whenever they like; nothing is persisted, so a restart forgets | BuilderTrigger |
| **Builder** (`scripts/hzdr-hdf5-builder.py`, `metadata/hzdr_nexus.py`, `scicat.py`) | none of its own; publishes masters and the shared catalog | `build`, `build_all`, `write_nexus_bridge`, `write_sources_catalog` | reads before it locks; several campaigns per run; exports that are replaced while it reads them; files it shares with LabFrog | CampaignBuilds, NexusBuild, EventIntake, LabFrogExports, MasterFile, ReviewCatalog |
| **Resolution and matching** (`metadata/hzdr_nexus.py`) | none (pure) | `resolve_event_experiments`, `_deduplicate_by_event_id`, `_match_event` | precedence of authorities, ambiguity, order independence | Matching |
| **Writer lock** (`metadata/hzdr_nexus.py`) | a lock file, a kernel lock on its guard, tombstones | `single_writer_lock`: `_guard`, `_acquire`, `_judge_lock`, `_reclaim`, `refresh`, `_release` | holders die and stall; a judgment is old when it is acted on; several hosts; file systems without kernel locks | WriterLock |
| **Container worker** (`metadata/hzdr_containers.py`) | `shots/`: containers, manifest, pending marker, trash | `run_conversion`, `convert_campaign`, `_collect_garbage`, `relink_needed` | a request that arrives while another worker is finishing; a takeover between heartbeat and rename; a master published during the pass | ContainerWorker |
| **Container content** (`metadata/hzdr_containers.py`, `hzdr_packs/`) | one HDF5 tree per shot | `read_master`, `plan_shots`, `_write_shot`, the packs, `apply_mapping_rows` | files missing, torn, of another size; several events for one acquisition; names and targets that collide | ShotPlanning, DiagnosticPacks, MappingRows, ShotContainer |
| **Validation gate** (`scripts/hzdr-nexus-validate.py`) | a report per campaign folder | check, report, log | opens a master several times while builds replace it; old reports stay | ValidationGate |
| **Review and catalog API** (`metadata/hzdr_routers.py`) | `hzdr_sources.json`, the review sidecar and its backup, saved views | status, correction, confirm, dismiss, ruling, emulated shot, views | read-modify-write without the catalog's lock, against the builder's merge; catalog and sidecar are two writes | ReviewCatalog |
| **Live updates** (`graphql/subscriptions.py`, `graphql/metadata.py`, `runs/sqlite/`) | shared high-water mark, TTL caches, per-subscriber mtime and signature | `poll_proposal`, `run_updates`, `fetch_metadata` | subscribers of different pace share one cursor and one cache | LiveUpdates |
| Consumer bootstrap, context files, source readers, GraphQL queries, auth, settings, MyMdC, monitoring, frontend, scripts run by hand | none across requests, a library's, or one file overwritten per save | | sequential, or outside the aim | not modelled |

How they interact: consumers and trigger live in one API process and share only
a callback (`on_new_events` -> `notify`) and the files; builder, workers and
gates are subprocesses known by their exit codes; everything else goes through
files that are replaced atomically or appended to, and lock files. A model of
one part therefore shows the others as what they do to the files and exit codes
it reads.

What makes each part correct:

- *consumers*: what the broker may forget is in a spool file; an event is there
  once; an event published gets there.
- *trigger*: what changed is followed by a build that began after it; no build
  for nothing; one gate at a time, and one after the last change; the circle
  worker -> relink -> build -> worker ends.
- *builder*: no event is lost or in two campaigns; each row of a file is one
  shot; LabFrog's content is kept; nothing of an older build is published again.
- *matching*: what attaches is an identity, and stays attached.
- *lock*: one publisher at a time; nobody refused for the sake of a dead process.
- *container worker*: a request is served by a pass begun after it; nothing is
  published under a successor at work; what is on disk is what the master plans.
- *container content*: independent of the order of events; every acquisition and
  every mapping row is in it or reported; readings are never overwritten.
- *gate*: what is logged was found by this gate, and the last report is of the
  master that is published.
- *review API*: a reviewer's decision survives builds, other requests, crashes.
- *live updates*: whoever has looked at the file as it is has its metadata and
  gets the rows committed since it subscribed.

`PROJECT.json` lists every component with its status and, under `hazards`, each
place where the code can go wrong in a way a test would hardly reach, with the
properties that would notice.

## 2. Plan

Each step is a module (or a few) with its run, then its proofs.

| Step | State |
|---|---|
| SpoolConsumer, with `DurableSpool` as its abstract specification | checked, proved |
| BuilderTrigger | checked; its safety proved |
| WriterLock | checked, proved |
| ContainerWorker | checked; its safety proved |
| ReviewCatalog | checked; its safety proved, under overlap and one at a time |
| Matching and CampaignBuilds: resolution, matching, a run over all campaigns | checked, proved |
| ValidationGate, composed with CampaignBuilds | checked, proved |
| LiveUpdates | checked; its safety proved |
| ShotPlanning, DiagnosticPacks, MappingRows, ShotContainer | checked, proved |
| LabFrogExports, EventIntake, MasterFile, NexusBuild: one build in full | checked, proved |
| *Left*: trigger, worker and builder in one module, so that the number of builds a relink costs has a bound ("at most about two extra", container-writer.md) | |
| *Left*: in-place builds, the HELPMI/openPMD layout, saved views, source readers | |

## 3. Modules and the code

What may happen in a run, and how often, is in most modules a *scene*: a record
chosen once in `Init` from the constant `Scenes` (`Budgets` in ContainerWorker)
and never changed. So one run covers several deployments or several kinds of
failure, and the theorems hold for all of them.

### SpoolConsumer (with DurableSpool, SpoolConsumerProofs)

`HZDRSpoolConsumer.run` over one partition. A record is `[id, experiment]`; the
identity is what `_message_identity` makes of a message, the experiment what
`path_for` turns into a file. Each action ends at an await or a system call, as
that is where the process can die or be overtaken.

| Model | Code |
|---|---|
| `log`, `offset`, `position`, `acked` | the partition; the group's position at the broker; the Kafka client's own, in memory; what was acknowledged |
| `lines`, `torn`, `synced` | the spool files: whole lines, a trailing fragment, how much of them fsync covered |
| `staged`, `loaded` | `_staged`, `_loaded` |
| `Claim`, `ClaimUndecodable` | the three `_claim`s, and the exception of `_decode_message` |
| `Garbled`, `PollReturns` | a Kafka value that is no JSON or no UTF-8, and the poll it makes raise (kafka.py:57-60) |
| `Duplicate`, `WriteLine`, `Fsync` | `consume_one` and `_append_event_durable` |
| `Ack`, `Announce` | `_ack`, then `on_new_events` if something was written |
| `WriteFails`, `WriteTorn`, `FsyncFails`, `AckFails` | the same calls raising, each followed by the `except` of `run` (`GiveUpBatch`) |
| `Crash`, `PowerLoss` | the process, or the machine, dies; compose starts another process |

`Broker`, given by the scene, is the transport. Kafka reads from the client's
position and skips JSON values that are no objects (`Junk`); ASAPO takes messages out of the
stream when it claims them and acknowledges one by one; HTTP reads from the
group's position. `DurableSpool` knows neither files nor brokers: events are
accepted, and acknowledged when accepted. `KeepsPromise` states that the
consumer implements it, `accepted` being what a reader of the files finds.

Known and without a run of its own:

- a Kafka record that is no JSON stops the consumer. The deserializer raises inside
  `poll`, the position stays, and each retry and each new process meets the same
  record (spool.py:265-267): nothing behind it is spooled until somebody moves the
  group's offset. `EventuallySpooled` excepts a log with such a record (`Blocked`);
  the safety properties hold beside it;
- after a failed acknowledgement the retried batch is all duplicates, so it is
  acknowledged without `on_new_events` (spool.py:260-262), although spool.py:5-6
  says the builder has been triggered by then. `EventuallySpooled` says that the
  hook was called with the event in the files (`Told`) where no acknowledgement
  failed and no process died;
- ASAPO's claim moves the position (spool.py:236 says `_claim` must not), so
  `EventuallySpooled` claims nothing of ASAPO; nor of a scene that is not
  `Reliable` (cut writes, power losses, Kafka's failing appends);
- a line appended after a fragment runs on in it (spool.py:84 says readers
  "always see complete lines").

### BuilderTrigger (with BuilderTriggerProofs)

The coroutines of one `BuilderTrigger` and the processes it starts. An input is
a version number per source (spool, LabFrog export, ruling); a build is the
versions it read. Actions are the stretches between awaits. The scene says
whether containers and validation are configured, and what may fail.

| Model | Code |
|---|---|
| `wake`, `validating`, `again` | `_wake`, `_validating`, `_validate_again` |
| `pc` | where `run` awaits: the wait, the debounce sleep, the builder |
| `Land`, `Tell` | an input changes; its writer calls `notify` (the hook, `request_rebuild`) |
| `HookSkipped` | the consumer's acknowledgement raised, its retry is all duplicates, and the hook is not called for what has landed |
| `FirstLook`, `LookAgain` | `_watch_labfrog_exports` |
| `Wake`, `Debounced`, `LaunchFails`, `BuildSucceeded`, `BuildFailed` | `run` and `_run_builder_once` |
| `Read`, `Lock`, `PublishOutput`, `BuildFails` | the builder process, one read per source in any order |
| `WorkerBegins` ... `WorkerRelinks`, `UnwatchedEnds` | workers and `_reap_worker`; those of a former process are not reaped |
| `StartGate`, `GateSpawned`, `GateSpawnFails`, `GateEnds` | `_start_validation`, `_spawn_validation`, `_reap_validation` |
| `Restart` | the API stops or dies and starts again; its builder may run on (`"stray"`) |

`heard`, `unchecked`, `due`, `begun` and `newest` record history for the
properties. Two guards read them, neither to restrict the code: a worker finds
no master while `newest` is still at its start, and a worker's further write is
left out when `unchecked` says already that something changed.

`LaunchFails` leaves behind the worker that `_run_builder_once` starts before it
launches the builder. `AttemptFollows` and `EventuallyBuilt` are about changes the
trigger is told of, or its watcher sees (`due`): an event whose hook was skipped
reaches the catalog with the next build that something else asks for, and nothing
in the code sees to one, although spool.py:5-6 says the trigger has been told.

`Converged` says of a trigger that is not restarted what builder_trigger.py:11-13
says of any. After a restart a build of the former process can publish last,
having read first; and the new watcher's first look only records, so that an
export replaced meanwhile waits for the next notification.

### WriterLock (with PublicationProofs)

Every system call of `single_writer_lock` is an action (`LockInit`, `LockNext`,
`LockSpec`; the proofs about it share a module with those of the builds that take it). A lock file is the
acquisition that created it; its text is that acquisition's unique record once
written, and empty before. Where each process runs, and whether the file system
has kernel locks at all, is chosen in the initial state and never changes, so
one run covers every deployment of its processes.

| Model | Code |
|---|---|
| `file`, `written`, `old` | the file at the path; the files their creator has written; those whose mtime is too long ago |
| `guard` | per host, who holds the kernel lock on `<lock>.guard` (the guard is per host on a FUSE mount) |
| `EnterGuard`, `GuardBusy` | `_guard`, `_lock_fd` and its timeout |
| `Create`, `Write`, `Judge`, `GiveUp` | `_acquire` |
| `Rename`, `Check` | `_reclaim`: to the tombstone, then compared with what was judged |
| `Held` | `_judge_lock`: an empty file by age, this host's by its process, another's by age if `stale_after` was given |
| `Refresh`, `Finish` | `WriterLock.refresh` and the body of the `with` |
| `EnterRelease`, `Reread`, `Unlink` | the `finally`, guarded or, when the guard stays busy, not |
| `Crash`, `Age` | the process dies; time passes. A stall is any number of other actions in between |

The properties are about one host, or hosts where nothing is reclaimed. Across
hosts a builder that stalls for five seconds between create and write leaves an
empty lock that another host's builder reclaims, and both publish, although
the builder "never steals another host's lock" (hzdr_nexus.py:463-464).

### ContainerWorker (with ContainerWorkerProofs)

The workers of one campaign, the builds that link their containers and the
relink requests between the two. A shot is the version of its plan in the master
and the version of its raw file; a container is what it was written from.

| Model | Code |
|---|---|
| `world`, `raw`, `away` | what a build would put into the master now; the raw files and which of them cannot be reached |
| `place`, `manifest`, `temps` | `shots/`: containers, `.build-manifest.json`, temps |
| `pending`, `lock` | `.convert.pending`; `.convert.lock`, by what `Excludes` proves of it |
| `BuildStarts`, `BuildLooks`, `BuildPublishes` | a build: `_write_shot_container_links` looks at `shots/` before the rename that publishes |
| `Spawn`, `Acquire`, `LeaveLoop`, `TakeRequest`, `NoRequest`, `Release` | `run_conversion`: the outer and the inner loop |
| `StartPass`, `Look`, `Write`, `Rename`, `Flush`, `PassEnds` | `convert_campaign`: read the master, per shot fingerprint and manifest, temp, heartbeat and rename, manifest |
| `Collect`, `Move` | `_collect_garbage` |
| `JudgeLinks` | `relink_needed` and the exit code; `asked` is the trigger woken by it |
| `ContainerFailed`, `RenameFails`, `RunFails`, `Overtaken` | a shot that fails, a pass that raises or dies, a lock lost at a heartbeat |

The builder's look at `shots/` is one step over all shots; starting a worker and
touching the marker are one step; two plans differ in the size of their
container (`SizesTell = TRUE`), as the manifest's check of the size assumes.
A pass that raises has consumed the marker. `unserved`, `clean` and `collected`
are history.

Two promises of the code's documents do not hold and are bounded in the
properties instead:

- `FinishedAreLinked` (container-writer.md:319-320, what is finished after a build
  looked "must still be linked"). A shot loses its acquisition and gets it back.
  The pass for the plan without it removes its container just after the build
  for the plan with it has looked: that master links a name with nothing behind
  it, and the worker rightly asks for a relink. The relink build looks, and
  finds nothing; the worker started before it writes the container again and
  judges by the master still published, which names the link: nothing to ask
  for. The build publishes a master without the link, and the worker after it
  finds the container up to date and writes nothing. The container stays
  unlinked until the next build for another reason. `RestIsConsistent` claims
  links for containers that were never collected.
- hzdr_containers.py:645, "a file that comes back is converted": not one that was
  there for the stat and gone when it was read, nor the reverse. The manifest
  compares what the stat said, the container has what was read; a later pass
  finds nothing changed (`CameOrWentWhileRead`).

A third is excluded by a constant. The manifest vouches for a container of the
recorded size. If two plans give containers of one size (`SizesTell = FALSE`), a
worker writes the second, dies between the rename and the flush, and the plan
goes back to the first, then the stale record vouches for a container of the
wrong plan. `PassBringsUpToDate` is proved where sizes tell, or nothing fails.

The `removed` half of `relink_needed` is not needed for the state at rest, and
links dangle for a while whenever a container is collected.

### ReviewCatalog (with ReviewCatalogProofs)

`hzdr_sources.json` and the review sidecar with their two kinds of writers. An
entry is what reconciling a version of the inputs gives for its campaign
(`Outcome`), with the decisions applied.

| Model | Code |
|---|---|
| `catalog`, `sidecar`, `backup`, `staged` | `hzdr_sources.json`; `hzdr_sources.review.jsonl`, whose last line may lack its newline; the rolling copy; events staged for emulated shots |
| `Confirm`, `Dismiss`, `UpdateStatus`, `UpdateMetadata`, `AppendEmulatedShot`, `EnrichLatestShot` | the handlers up to their write: read the catalog, change one entry |
| `WriteCatalog`, `StageEvent`, `AppendDecision`, `TruncateBackup`, `CopyBackup` | the rest of a handler; `RequestDies` between any two |
| `StartBuild`, `PublishMaster`, `BuildRefused`, `RegisterScicat`, `LoadDecisions` | the builder: master under the lock, registration, `load_review_decisions` |
| `ReadUnlocked`, `LockCatalog`, `Merge`, `BuildDies` | `write_sources_catalog` under `catalog_write_lock` |
| `Rebuilt`, `AppliedReview`, `WithReview` | `apply_review_decisions`, and the same rule in the handlers |

`EntryIsOfMaster` excepts keys whose build died between the two files and those
a request wrote back (`OnlyNewerEntries` is the violated run); `LiveEqualsRebuilt`
excepts events with a decision of a higher level than their latest, which the
handlers show and the next build overrules. Left out: locks of dead builders
(taken as reclaimed, WriterLock), the single-source mode, rulings (they share
the sidecar and are in CampaignBuilds), saved views. Status, corrections and
emulated shots live in the entry alone and vanish at its next build; a sidecar
with a corrupt line makes every later build fail, which is loud; a backup
interrupted in its copy may not match the sidecar. The SciCat branch that
keeps a registration when the file is identical (scicat.py, "avoiding a needless SciCat
POST on every debounced rebuild") is modelled by what it compares, and never
taken: `write_nexus_bridge` stamps `damnit_bridge_updated_at` (hzdr_nexus.py:2189),
so that no two builds are identical. A failed POST leaves the entry unregistered.

### Matching, CampaignBuilds, ValidationGate (with CampaignBuildsProofs)

*Matching* is operators only: superseded rows, the ladder of `_match_event`, the
offers of a watchdog, the shots that triggers found, `resolve_event_experiments`
and `_deduplicate_by_event_id`. Times are small numbers, one that cannot be
parsed is `Unknown`. *CampaignBuilds* is a run of `build_all`:

| Model | Code |
|---|---|
| `spool`, `writing` | the event files; lines of which a reader sees a part |
| `exports`, `rulings`, `scene.schedule` | LabFrog's rows; `load_experiment_rulings`; `load_campaign_schedule` |
| `StartRun` | exports, rulings and the list of campaigns, once per run |
| `BuildCampaign`, `CampaignFails` | one campaign's build: reads the spools again, routes, matches, replaces its entry |
| `RunDies`, `EndRun` | the shared spool, an active campaign's export, the schedule or the sidecar cannot be read, and the run dies before its first build; the bucket of unassigned events was last |

Two assumptions are about the data: copies of one event agree on what its id is
derived from (`EventsAgree`: event-schema.md:41, "deterministic UUIDv5" of
envelope, campaign, number and time; `_deduplicate_by_event_id` keeps the first
and relies on it), and a row is known by its record (`RowsAreRecords`: LabFrog's
record id is its Mongo `_id`).

The order of the campaigns within a run is any, the bucket last. Folder slugs
and rows that name foreign campaigns are left out; a torn line that stays is
SpoolConsumer's. Two documented promises are known not to hold: events without a
number in a campaign without LabFrog rows get no status and are in no review
list (architecture.md:88-91), which `NothingDropped` excepts by name
(`Numberless`); after a corrected ruling the campaign an event has left keeps its
stale entry until it is built again (architecture.md:106-108). Two founded shots
of one day and number but of different `shot_id` get one `shot_key`.

*ValidationGate* extends CampaignBuilds by `hzdr-nexus-validate.py` over the
output root. `ListMasters`, `CheckStructure` and `CheckDefinition` are the
openings of a master, `GateEnds` is the end the trigger logs, `CheckRaises`,
`CannotRun` and `GateDies` are its failures. The number of gates started stands
for the clock of `validated_at`; containers do not change there and are judged by
what is in them. A campaign whose check raises keeps its older report
(hzdr-nexus-validate.py:459-466) and only the trigger's comparison with the
gate's start keeps that one out of the log. The bucket's master has
another name than its folder and is never checked in this mode, although
`.env.production.example:224` says that "every build's output is validated".

### LiveUpdates (with LiveUpdatesProofs)

`run_updates` over one proposal's SQLite file, which DAMNIT's writer changes in
steps of its own: a row is stamped (`StampRow`) and later committed (`CommitRow`).

| Model | Code |
|---|---|
| `mtime`, `rows`, `tags`, `table` | the file; `mtime` counts commits |
| `mark`, `cached`, `metaCache` | `_last_seen_timestamp`, the poll's cache of one tick, `fetch_metadata`'s |
| `PollStat`, `NoTable`, `SeedMark`, `ReadRows`, `ReadTags`, `ReadRuns`, `FinishPoll`, `PollFails` | `poll_proposal`, an action per read |
| `Open`, `Subscribe`, `Tick`, `Deliver`, `Drop` | a page, its subscription, the loop of `run_updates`, a closed socket |
| `ExpirePoll`, `ExpireMeta` | the TTL caches |

One row per run, one proposal; the generator's backpressure is left out. Every
commit gives the file a new `mtime`. The code compares `st_mtime_ns` (session.py:107),
which is as fine as the file system makes it: two commits within one of its ticks
can share a time, and if a poll read between them, the second is not looked at until
a third. That case is outside the model, and `MetadataIsCurrent`, `AloneGetsAll` and
`EventuallyUpToDate` say nothing of it.
`AloneGetsAll` is about a lone subscriber; with two, rows get lost between their
ticks, which `live_gap` shows in its shortest form.

### ShotPlanning, DiagnosticPacks, MappingRows, ShotContainer (with ShotContainerProofs)

One shot's container. *ShotPlanning* reads `/entry/source_events` a slice at a
time (`ReadSlice`) and puts each file into the acquisition its name claims
(`TakeRow`: `claim`, `plan_shots`); rows come in any order. *DiagnosticPacks* is
what each pack of `hzdr_packs/` writes for its files, *MappingRows* is
`mapping_rows.py` over a tree of paths and objects, in which a hard link is a
second path. *ShotContainer* is `_write_shot`: `Open`, `WriteAcquisition` or, for a
recording, `OpenRecording`, `StreamFrame` and `FinishRecording`, then
`StartMapping`, `MapRow`, `EndMapping` or `ClaimRaises`, `Close`.

A file is a role, a state (in place, missing, unreadable, without columns), a
size and the number in its name; a pack's settings and the NeXus classes it
declares are left out. Rows are lists of typed records (`MappingsAssumption`);
the tail that frees a reserved name does free it (`TailAssumption`, a fact about
five strings). An event lists finitely many files, which the scene knows, and
instruments sort as their ids (`RowsAssumption`); different numbers after a name and
a tail make different names, for as many numbers as files are listed
(`NumeralsAssumption`, a fact about `str(n)`).

A mapping file's rows may be of any class and target any place, the entry's
definition and other detectors' subentries included: the code checks none of it and
no assumption does. `DefinitionStandsAlone` says what is claimed nevertheless. Its
limits are the code's: two detectors with one leaf name share a subentry, whose
definition is of the mapping that made it; a group of class NXsubentry that a row made
carries no definition; and what a row itself puts at `/entry/definition` is the
person's, not a claim. If that is a group or many values, `_text` raises
(mapping_rows.py:608), `_apply_mapping_rows` says that the mapping's rows failed, and
what had been said of single rows is lost (`ClaimRaises`): `RowsAccounted` counts such
a row as said with its mapping.

Rows may make groups of class NXdetector (189 of the 494 that the mapping files of the repository have written do), so
`DetectorsAccounted` says which detector groups there are, and that no machine is
empty, while packs write, and from then on that those of the acquisitions kept
remain. An instrument without a catalogue entry takes its names from the folder it
is watched in; watched in two, it has a plain name in each, and the earliest in
each has it (`EarliestIsPlain`). `MappingOnlyAdds` is stated over the paths of the tree: an object
no path names any more, as of a removed detector, is nobody's. What depends on the order of events, and stays out of
`PlanIsOrderFree`: pack, label, sha256 and timing role, where the first event's
count. An event with a format and no files gives a container without a line
about it; two copies of a path in one event are one. Where two rows link one
object, the later one's stamp stays; a row whose target is the subentry's own
`definition`, made for that very row, is "could not link"; a subentry can be left claiming a
definition with no row inside, when the derivation of its only row fails;
`sole_instrument` counts instruments whose acquisitions were omitted.

### LabFrogExports, EventIntake, MasterFile, NexusBuild (with PublicationProofs)

One build of one campaign in full. *LabFrogExports* turns the three sources
(NeXus table, SQLite export, Mongo documents) into shots and merges them by
identity; *EventIntake* turns documents of every form into events and selects
the campaign's; *MasterFile* writes the file group by group. *NexusBuild* is the
order of it:

| Model | Code |
|---|---|
| `Gather`, `Discover`, `Stage` | the three times a build opens the export: its rows, its arrays, its copy |
| `WriteShots`, `WriteTables`, `Publish`, `Fail` | `write_nexus_bridge` on the temp file, `replace_with_retry`, the `except` |
| `RefuseShots`, `RefuseNames` | the two `ValueError`s |
| `Arrive`, `ReplaceExport`, `ReplaceCurated`, `DropSource` | documents arrive, LabFrog replaces an export, a build is run without it |

The data is assumed to be of the shape the code reads (`ScenesOK`): exports and files
are sequences of rows, no two rows of one NeXus export are one shot (their
`mongo_id` is LabFrog's primary key), and documents that carry one producer's
`event_id` are one event, with one campaign and number.

Schedule and rulings are empty here (CampaignBuilds has them). Left out:
in-place builds, the `<kind>_mean` values computed from products, `local_count`,
gas species, the order of products, the wording of snapshots.
What the code's documents say and the code does not do, all met while modelling:

- sources are taken to be "immutable, kept separate" (system-overview.md:253). An
  export replaced between read and copy by one with as many rows is not
  noticed, and columns of one stand beside rows of the other: `RowsAgree` and
  `PreservedKept` claim nothing there;
- once a founded shot joins the campaign, `discover_labfrog_data_products` finds
  no arrays and LabFrog's products disappear from the file;
- `write_nexus_laser_group` writes over LabFrog's own laser datasets;
- a diagnostic called like an instrument id, or an instrument called `laser`,
  makes every build fail (hzdr_nexus.py:4710) with a message that blames the
  preserved file;
- `.tmp.nxs` leftovers are never removed (hzdr_nexus.py:2160-2161 and
  architecture.md:423-424 say they are);
- stale instrument groups and snapshots stay in a file seeded by its own
  predecessor; `NothingLingers` excepts exactly a grown LabFrog file (`Grown`);
- architecture.md:119-123 says the union of exports is not built with
  `--labfrog-nexus`; architecture.md:347 and the code say it is.

## 4. Runs

| Run | Instance | What it shows |
|---|---|---|
| `spool` | two events, one of them published under two names, up to three records, batch of two; HTTP with one failing write, fsync, acknowledgement and crash; Kafka with values that are no objects or no JSON and two failing acknowledgements and crashes; ASAPO with undecodable payloads; HTTP and ASAPO with cut writes and power losses, HTTP also with a failing fsync and a crash beside them; Kafka with a power loss | `AckedIsSpooled`, `OneLinePerEvent`, `DurableUnlessRestarted`, `LossLeavesATrace`; the consumer implements `DurableSpool`; `EventuallySpooled`: HTTP, and Kafka without a record that is no JSON, spool everything, and call the hook where no acknowledgement failed and no process died |
| `spool_kafka_nospace` (violation) | Kafka, one append fails | "an offset is committed if and only if its event is durably on disk" (kafka.py:12-13) does not hold: the next commit passes the record |
| `trigger` | containers and gate, with one relink, three workers, a gate that fails to start; containers with a failing launch, build and worker start, or with a restart; the gate alone with a failing build | `CheckedWhenQuiet`, `Converged`, `NoNeedlessBuild`, `AttemptFollows`, `EventuallyBuilt`, `ComesToRest` |
| `lock` | two workers and a builder on one host or two, with kernel locks or without | `AtMostOneHolder`, `RefusedOnlyIfHeld` |
| `containers` | two shots, two workers; two changes of the plan, or one and a crash, a failure or a takeover, or a raw file that changes three times | `RequestsServed`, `PassBringsUpToDate`, `RestIsConsistent`, `LateRenameIsEarly` |
| `review` | two campaigns, an ambiguous and an unmatched event, three versions of the inputs; three requests and two builds one at a time; two builders and two requests, or two workers and a builder, interleaved with one death | `EntryIsOfMaster`, `LiveEqualsRebuilt`, `DecisionsShown`, `AnsweredOrLoud` |
| `review_reverts` (violation) | the same | "Serialise read-merge-write updates of one shared catalog" (hzdr_nexus.py:3373) does not hold for requests: an older entry is put back |
| `builds` | routing over two campaigns and the bucket, with a schedule, rulings, half lines, failures; matching with shared and typed numbers, superseded rows, ids and positions that contradict numbers; gates beside builds, with defects in either part of a check | `RoutedOnce`, `NothingDropped`, `AttachedByIdentity`, `AttachmentsStay`, `ResultsAreCurrent` |
| `live` | two subscribers, rows out of order; a table created late; one that drops; a lone one with failing polls | `MetadataIsCurrent`, `AloneGetsAll`, `EventuallyUpToDate` |
| `live_gap` (violation) | the same | the cursor "only has to cover the gap between the snapshot and the subscription opening" (use-proposal.ts:31-32) does not hold: the server never sends what was committed in the gap |
| `shots` | cameras with a shared stem, an ordinal and a name; the same with missing, torn and unreadable files; a recording of three frames in every state; mapping rows that meet taken, blocked and moved targets, or make detector groups of their own; rows at the entry's definition, a text and not one; an instrument without an entry in two folders; rows in every order | `PlanIsOrderFree`, `FramesInPlace`, `DetectorsAccounted`, `RowsAccounted`, `DefinitionStandsAlone`, `MappingOnlyAdds` |
| `nexus` | an export that gains a row, is put in another order, is dropped; a table of DAMNIT's own whose authority takes a number away; colliding names; a campaign nobody names; events without any row, two of one day and number; a row whose number only the other export has | `RowsAgree`, `PreservedKept`, `NothingLingers`, `ClaimedByRecord` |

The violations are disagreements between the code and its own words, recorded
with their lines under `findings`. They are reachable with a single fault, stall
or overlap; how likely each is, is not a question a model answers.

**Bounds.** Each stands in the guard of the one action that would exceed it.

| Run | Bound | Why it is enough to meet the case |
|---|---|---|
| `spool` | `MaxLog` 3, `BatchSize` 2, `MaxFaults` 2, limits in the scene | three records let one event reach two files while another is in the same batch and a third is in the next; one fault of each kind lets any two kinds combine, two of one kind let it repeat |
| `trigger` | `MaxLandings` 2, relinks 1, workers 3, one fault of a kind | the second change can arrive at any await of the build for the first; three workers are the *before* and *after* of a build and one left from the build before |
| `lock` | `Rounds` 2, `MaxAttempts` 1 | a holder that dies and two processes that meet what it left; two rounds of `_acquire` in place of three, because the proofs show that two are enough |
| `containers` | `Versions` 1, `MaxTouches` 1, a budget of two outside events, three if all are changes of a raw file | a shot can lose its acquisition and get it back, which two versions of a plan would not add to; each kind of fault meets a change of plan |
| `review` | 3 requests, 2 builds, 3 versions of the inputs (or 2 + 2 interleaved), one fault | confirm, dismiss and confirm again of one event across a build that takes its candidate away and one that gives it back |
| `builds` | a day is 10 long, tolerance 3; at most three events, five rows, two rulings, one failure | two rows share a number on two days, a row replaces another, an event lies within the tolerance of two |
| `live` | two rows, one edit, two failures, one drop | a row committed between any two reads of a poll, and one committed after a later stamp |
| `shots` | `READ_SLICE` 2, three to five rows | a last slice that is full and one that is not; two events for one acquisition and two acquisitions for one name |
| `nexus` | `MaxValues` 2, three versions of an export | every pair of versions can be what was read and what was copied |

The theorems of section 6 have none of these bounds.

**Symmetry** is used in `lock` (the two workers, the two hosts) and `containers`
(shots, workers): they are interchangeable, the properties quantify over all of
them, and none is a liveness property.

**Deadlock** is not checked: every one of these programs may legitimately stop
for good (producers stop publishing, inputs stop changing, a container is
written once), and each cfg says why.

## 5. Fairness

- `SpoolConsumer`: weak fairness of the loop's own steps together. The loop runs
  while the process does, and compose restarts the process
  (`restart: unless-stopped`). Nothing is assumed of producers, and no fault is
  ever owed. Since faults are finitely many, the loop is eventually left alone.
- `BuilderTrigger`: weak fairness of each coroutine and of each kind of
  subprocess: the event loop runs what is ready, the debounce sleep ends, and
  builders, workers and gates terminate. The code has no timeout on a builder, so
  that builders end is an assumption; a builder that hangs stops the trigger.
  Inputs need not change, workers need not ask for a relink, and nobody owes a
  notification: a hook may be skipped or come arbitrarily late.
- `LiveUpdates`: weak fairness of the poll, of the cache's expiry and of each
  subscriber's tick and delivery: asyncio runs what is ready, and the TTL of a
  second passes. Writers owe nothing.
- `ReviewCatalog` has weak fairness of its processes in `Spec`; no liveness is
  stated of it. `WriterLock` and `ContainerWorker` state none, as a process may
  stall for ever; nor do the modules about content, which are one pass over data.

## 6. What is proved

`tlapm` checks every proof; no step is left open. Assumptions are the named
`ASSUME`s of each module, which TLC evaluates in the runs as well.

*SpoolConsumerProofs*, for every log, batch size, number of faults and transport:

- `TypeCorrect`: `Spec => []TypeOK`. The strengthening is that claimed messages
  are events, and that nothing is left to consume outside a batch.
- `AckedStaysSpooled`, `StagedStaysSpooled`: with no cut write and no power loss
  and, for Kafka, no failing append or fsync (`spool_kafka_nospace` shows why), what is acknowledged, and what
  is remembered, is in a file. `AckedIsSpooled` alone is not inductive: a commit
  covers every record before it, so the invariant also says that whatever lies
  before the reading position is settled or in the present batch and still to
  do, and that the line being fsynced is there.
- `AckedStaysDurable`: and as long as no process died, its line has been
  fsynced. The same invariant carries both: an event is `Sure` if its line is on
  the disk, or, once a restart has remembered lines it never fsynced, in a file.
- `LossesLeaveATrace`: `Spec => []LossLeavesATrace`, also with cut writes and power losses,
  except that a crash and a power loss may not both happen: the next process
  counts lines as spooled that no fsync covered. The invariant above is
  stated so that it carries this too: an event is also sure if a broken line is
  where its own would have to be, and without cut writes there is none
  (`WholeLines`).
- `LoopKeepsPromise`: under the same conditions every step is a step of
  `DurableSpool` or stutters.
- `EventsAreNotRepeated`: `Spec => []OneLinePerEvent`, whatever fails or dies. Besides the
  copies an event has, the invariant (`CopyInv`) counts what entitles it to them:
  an event that is neither remembered nor being written has a line for each
  append whose fsync failed, and no other.

*BuilderTriggerProofs*, for every scene and number of changes:

- `TypeCorrect`.
- `GatesAlternate`: `Spec => []OneGateAtATime`, from `GatesCounted`: a gate is being
  started or runs exactly while `_validating` says so, also after a failed start
  and after a restart.
- `CatalogConverges`: `Spec => []Converged`. The invariant (`BuildsAreFresh`) says
  that without a restart one build runs at a time, and what it has read of each
  source so far is nothing older than what was published.
- `BuildsAreAskedFor`: `Spec => NoNeedlessBuild`: whatever wakes the loop was
  notified since the last build began (`WokenByNotice`).
- `WhatChangedIsChecked`: `Spec => []CheckedWhenQuiet`. A change no gate has seen
  is *owed* one (`ChecksOwed`): a worker still converts, a gate is being started, or
  one runs and another is to follow it. That a gate finds something to check
  takes `Something`: whoever converts, or wakes the loop, has an input behind it.

*PublicationProofs*, of the lock, for every number of processes, hosts, rounds and
acquisitions:

- `TypeCorrect`.
- `Excludes`: `LockSpec => []AtMostOneHolder`. The invariant: from create to unlink a
  process *owns* the path, i.e. the file there is its own and, once written, says
  so; whoever creates, judges or moves holds its host's guard, where there is
  one, and nothing is moved where there is none; and when a process is about to
  move the file, nobody owns the path. The last is what the guard is for: the
  judgment cannot go stale before the rename, because only a process in the guard
  could become an owner (`StaleIsNobodys`, `ExclusionStep`). The tombstone check
  is not needed for it.
- `RefusesForTheLiving`: `LockSpec => RefusedOnlyIfHeld`. In the guard what was seen
  stays true (`Seen`): the path stays free for whoever found it free, the judged
  file goes on saying what it said. So the check of the tombstone always succeeds
  on one host, and the second round always creates.

and of the builds, for any exports, documents and settings of a campaign, in any
order and number:

- `BuildsFaithful`: `Spec => []NexusInv`. None of the four properties is inductive:
  they speak of the output alone, which was written by steps of a build that read
  inputs long replaced. The invariant keeps the build's history in its terms:
  what it has read is what its inputs said (`Begun`), the file in hand is what
  its steps so far make of that on top of the output, which nobody else replaces
  (`InHand`), and the output was made so on top of some earlier one
  (`Published`, with the earlier one existentially quantified). What each step
  reads depends on the scene and on numbers the build wrote down, and so not on
  what happens meanwhile (`ReadSame` and its neighbours).
- `RowsAgreeAlways`: `Spec => []RowsAgree`. `RowsAreOnce` follows the merge
  row by row (`MergedSoFar`): one shot for each identity, every row covered, a
  shot's authority taken from one of its rows, and the first source's shots in
  their places with the numbers and times it gave them. The shot table is written
  behind the copied rows (`RowsAre`), of which the k-th is the k-th merged shot.
- `PreservedKeptAlways`: `Spec => []PreservedKept`. Every group writer `Keeps` the
  rows, the columns and the foreign groups; the two that claim names only take
  names that no foreign group has (`DiagnosticsKeep`, `TablesOf`).
- `NothingLingersAlways`: `Spec => []NothingLingers`. Where the output is not grown,
  staging ignores the earlier output (`StagedIs`), so it may be replaced by `Blank`.
- `ClaimedByRecordAlways`: `Spec => []ClaimedByRecord`. Every event of a build is
  made from one document that arrived (`EventsAre`); an event with the id of an
  envelope without campaign and number is that envelope's, as made-up ids are
  never a producer's (`Owned`); and such an event is resolved only by a row with
  its number (`ResolvedByRow`).

The merge, `Picked` and what is built from them are recursive functions. That
such a function has a value for every length, and what it holds of each prefix,
is proved for each of them by the least number at which it would fail (`Lowest`,
`UpTo`), as the library's induction theorems cannot be used here.

*ContainerWorkerProofs*, for every number of shots, workers and faults:

- `NoRequestIsLost`: `Spec => []RequestsServed`. A marker that is set always has
  somebody who will see it: the holder, or a worker in the outer loop
  (`RequestsAreSeen`). This is what the second look after the release is for.
- `LateRenamesAreEarly`: `Spec => LateRenameIsEarly`. Temps belong to workers about
  to rename, and once a holder's pass has begun only to that holder
  (`TempsAreOwn`), since a pass begins by removing the others'.
- `PassesBringUpToDate`: `Spec => [](SizesTell \/ Smooth => PassBringsUpToDate)`. What
  makes it hard is that records and containers are written apart. `DInv`: without
  a takeover whoever is at work has the lock and its temp (`HoldersOwn`), a
  container was read after its stat and both are no newer than the raw file
  (`PlaceDated`), every record is what some container was written from
  (`AllNoted`), and is of the container in place or of an earlier one
  (`RecordsLag`). So a record that vouches is of a container with the same plan,
  and its stat tells whether the file has changed since. `QInv`: what a clean pass
  has behind it is current (`CleanIsCurrent`).
- `RestStaysConsistent`: `Spec => []RestIsConsistent`. Without faults records are
  exact (`RecordsExact`), what is published has been converted or a pass is owed
  (`FreshOrOwed`), and a container without a link has a writer who will ask for a
  relink, or a build that will see it (`SmoothLinks`).

*CampaignBuildsProofs*, for every set of campaigns, scenes and, with the gate, every
number of gates:

- `EachEventOnce`: `Spec => []RoutedOnce`. What the present run built it would
  still route the same way (`RoutedByTheRun`): rulings and exports are the run's, and
  that each build reads the spools anew does not matter, as where an event goes
  does not depend on the others.
- `OnlyIdentitiesAttach`: `Spec => []AttachedByIdentity` (`EntriesHonest`: every
  entry is what matching gives for some events and rows).
- `AttachmentsAlwaysStay`: `Spec => AttachmentsStay`. Here lies the work about the
  ladder of `_match_event`: a rung that found a row finds it again while the row
  names the event and no new row does (`RungStays`), nothing above it begins to
  match (`Unrivalled`), so the whole ladder ends where it ended (`MatchStays`).
- `NoEventIsDropped`: `Spec => []NothingDropped`. As long as nothing
  has arrived since the last run began, every spooled event is in an entry that
  run built or its campaign has yet to be built (`Covered`); what fails on half
  a line is built again once the line is complete (`FailedForALine`).
- `ResultsAreOfWhatIsPublished`: `GatedSpec => []ResultsAreCurrent`. `GateInv` follows one
  gate from listing to end: its bases are no later than the masters
  (`GateLooks`), a report with its stamp is of a master of its start or of a later
  one (`ReportsOfTheGate`), and once no run is going on, a gate that is not to be
  followed by another has checked each master behind it (`GateKeepsUp`).
- `BuildsBesideTheGate`: the builder's properties hold with the gate beside it.

*LiveUpdatesProofs*, for every set of clients and scenes:

- `TypeCorrect`.
- `MetadataStaysCurrent`: `Spec => []MetadataIsCurrent`. The invariant (`Fresh`):
  whatever is dated as the file is (the poll in flight, the cache, an inbox, the
  last snapshot sent) says what the file says.
- `AloneStaysComplete`: `Spec => []AloneGetsAll`. For a lone subscriber of an orderly
  writer the mark splits the rows: those up to it were sent or are in the one
  snapshot on its way, those above are still to be read.

*ReviewCatalogProofs*, for every number of API processes, builders, campaigns,
events, decisions and faults:

- `MasterAndEntryAgree`: `Spec => []EntryIsOfMaster`. One process holds a
  campaign from its master to its entry (`OneHolder`), one has the catalog's lock
  (`OneMerge`), and the page read under that lock stays current for every key that
  is not noted as cut or reverted (`NumbersCurrent`): a request may write the
  catalog meanwhile, but no entry newer than the published master exists anywhere.
- `LoadedDecisionsShow`: `Spec => []DecisionsShown`. An entry is good or not for a
  master and a sidecar wherever it is, in the catalog, in a request's page or with
  a builder (`GoodEntry`); what the handlers do to it keeps it good (`ChangeKeeps`),
  and so does every write of the sidecar, which only adds lines or makes all of it
  unreadable (`Grown`). So it does not matter which page is written back.
- `NoSilentLoss`: `Spec => []AnsweredOrLoud`, from the same view of the sidecar.
- `HandlersAgreeWithBuilds`: `Spec => []LiveEqualsRebuilt`, for any sequence of
  decisions, edits, builds and changes of the inputs. What a request writes back
  agrees with the sidecar and the decision it will append, and the catalog with
  the sidecar except between those two writes (`OneByOne`). An event whose latest decision is outranked
  is claimed nothing about, but may be decided on again, so the invariant also
  says of every event in review that it is there once, as the inputs have it, and
  attached nowhere (`Whole`). From that, one decision more is shown as a build
  would show it (`ConfirmAgrees`, `DismissAgrees`), and others are not disturbed
  (`OthersShow`).

*ShotContainerProofs*, for every table, slice length and order of rows:

- `SlicesJoinAlways`: the slices read so far are exactly the acquisition rows of
  that part of the table, each with its own columns.
- `PlanIsOrderFreeAlways`: `Spec => []PlanIsOrderFree`, row by row (`RowByRow`): which
  acquisitions there are, which files each has, and its time as a least element,
  each said with quantifiers over the set of rows taken.
- `FramesStayInPlace`: `Spec => []FramesInPlace`. A stack holds one flag for each frame
  so far and, from the first that reads, one place each (`Holding`); a frame that
  cannot be read costs a place and no more. The plan is settled before anything
  is written (`Settled`), so the frames being streamed are those of the property.
- `MappingAddsOnly`: `Spec => MappingOnlyAdds`. A container is a tree of paths, some
  of which are second names of one object. `Sound` says that each path names an
  object by a path of its own; packs keep it although they remove the groups of
  omitted acquisitions, because the only second names they give are those of
  their plots, within one detector (`PlotsOnly`, `Writable`). What a row, an
  `EnsureSubentry`, a stamp or the claim of a definition make of a container
  `Follows` it, which is transitive, so that a whole `apply_to` does.
- `EveryRowIsAccounted`: `Spec => []RowsAccounted`. Each row done so far stands in
  the container or was said (`SoFar`), by itself or with its mapping. It goes on standing as the container only
  grows, and the one line that replaces the start_time lines is there exactly when
  the shot has no start_time (`Mapped`).
- `DefinitionsStandAlone`: `Spec => []DefinitionStandsAlone` (`ClaimsFit`), whatever rows the mapping
  files have and wherever they place them. Until the rows are applied nothing is
  claimed, as packs make no definition. Rows make objects without one and link those
  there are, and an object keeps what it claims; so a claim is made only where
  `EnsureSubentry` makes a subentry for its row's detector, where a detector's own
  mapping is recorded on it, and where the entry is claimed. Each of these is in the
  name of a detector kept, which is of a planned acquisition (`KeptDetectors`); the
  entry is claimed only where all of them are of one instrument, thus of one mapping.
- `DetectorsAreAccounted`: `Spec => []DetectorsAccounted`. While packs write, the
  detector groups are those of the acquisitions kept and of the one being streamed
  (`Laid`), and every machine has one of them (`Roofed`), because a pack puts neither class
  into what it writes and a detector that goes takes a bare machine along. Every
  acquisition is tried once, the earlier of two first (`Tried`, `InOrder`); one has a
  tail only where its plain name was taken before (`PlainFirst`). That a free name is
  left is a pigeonhole: there are more tails than acquisitions, and one acquisition at
  least is still to be tried (`RoomLeft`, `NewPath`). It uses `RowsAssumption` and, through
  names that are settled when an acquisition is founded (`Founding`),
  `NumeralsAssumption`.

The type invariants, `StagedIsSpooled`, `OneGateAtATime` and `SlicesJoin` are
proved and for that reason not repeated in the runs.

**Model-checked only.** Every safety property of a passing run is proved.
Liveness (`EventuallySpooled`, `EventuallyBuilt`, `AttemptFollows`, `ComesToRest`,
`EventuallyUpToDate`) stays with TLC: the prover has no rules for fairness and
`ENABLED`. So does what the community modules' folds compute for all inputs (the sums and
concatenations of `DiagnosticPacks` and of the products): their definitions
give the prover no step to argue by. No module here declares a `RECURSIVE` operator.

## 7. Abstractions, and what is not modelled

Section 3 names each module's own. Common to all:

- A message is its identity and what it is matched by; JSON, hashing, file names
  and wording are left out, except that a fragment and the line behind it make
  one unreadable line.
- One partition and one consumer process per group, one API process with one
  trigger, as deployed. `review` has two processes that serve requests.
- The composition of parts is by their files and exit codes. The builder is one
  read per source in BuilderTrigger, one step per campaign in CampaignBuilds, one
  per file operation in ReviewCatalog and NexusBuild, and a version number in
  ContainerWorker. That the circle worker -> relink -> build -> worker ends is
  checked in `trigger`, with a bounded number of relinks.
- What a worker does to `shots/` is one bit in BuilderTrigger, `unchecked`:
  something changed since the last gate began.
- PIDs are taken to be told apart by their start time (Linux); the clock skew
  between host and file server is covered by letting a file become old at any
  time.

Not modelled, with the reason in `PROJECT.json`: source readers, monitoring and
GraphQL queries read and keep nothing; context files are one overwrite per save
behind two caches; saved views are one more file that a request reads, changes and
writes back whole, and nothing depends on it; authentication, MyMdC and settings belong to libraries and
services; the frontend renders; other scripts are run by hand. The HELPMI and openPMD
writers lay out attributes of what the packs have written.

## 8. Running it

```
tlc -workers 2 -config spool.cfg MCSpoolConsumer.tla
tlc -workers 2 -config spool_kafka_nospace.cfg MCSpoolConsumer.tla
tlc -workers 2 -config trigger.cfg MCBuilderTrigger.tla
tlc -workers 2 -config lock.cfg MCWriterLock.tla
tlc -workers 2 -config containers.cfg MCContainerWorker.tla
tlc -workers 2 -config review.cfg MCReviewCatalog.tla
tlc -workers 2 -config review_reverts.cfg MCReviewCatalog.tla
tlc -workers 2 -config builds.cfg MCCampaignBuilds.tla
tlc -workers 2 -config live.cfg MCLiveUpdates.tla
tlc -workers 2 -config live_gap.cfg MCLiveUpdates.tla
tlc -workers 2 -config shots.cfg MCShotContainer.tla
tlc -workers 2 -config nexus.cfg MCNexusBuild.tla
tlapm SpoolConsumerProofs.tla
tlapm BuilderTriggerProofs.tla
tlapm PublicationProofs.tla
tlapm ContainerWorkerProofs.tla
tlapm CampaignBuildsProofs.tla
tlapm LiveUpdatesProofs.tla
tlapm ReviewCatalogProofs.tla
tlapm ShotContainerProofs.tla
```

Definitions marked `(mutant)` or `Mutant of` are plausible bugs, each standing
before the definition it would replace; `PROJECT.json` names, for every property
of a passing run, one that the property catches.
