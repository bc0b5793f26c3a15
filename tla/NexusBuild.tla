----------------------------- MODULE NexusBuild -----------------------------
(***************************************************************************)
(* NexusBuild: builds of one campaign's NeXus file from everything known   *)
(* of it (build of hzdr-hdf5-builder.py).  A build reads the event files   *)
(* and LabFrog's exports, reconciles them, looks into the NeXus export for *)
(* arrays, takes the writer lock, copies the export and adds its own       *)
(* groups to the copy, which replaces the output at the end.  Meanwhile    *)
(* documents arrive and LabFrog replaces its exports, so that one build    *)
(* may read three different exports of one name.                           *)
(***************************************************************************)
EXTENDS EventIntake, MasterFile

CONSTANT Scenes     \* what a campaign is configured with and what can arrive

\* A row of a compact export is a record of its own (mongo_id is LabFrog's primary
\* key, hzdr-local-acceptance.py:75), and what carries a producer's event_id is one
\* event, however often it is sent.
IsSequence(s) == s \in Seq({s[i] : i \in DOMAIN s})
IsTable(rows) ==
    /\ IsSequence(rows)
    /\ \A i, j \in DOMAIN rows : i # j => Identity(NexusShot(rows[i])) # Identity(NexusShot(rows[j]))
SameEvent(d, e) ==
    /\ d.id # NoId => d.id[1] = "given"
    /\ e.form \in {"envelope", "legacy"} /\ e.id = d.id =>
          e.campaign = d.campaign /\ e.number = d.number
    /\ e.form = "event" /\ e.event.id = d.id =>
          e.event.campaign = d.campaign /\ e.event.number = d.number

ASSUME ScenesOK ==
    \A s \in Scenes :
        /\ IsSequence(s.exports) /\ IsSequence(s.curated) /\ IsSequence(s.mongo) /\ IsSequence(s.arrivals)
        /\ s.first.exported \in 0 .. Len(s.exports) /\ s.first.curated \in 0 .. Len(s.curated)
        /\ \A n \in DOMAIN s.exports : IsTable(s.exports[n].rows)
        /\ \A n \in DOMAIN s.curated : IsFiniteSet(s.curated[n].rows)
        /\ \A k \in DOMAIN s.arrivals :
              s.arrivals[k].form = "event" => {"id", "campaign", "number"} \subseteq DOMAIN s.arrivals[k].event
        /\ \A k, l \in DOMAIN s.arrivals :
              s.arrivals[k].form = "envelope" => SameEvent(s.arrivals[k], s.arrivals[l])

VARIABLES
    scene,      \* explicit, stem, config, autoassign, seeds; exports, curated, mongo, arrivals; budgets
    arrived,    \* number of documents in the input files
    exported,   \* the NeXus export in place, 0 for none
    curated,    \* the SQLite export in place, 0 for none
    build,      \* the build going on
    output,     \* the campaign's file
    made        \* the inputs it was made from

inputs == <<arrived, exported, curated>>
vars == <<scene, inputs, build, output, made>>

Inputs == [arrived |-> arrived, exported |-> exported, curated |-> curated, staged |-> exported]
NoBuild == [at |-> "idle", read |-> <<>>, products |-> <<>>, file |-> Blank, from |-> <<>>]
NoRulings == [n \in {} |-> ""]
-----------------------------------------------------------------------------
(* What a build reads: i is the state of the inputs. *)

ExportAt(n) == scene.exports[n]
NexusRows(i) == IF i.exported = 0 THEN <<>> ELSE NexusShots(ExportAt(i.exported).rows)
SqliteRows(i) == IF i.curated = 0 THEN <<>> ELSE SqliteShots(scene.curated[i.curated])
AllRows(i) == NexusRows(i) \o SqliteRows(i) \o MongoShots(scene.mongo)
LabFrogShots(i) == MergeShots(AllRows(i))
DocsOf(i) == SubSeq(scene.arrivals, 1, i.arrived)
Stem(i) == IF i.exported = 0 THEN "" ELSE scene.stem

EventsOf(i) == Events(DocsOf(i), scene.explicit, LabFrogShots(i), Stem(i))
ExperimentOf(i) == SelectExperiment(scene.explicit, EventsOf(i), LabFrogShots(i), Stem(i))
Legible(i) ==
    /\ Readable(DocsOf(i), scene.explicit, LabFrogShots(i), Stem(i))
    /\ ExperimentOf(i) # ""
    /\ \A k \in DOMAIN LabFrogShots(i) : LabFrogShots(i)[k].number # Unknown

(* reconcile_canonical_shots *)
RowsIn(shots, campaign) == {[AsRow(shots[k]) EXCEPT !.campaign = campaign] : k \in DOMAIN shots}
Resolved(events, rows) ==
    [k \in DOMAIN events |-> [events[k] EXCEPT !.campaign = Resolve(events[k], rows, {}, NoRulings)]]
Selected(events, rows, campaign) ==
    LET resolved == Resolved(events, rows)
    IN  FirstOfEach(Picked(resolved, {k \in DOMAIN resolved : resolved[k].campaign = campaign}))

Attached(verdicts, e) == verdicts[e].shots
Listed(e, verdicts) ==
    Over([key |-> IF Attached(verdicts, e) = {} THEN <<>> ELSE (CHOOSE s \in Attached(verdicts, e) : TRUE).key,
          status |-> verdicts[e].quality], e)

(* The meta of a shot: its row's, under its events', block by block. *)
Blocks == {"laser", "target", "vacuum", "diagnostic"}
EventMeta(events) == FoldLeft(LAMBDA m, e : e.meta @@ m, <<>>, events)
MergeMeta(row, sent) ==
    [name \in DOMAIN row \cup DOMAIN sent |->
        IF name \in Blocks /\ name \in DOMAIN row \cap DOMAIN sent THEN sent[name] @@ row[name]
        ELSE IF name \in DOMAIN sent THEN sent[name] ELSE row[name]]

Fired(events, time) ==
    LET times == {events[k].time : k \in DOMAIN events} \ {Unknown}
    IN  IF times = {} THEN time ELSE Least(times)

CanonicalRow(s, campaign, events) ==
    [key |-> KeyOf(campaign, s.day, s.number), record |-> s.record, number |-> s.number,
     time |-> s.time, fired |-> Fired(events, s.time), source |-> "labfrog",
     meta |-> MergeMeta(s.meta, EventMeta(events))]
CanonicalFounded(f, campaign, events) ==
    [key |-> f.key, record |-> "", number |-> f.key[3], time |-> Unknown,
     fired |-> Fired(events, Unknown), meta |-> EventMeta(events),
     source |-> IF campaign = Unassigned THEN "unassigned" ELSE "producer"]

(* _labfrog_source_event: every row is an event of its own. *)
RowEvent(s, shot, campaign) ==
    [id |-> IF s.record # "" THEN <<"labfrog", s.record>> ELSE <<"labfrog">> \o shot.key,
     source |-> "labfrog", campaign |-> campaign, number |-> s.number, local |-> Unknown,
     shotId |-> ShotId(s.number), time |-> Else(s.time, shot.fired, Unknown), position |-> Unknown,
     notes |-> {}, kind |-> <<"shotsheet.row">>, transport |-> "nexus", ref |-> <<>>,
     values |-> {}, instrument |-> "", meta |-> <<>>, key |-> shot.key, status |-> "canonical"]

Founded(result, rows) == {s \in result.shots : s.row = "-"}
(* By day and number; what is left is in the order of the events. *)
InKeyOrder(founded, events, verdicts) ==
    LET first(s) == Least({k \in DOMAIN events : s \in Attached(verdicts, events[k])})
    IN  Listing(founded, LAMBDA a, b :
            \/ a.key[2] < b.key[2]
            \/ a.key[2] = b.key[2] /\ a.key[3] < b.key[3]
            \/ a.key = b.key /\ first(a) < first(b))

(* The shots and events of a build: LabFrog's rows in their order, then the  *)
(* shots that were founded; the events, then LabFrog's rows as events.       *)
Reconciled(shots, events, campaign) ==
    LET rows == RowsIn(shots, campaign)
        mine == Selected(events, rows, campaign)
        result == Reconcile(ToSet(mine), rows, campaign, scene.autoassign)
        of(shot) == Picked(mine, {k \in DOMAIN mine : shot \in Attached(result.verdicts, mine[k])})
        row(k) == RowShot(campaign, [AsRow(shots[k]) EXCEPT !.campaign = campaign])
        canonical == [k \in DOMAIN shots |-> CanonicalRow(shots[k], campaign, of(row(k)))]
        added == InKeyOrder(Founded(result, rows), mine, result.verdicts)
    IN  [shots |-> canonical \o [k \in DOMAIN added |-> CanonicalFounded(added[k], campaign, of(added[k]))],
         events |-> [k \in DOMAIN mine |-> Listed(mine[k], result.verdicts)]
                    \o [k \in DOMAIN shots |-> RowEvent(shots[k], canonical[k], campaign)]]

ReadAll(i) == Reconciled(LabFrogShots(i), EventsOf(i), ExperimentOf(i))

(* Products: of the events of each shot, and of the export's arrays. *)
EventProducts(read) ==
    FlattenSeq([k \in DOMAIN read.shots |->
        FlattenSeq([j \in DOMAIN read.events |->
            IF read.events[j].key = read.shots[k].key /\ read.events[j].source # "labfrog"
            THEN ProductsOf(read.events[j]) ELSE <<>>])])
Arrays(read, n) ==
    IF n = 0 THEN <<>> ELSE ArrayProducts(ExportAt(n).arrays, Len(ExportAt(n).rows), read.shots)
-----------------------------------------------------------------------------
SourceFile(n) == ExportFile(ExportAt(n).rows, ExportAt(n).groups)
StagedFrom(n, last) == Staged(n # 0, IF n = 0 THEN Blank ELSE SourceFile(n), last, scene.seeds)
WithShots(f, read) == ShotTable(Semantics(f, read.shots, scene.config), read.shots)

Init ==
    /\ scene \in Scenes
    /\ arrived = 0 /\ exported = scene.first.exported /\ curated = scene.first.curated
    /\ build = NoBuild /\ output = Blank /\ made = <<>>

Arrive ==
    /\ arrived < Len(scene.arrivals)
    /\ arrived' = arrived + 1
    /\ UNCHANGED <<scene, exported, curated, build, output, made>>

(* LabFrog replaces an export by its next; none is taken away but by the     *)
(* builder's configuration.                                                  *)
ReplaceExport ==
    /\ exported # 0 /\ exported < Len(scene.exports)
    /\ exported' = exported + 1
    /\ UNCHANGED <<scene, arrived, curated, build, output, made>>
ReplaceCurated ==
    /\ curated # 0 /\ curated < Len(scene.curated)
    /\ curated' = curated + 1
    /\ UNCHANGED <<scene, arrived, exported, build, output, made>>
DropSource ==
    /\ scene.drops /\ exported # 0
    /\ exported' = 0
    /\ UNCHANGED <<scene, arrived, curated, build, output, made>>

At(phase) == build.at = phase
Abandon == build' = NoBuild /\ UNCHANGED <<scene, inputs, output, made>>

Gather ==
    /\ At("idle") /\ made # Inputs
    /\ Legible(Inputs)
    /\ build' = [NoBuild EXCEPT !.at = "gathered", !.read = ReadAll(Inputs), !.from = Inputs]
    /\ UNCHANGED <<scene, inputs, output, made>>

Discover ==
    /\ At("gathered")
    /\ build' = [build EXCEPT !.at = "discovered",
                    !.products = EventProducts(build.read)
                                 \o Arrays(build.read, IF build.from.exported = 0 THEN 0 ELSE exported)]
    /\ UNCHANGED <<scene, inputs, output, made>>

Stage ==
    /\ At("discovered")
    /\ LET n == IF build.from.exported = 0 THEN 0 ELSE exported
       IN  build' = [build EXCEPT !.at = "staged", !.file = StagedFrom(n, output), !.from.staged = n]
    /\ UNCHANGED <<scene, inputs, output, made>>

WriteShots ==
    /\ At("staged") /\ Extends(build.file, build.read.shots)
    /\ build' = [build EXCEPT !.at = "shots", !.file = WithShots(@, build.read)]
    /\ UNCHANGED <<scene, inputs, output, made>>
RefuseShots == At("staged") /\ ~Extends(build.file, build.read.shots) /\ Abandon

WriteTables ==
    /\ At("shots") /\ Indexable(build.file, build.read.events)
    /\ build' = [build EXCEPT !.at = "tables", !.file = Tables(@, build.read.events, build.products)]
    /\ UNCHANGED <<scene, inputs, output, made>>
RefuseNames == At("shots") /\ ~Indexable(build.file, build.read.events) /\ Abandon

Publish ==
    /\ At("tables")
    /\ output' = build.file /\ made' = build.from /\ build' = NoBuild
    /\ UNCHANGED <<scene, inputs>>

(* A write fails, or the builder dies: the output stays as it was. *)
Fail == build.at \in {"staged", "shots", "tables"} /\ Abandon

Build == Gather \/ Discover \/ Stage \/ WriteShots \/ RefuseShots \/ WriteTables \/ RefuseNames \/ Publish
Next == Arrive \/ ReplaceExport \/ ReplaceCurated \/ DropSource \/ Build \/ Fail
Spec == Init /\ [][Next]_vars
-----------------------------------------------------------------------------
(* Properties *)

Gathered == build.at # "idle"
Built == made # <<>>
\* The export a build copied is the one it had read, and one it had not read before.
Undisturbed == Built /\ made.staged = made.exported
FromSource == Undisturbed /\ made.exported # 0
Grown == output.owner = "labfrog" /\ made.staged = 0

\* Each shot LabFrog has in any of its exports is taken once, in the order of the
\* first, and has an authority's number only if some export gives it one
\* (merge_labfrog_shots; ruling R3 at hzdr_nexus.py:1345).
RowsOnce ==
    Gathered =>
        LET shots == LabFrogShots(build.from)
            rows == AllRows(build.from)
        IN  /\ \A i, j \in DOMAIN shots : i # j => Identity(shots[i]) # Identity(shots[j])
            /\ \A r \in DOMAIN rows : \E i \in DOMAIN shots : Identity(shots[i]) = Identity(rows[r])
            /\ \A i \in DOMAIN shots : shots[i].authority # Unknown =>
                  \E r \in DOMAIN rows : /\ Identity(rows[r]) = Identity(shots[i])
                                         /\ rows[r].authority = shots[i].authority
            /\ \A i, j \in DOMAIN NexusRows(build.from) : i < j =>
                  \E k, l \in DOMAIN shots :
                     /\ k <= l
                     /\ Identity(shots[k]) = Identity(NexusRows(build.from)[i])
                     /\ Identity(shots[l]) = Identity(NexusRows(build.from)[j])

\* So they are gathered, and in a published file every row of /entry/shots is one shot: LabFrog's columns and
\* DAMNIT's, row by row (write_nexus_bridge).  Not where an export was replaced
\* between the read and the copy, nor where an old output was grown.
RowsAgree ==
    /\ RowsOnce
    /\ Undisturbed /\ ~Grown =>
        /\ Len(output.rows) = Len(output.columns)
        /\ \A i \in DOMAIN output.rows :
              /\ output.rows[i].number \in {None, output.columns[i].key[3]}
              /\ output.rows[i].time \in {None, output.columns[i].time}

\* What LabFrog's file had is all there: its rows at their places, its groups
\* (_extend_preserved_shot_table; "preserved content is never overwritten").
PreservedKept ==
    FromSource =>
        LET source == SourceFile(made.staged)
        IN  /\ SubSeq(output.rows, 1, Len(source.rows)) = source.rows
            /\ source.foreign \subseteq output.foreign
            /\ output.foreign \cap (DOMAIN output.diagnostics \cup DOMAIN output.indexes) = {}

\* A published file says what its inputs say and nothing an earlier build left
\* ("unseeded, every build is written like the first one", hzdr_nexus.py:2172).
FirstBuild(i) ==
    LET read == ReadAll(i)
        f == WithShots(StagedFrom(i.staged, Blank), read)
    IN  Tables(f, read.events, output.products)
NothingLingers == Built /\ ~Grown => output = FirstBuild(made)

\* A trigger that did not know its campaign is in a campaign's file only because a row
\* of that campaign has its number (_selected_trigger_experiment: no build claims the
\* shared spool).
ClaimedByRecord ==
    Built =>
        LET shots == LabFrogShots(made)
        IN  \A k \in DOMAIN DocsOf(made), j \in DOMAIN output.events :
               LET d == DocsOf(made)[k]
               IN  /\ d.form = "envelope" /\ d.campaign = Unassigned
                   /\ output.events[j].id = d.id
                   => \/ output.events[j].campaign = Unassigned
                      \/ \E i \in DOMAIN shots : shots[i].authority = d.number
=============================================================================
