---------------------------- MODULE ShotContainer ----------------------------
(***************************************************************************)
(* Writing one shot's container (hzdr_containers.py: _write_shot and what  *)
(* it calls): the shot's own fields, then each planned acquisition by its  *)
(* pack into a detector group, named as its instrument's catalogue entry   *)
(* says, then the reviewed mapping rows over what is there.                *)
(*                                                                         *)
(* The container is the tree of MappingRows; its temporary name, fsync and *)
(* rename are ContainerWorker's.                                           *)
(***************************************************************************)
EXTENDS ShotPlanning, Sequences, TLC

CONSTANTS
    Camera,   \* the pack of a camera's frame and CSV
    Numbered  \* the pack of frames numbered by set, or by recording

Packs == INSTANCE DiagnosticPacks
Rules == INSTANCE MappingRows

VARIABLES
    phase,     \* "plan", "write", "frames", "map", "closed"
    container, \* the tree and its objects
    written,   \* the shot's acquisitions already tried
    at,        \* the acquisition being written, and its detector's path
    stack,     \* the recording being streamed
    kept,      \* the detectors kept: path, instrument, acquisition
    omitted,   \* acquisitions left out
    result,    \* what could not be converted
    row,       \* the next mapping row: its detector in kept, its number,
               \* and what the mapping being applied said so far
    inside,    \* the current mapping wrote in its detector's subentry
    notes      \* what the mappings applied said

writeVars == <<phase, container, written, at, stack, kept, omitted, result, row, inside, notes>>
vars == <<planVars, writeVars>>

Shot == scene.shot

(* The mapping files of a campaign, read as lists of rows. *)
ASSUME MappingsAssumption ==
    \A s \in Scenes : \A i \in DOMAIN s.mappings : s.mappings[i].rows \in Seq(Rules!RowType)

(* An event lists finitely many files, and instruments sort as their ids. *)
ASSUME RowsAssumption ==
    \A s \in Scenes : \A t \in s.tables : \A i \in DOMAIN t :
        /\ IsFiniteSet(DOMAIN t[i].files)
        /\ DOMAIN t[i].files \subseteq DOMAIN s.files
        /\ s.rank[InstrumentId(t[i])] \in Int

-----------------------------------------------------------------------------
(* Names of groups. *)

RESERVED_ENTRY_NAMES == {"title", "start_time", "definition", "data", "labfrog_shot"}

(* Taking the tail makes any reserved name a free one. *)
ASSUME TailAssumption ==
    \A n \in RESERVED_ENTRY_NAMES : n \o "_instrument" \notin RESERVED_ENTRY_NAMES

Safe(name) == IF name \in DOMAIN scene.safe THEN scene.safe[name] ELSE name

Or(a, b) == IF a # "" THEN a ELSE b

(* The layout of an instrument: its catalogue entry, or its own name. *)
Layout(i, label) ==
    IF Catalogued(i) THEN scene.catalogue[i]
    ELSE [group |-> "", instrument_name |-> label, display |-> "", detector_name |-> "", role |-> ""]

InstrumentName(i, label) ==
    LET layout == Layout(i, label) IN Or(Or(layout.instrument_name, layout.display), label)

(* With a family the machine is the family; without one the instrument is its own. *)
Machine(i, label) ==
    LET layout == Layout(i, label)
        name == Safe(Or(layout.group, InstrumentName(i, label)))
    IN  IF name \in RESERVED_ENTRY_NAMES THEN name \o "_instrument" ELSE name

Detector(i, label) ==
    LET layout == Layout(i, label)
        name == IF layout.group # "" THEN Safe(InstrumentName(i, label))
                ELSE Safe(Or(layout.detector_name, "detector"))
    IN  IF name = "name" THEN "name_detector" ELSE name

(* A second acquisition takes its ordinal, or its key; then a number. *)
Suffix(p) == IF acquisitions[p].seq # None THEN ToString(acquisitions[p].seq)
           ELSE Safe(p[3][Len(p[3])])

Tailed(name, tail, n) == name \o "_" \o tail \o (IF n = 1 THEN "" ELSE "_" \o ToString(n))

DetectorPath(tree, p) ==
    LET i == p[2]
        machine == <<"entry", Machine(i, acquisitions[p].label)>>
        plain == Append(machine, Detector(i, acquisitions[p].label))
        tailed(n) == Append(machine, Tailed(Detector(i, acquisitions[p].label), Suffix(p), n))
        free == {n \in 1 .. (Cardinality(DOMAIN acquisitions) + 1) : tailed(n) \notin DOMAIN tree}
    IN  IF plain \notin DOMAIN tree THEN plain
        ELSE tailed(CHOOSE n \in free : \A m \in free : n <= m)

(* Names detectors can have, and what is put after them; the files rows list. *)
DetectorNames(s) ==
    {"detector", "name_detector"}
    \cup (UNION {{e.instrument_name, e.display, e.detector_name} :
                    e \in {s.catalogue[i] : i \in DOMAIN s.catalogue}})
    \cup (UNION {UNION {{t[i].watch_name, InstrumentId(t[i])} : i \in DOMAIN t} : t \in s.tables})
    \cup {s.safe[name] : name \in DOMAIN s.safe}

Tails(s) ==
    (UNION {{ToString(f.seq), f.stem, f.label} : f \in {s.files[path] : path \in DOMAIN s.files}})
    \cup {s.safe[name] : name \in DOMAIN s.safe}

Fed(t) == UNION {{<<i, path>> : path \in DOMAIN t[i].files} : i \in DOMAIN t}

(* Different numbers make different names. *)
ASSUME NumeralsAssumption ==
    \A s \in Scenes : \A size \in {Cardinality(Fed(t)) : t \in s.tables} :
        \A name \in DetectorNames(s), tail \in Tails(s) : \A m, n \in 1 .. (size + 1) :
            Tailed(name, tail, m) = Tailed(name, tail, n) => m = n

-----------------------------------------------------------------------------
(* The order acquisitions are written in. *)

Planning == {p \in DOMAIN acquisitions : p[1] = Shot}

Rank(x) == scene.rank[x]

KeyBefore(k, l) ==
    \E n \in DOMAIN k \cap DOMAIN l :
        Rank(k[n]) < Rank(l[n]) /\ \A m \in 1 .. (n - 1) : k[m] = l[m]

(* By instrument, then time (none last), then key. *)
Before(p, q) ==
    LET t == acquisitions[p].when
        u == acquisitions[q].when
    IN  \/ Rank(p[2]) < Rank(q[2])
        \/ p[2] = q[2] /\ t # 0 /\ (u = 0 \/ t < u)
        \/ p[2] = q[2] /\ t = u /\ KeyBefore(p[3], q[3])

(* The files of an acquisition, sorted by their recorded path. *)
SortedFiles(p) ==
    LET paths == DOMAIN acquisitions[p].files
        place(f) == Cardinality({g \in paths : Rank(g) <= Rank(f)})
    IN  [n \in 1 .. Cardinality(paths) |-> scene.files[CHOOSE f \in paths : place(f) = n]]

-----------------------------------------------------------------------------
(* The container's parts. *)

Entry == <<"entry">>

With(c, path, class) == Rules!Create(c, path, Rules!Object(class))

(* The datasets of a detector, each with the groups above it; an empty set *)
(* of fields leaves the container as it is.                                *)
Fields(c, detector, fields) ==
    LET datasets == {detector \o f : f \in fields}
        groups == UNION {{p \in Rules!Ancestors(d) : p \notin DOMAIN c.tree} : d \in datasets}
        new == datasets \cup groups
    IN  [tree |-> [p \in DOMAIN c.tree \cup new |-> IF p \in new THEN p ELSE c.tree[p]],
         objects |-> [o \in DOMAIN c.objects \cup new |->
             IF o \in datasets THEN Rules!Object("data")
             ELSE IF o \in groups THEN Rules!Object("NXcollection") ELSE c.objects[o]]]

(* The NXdata of a plot: a link to its signal, the detector's default. *)
Plot(c, detector, signal) ==
    LET data == Append(detector, "data")
        made == Rules!Create(c, data, [Rules!Object("NXdata") EXCEPT
                                          !.signal = c.tree[detector \o signal]])
    IN  Rules!HardLink(made, Append(data, signal[Len(signal)]), detector \o signal)

Filled(c, detector, wrote) ==
    LET c1 == Fields(c, detector, wrote.arrays \cup wrote.values)
    IN  IF wrote.plot = None THEN c1 ELSE Plot(c1, detector, wrote.plot)

(* Mutant: the machine of a detector left out stays. *)
RemovedAlone(c, detector) ==
    [c EXCEPT !.tree = [p \in {q \in DOMAIN c.tree : ~Rules!IsPrefix(detector, q)} |-> c.tree[p]]]

(* A detector with nothing readable goes, and its machine with the last. *)
Removed(c, detector) ==
    LET machine == Rules!Parent(detector)
        left == {p \in DOMAIN c.tree : ~Rules!IsPrefix(detector, p)}
        bare == {p \in left : Rules!Inside(p, machine)} \subseteq {Append(machine, "name")}
    IN  [c EXCEPT !.tree = [p \in (IF bare THEN {q \in left : ~Rules!IsPrefix(machine, q)}
                                   ELSE left) |-> c.tree[p]]]

-----------------------------------------------------------------------------
(* Actions. *)

ShotRow == IF Shot \in DOMAIN scene.shots THEN scene.shots[Shot]
           ELSE [fired_at |-> FALSE, labfrog |-> FALSE]

(* The shot's own fields, from its row of /entry/shots. *)
Opened ==
    LET c0 == [tree |-> [p \in {Entry} |-> Entry],
               objects |-> [o \in {Entry} |-> Rules!Object("NXentry")]]
        c1 == With(c0, <<"entry", "title">>, "data")
        c2 == IF ShotRow.fired_at THEN With(c1, <<"entry", "start_time">>, "data") ELSE c1
    IN  IF ShotRow.labfrog THEN With(c2, <<"entry", "labfrog_shot">>, "NXcollection") ELSE c2

Open ==
    /\ phase = "plan"
    /\ Planned
    /\ Shot \in with_files
    /\ phase' = "write"
    /\ container' = Opened
    /\ result' = {[about |-> n.about, why |-> n.kind] : n \in {m \in problems : m.shot = Shot}}
    /\ UNCHANGED <<planVars, written, at, stack, kept, omitted, row, inside, notes>>

Missing(files) ==
    {[about |-> f.path, why |-> "missing file"] :
        f \in {files[n] : n \in {m \in DOMAIN files : files[m].state = "missing"}}}

(* The detector's group, and the machine it is under. *)
Grouped(c, path) ==
    LET machine == Rules!Parent(path)
        c1 == IF machine \in DOMAIN c.tree THEN c
              ELSE With(With(c, machine, "NXinstrument"), Append(machine, "name"), "data")
    IN  With(With(c1, path, "NXdetector"), Append(path, "local_name"), "data")

(* Which file, from where, on what clock. *)
Described(c, path) ==
    With(With(c, Append(path, "timing_role"), "data"), Append(path, "file_metadata"), "NXnote")

(* Nothing readable: the detector is left out; else it is kept. *)
Finish(c, p, path, wrote, says) ==
    LET keeps == Packs!Keeps(wrote)
        filled == Filled(c, path, wrote)
    IN  /\ container' = IF keeps THEN Described(filled, path) ELSE Removed(filled, path)
        /\ kept' = IF keeps THEN Append(kept, [path |-> path, instrument |-> p[2], of |-> p])
                   ELSE kept
        /\ omitted' = IF keeps THEN omitted ELSE omitted \cup {p}
        /\ result' = result \cup says \cup {[about |-> p[2], why |-> w] : w \in wrote.says}
              \cup (IF keeps THEN {} ELSE {[about |-> p[2], why |-> "detector omitted"]})
        /\ written' = written \cup {p}

IsRecording(p, files) ==
    acquisitions[p].pack = Numbered /\ Len(Packs!Frames(files)) > 1

(* One acquisition whose pack writes it at once. *)
WriteAcquisition(p) ==
    LET path == DetectorPath(container.tree, p)
        files == SortedFiles(p)
        pack == acquisitions[p].pack
        wrote == CASE pack = Camera -> Packs!CameraWrites(files)
                   [] pack = Spectrometer -> Packs!SpectrometerWrites(files)
                   [] OTHER -> Packs!SequenceWrites(files, acquisitions[p].seq, Packs!EmptyStack)
    IN  /\ phase = "write"
        /\ p \in Planning \ written
        /\ \A q \in Planning \ (written \cup {p}) : Before(p, q)
        /\ ~IsRecording(p, files)
        /\ Finish(Grouped(container, path), p, path, wrote, Missing(files))
        /\ UNCHANGED <<planVars, phase, at, stack, row, inside, notes>>

(* A recording is streamed: its group first, then frame after frame. *)
OpenRecording(p) ==
    LET path == DetectorPath(container.tree, p)
        files == SortedFiles(p)
    IN  /\ phase = "write"
        /\ p \in Planning \ written
        /\ \A q \in Planning \ (written \cup {p}) : Before(p, q)
        /\ IsRecording(p, files)
        /\ phase' = "frames"
        /\ at' = [of |-> p, path |-> path]
        /\ stack' = Packs!EmptyStack
        /\ container' = Grouped(container, path)
        /\ UNCHANGED <<planVars, written, kept, omitted, result, row, inside, notes>>

FramesAt == Packs!InFrameOrder(SortedFiles(at.of))

StreamFrame ==
    /\ phase = "frames"
    /\ stack.length < Len(FramesAt)
    /\ stack' = Packs!Stacked(stack, FramesAt[stack.length + 1])
    /\ UNCHANGED <<planVars, phase, container, written, at, kept, omitted, result, row, inside,
                   notes>>

FinishRecording ==
    LET files == SortedFiles(at.of)
    IN  /\ phase = "frames"
        /\ stack.length = Len(FramesAt)
        /\ Finish(container, at.of, at.path,
                  Packs!SequenceWrites(files, acquisitions[at.of].seq, stack), Missing(files))
        /\ phase' = "write"
        /\ UNCHANGED <<planVars, at, stack, row, inside, notes>>

(* Every detector is written: now the mapping rows, detector by detector. *)
StartMapping ==
    /\ phase = "write"
    /\ written = Planning
    /\ phase' = "map"
    /\ row' = [of |-> 1, n |-> 1, says |-> {}]
    /\ UNCHANGED <<planVars, container, written, at, stack, kept, omitted, result, inside, notes>>

MappingOf(i) ==
    IF i \in DOMAIN scene.mappings THEN scene.mappings[i]
    ELSE [instrument |-> i, definition |-> "", rows |-> <<>>]

(* Mutant: how many instruments the shot has is not asked. *)
SoleAnyway == TRUE

(* Instruments the shot was planned with, the omitted ones included. *)
Sole == \E p \in Planning : \A q \in Planning : q[2] = p[2]

MapRow ==
    /\ phase = "map"
    /\ row.of <= Len(kept)
    /\ LET detector == kept[row.of]
           mapping == MappingOf(detector.instrument)
       IN  /\ row.n <= Len(mapping.rows)
           /\ LET done == Rules!WriteRow(container, detector.path, mapping, mapping.rows[row.n])
              IN  /\ container' = done.c
                  /\ row' = [of |-> row.of, n |-> row.n + 1, says |-> row.says \cup done.says]
                  /\ inside' = (inside \/ done.inside)
    /\ UNCHANGED <<planVars, phase, written, at, stack, kept, omitted, result, notes>>

(* The next detector kept, its mapping from the first row. *)
NextMapping ==
    /\ inside' = FALSE
    /\ row' = [of |-> row.of + 1, n |-> 1, says |-> {}]
    /\ UNCHANGED <<planVars, phase, written, at, stack, kept, omitted, result>>

(* The end of a mapping: its definition, and what was said of its rows. *)
EndMapping ==
    /\ phase = "map"
    /\ row.of <= Len(kept)
    /\ LET detector == kept[row.of]
           mapping == MappingOf(detector.instrument)
           done == Rules!ClaimDefinition(container, detector.path, mapping, inside, Sole)
       IN  /\ row.n > Len(mapping.rows)
           /\ ~(Rules!ClaimsEntry(mapping, inside, Sole) /\ Rules!IsNoText(container))
           /\ container' = done.c
           /\ notes' = notes \cup row.says \cup done.says
    /\ NextMapping

(* A row has put something at the entry's definition that is not read as a *)
(* text: the mapping is said to have failed, and what it said of its rows  *)
(* is lost.                                                                *)
ClaimRaises ==
    /\ phase = "map"
    /\ row.of <= Len(kept)
    /\ LET detector == kept[row.of]
           mapping == MappingOf(detector.instrument)
       IN  /\ row.n > Len(mapping.rows)
           /\ Rules!ClaimsEntry(mapping, inside, Sole)
           /\ Rules!MayBeNoText(container)
           /\ container' = Rules!OnDetector(container, detector.path, mapping)
           /\ notes' = notes \cup {[instrument |-> mapping.instrument, row |-> "",
                                    why |-> "mapping failed"]}
    /\ NextMapping

(* Mutant: the one line names one instrument. *)
OneLineForOne(said) ==
    LET missing == {n \in said : n.why = "no start_time"}
    IN  IF missing = {} THEN said
        ELSE (said \ missing)
             \cup {[instruments |-> {(CHOOSE n \in missing : TRUE).instrument},
                    row |-> "start_time", why |-> "no start_time"]}

(* The start_time rows of a shot without one are said once, with every     *)
(* instrument they would have been written for.                            *)
OneLineForStartTime(said) ==
    LET missing == {n \in said : n.why = "no start_time"}
    IN  IF missing = {} THEN said
        ELSE (said \ missing)
             \cup {[instruments |-> {n.instrument : n \in missing}, row |-> "start_time",
                    why |-> "no start_time"]}

Close ==
    /\ phase = "map"
    /\ row.of > Len(kept)
    /\ phase' = "closed"
    /\ notes' = IF ShotRow.fired_at THEN notes ELSE OneLineForStartTime(notes)
    /\ UNCHANGED <<planVars, container, written, at, stack, kept, omitted, result, row, inside>>

-----------------------------------------------------------------------------
Init ==
    /\ PlanInit
    /\ phase = "plan"
    /\ container = [tree |-> [p \in {} |-> None], objects |-> [o \in {} |-> None]]
    /\ written = {}
    /\ at = None
    /\ stack = Packs!EmptyStack
    /\ kept = <<>>
    /\ omitted = {}
    /\ result = {}
    /\ row = [of |-> 1, n |-> 1, says |-> {}]
    /\ inside = FALSE
    /\ notes = {}

Next ==
    \/ PlanNext /\ UNCHANGED writeVars
    \/ Open
    \/ \E p \in Planning : WriteAcquisition(p) \/ OpenRecording(p)
    \/ StreamFrame
    \/ FinishRecording
    \/ StartMapping
    \/ MapRow
    \/ EndMapping
    \/ ClaimRaises
    \/ Close

Spec == Init /\ [][Next]_vars
-----------------------------------------------------------------------------
(* Properties. *)

(* A position of a recording's stack keeps meaning the same frame: it holds*)
(* that frame exactly when its flag says so, and zeros otherwise, however  *)
(* many frames before it could not be read or had another size.            *)
FramesInPlace ==
    phase = "frames" =>
        LET frames == FramesAt
            fit == {i \in 1 .. stack.length : frames[i].state = "ok"}
            lead == CHOOSE i \in fit : \A j \in fit : i <= j
        IN  /\ stack.made = (fit # {})
            /\ Len(stack.readable) = stack.length
            /\ stack.made => Len(stack.frames) = stack.length
            /\ \A i \in 1 .. stack.length :
                  /\ stack.readable[i] = (i \in fit /\ frames[i].shape = frames[lead].shape)
                  /\ stack.made => stack.frames[i] = IF stack.readable[i] THEN frames[i] ELSE None

DetectorGroups(tree) == {path \in DOMAIN tree : Rules!ClassAt(container, path) = "NXdetector"}

PlainPath(k) ==
    <<"entry", Machine(kept[k].instrument, acquisitions[kept[k].of].label),
      Detector(kept[k].instrument, acquisitions[kept[k].of].label)>>

(* Of the acquisitions of an instrument that were kept, only the earliest  *)
(* has the plain detector name.  (An instrument that is not in the         *)
(* catalogue has one such name for each folder it is watched in.)          *)
EarliestIsPlain ==
    \A k \in DOMAIN kept : kept[k].path = PlainPath(k) =>
        \A l \in DOMAIN kept \ {k} :
            kept[l].instrument = kept[k].instrument /\ PlainPath(l) = PlainPath(k) =>
            LET t == acquisitions[kept[k].of].when
                u == acquisitions[kept[l].of].when
            IN  u = 0 \/ (t # 0 /\ t <= u)

(* Every acquisition tried is in the container under a name of its own, or *)
(* left out and said to be: no two share a detector, no group of one left  *)
(* out remains, no instrument group is empty, and the plain name of an     *)
(* instrument's detector is that of its earliest acquisition.  (Rows may   *)
(* then add groups of these classes, for what they place.)                 *)
DetectorsAccounted ==
    LET paths == {kept[k].path : k \in DOMAIN kept}
        writing == IF phase = "frames" THEN {at.path} ELSE {}
    IN  /\ Cardinality(paths) = Len(kept)
        /\ omitted \cup {kept[k].of : k \in DOMAIN kept} = written
        /\ omitted \cap {kept[k].of : k \in DOMAIN kept} = {}
        /\ \A p \in omitted : [about |-> p[2], why |-> "detector omitted"] \in result
        /\ paths \cup writing \subseteq DetectorGroups(container.tree)
        /\ phase \in {"write", "frames"} =>
              /\ DetectorGroups(container.tree) = paths \cup writing
              /\ \A path \in DOMAIN container.tree :
                    Rules!ClassAt(container, path) = "NXinstrument" =>
                        \E d \in paths \cup writing : Rules!Parent(d) = path
        /\ EarliestIsPlain

(* The row has put its source at its target, or a value computed from it,  *)
(* or it asks for what already is so.                                      *)
Landed(detector, r) ==
    LET source == Rules!SourcePath(detector, r)
        tree == container.tree
    IN  /\ source \in DOMAIN tree
        /\ r.target \in DOMAIN tree
        /\ \/ r.derived = "no" /\ tree[r.target] = tree[source]
           \/ Rules!SignalIs(container, r.target, source)
           \/ r.derived = "known" /\ container.objects[tree[r.target]].from = tree[source]

Reported(mapping, r) ==
    \E n \in notes :
        \/ /\ n.why # "no start_time" /\ n.instrument = mapping.instrument
           /\ n.row = r.name \/ n.why = "mapping failed"
        \/ n.why = "no start_time" /\ mapping.instrument \in n.instruments

(* When the container is closed, every mapping row of every detector in it *)
(* stands in it or is reported, by itself or with its whole mapping,       *)
(* whatever other rows and other instruments claimed before and after.     *)
RowsAccounted ==
    phase = "closed" =>
        \A k \in DOMAIN kept :
            LET mapping == MappingOf(kept[k].instrument)
            IN  \A n \in DOMAIN mapping.rows :
                    Landed(kept[k].path, mapping.rows[n]) \/ Reported(mapping, mapping.rows[n])

(* Who may have written a definition on an object: the mapping of the      *)
(* detector it is, the mapping of a detector whose subentry it describes,  *)
(* or, at the entry, the one mapping of everything kept.                   *)
ClaimStands(c, o, definition) ==
    LET says(k) == MappingOf(kept[k].instrument).definition = definition
    IN  \/ \E k \in DOMAIN kept :
              kept[k].path \in DOMAIN c.tree /\ c.tree[kept[k].path] = o /\ says(k)
        \/ \E k \in DOMAIN kept :
              o = Append(Rules!Subentry(kept[k].path), "definition") /\ says(k)
        \/ /\ o = Rules!EntryDefinition
           /\ kept # <<>>
           /\ \A k, l \in DOMAIN kept : kept[k].instrument = kept[l].instrument
           /\ \A k \in DOMAIN kept : says(k)

(* Whatever the mapping files' rows link and create, and wherever, a       *)
(* container claims an application definition only on the detector whose   *)
(* mapping claims it, in a subentry of that detector's name, or at the     *)
(* entry when everything kept is of the one instrument that claims it.     *)
(* (What a row itself puts at /entry/definition is the person's; it carries*)
(* no mapping's claim unless it is another name of one of these.)          *)
DefinitionStandsAlone ==
    \A path \in DOMAIN container.tree :
        LET o == container.tree[path]
        IN  container.objects[o].definition # "" =>
                ClaimStands(container, o, container.objects[o].definition)

(* What one container has, the other has at the same paths. *)
Extends(d, c) ==
    \A path \in DOMAIN c.tree :
        LET o == c.tree[path]
        IN  /\ path \in DOMAIN d.tree
            /\ d.tree[path] = o
            /\ d.objects[o].class = c.objects[o].class
            /\ d.objects[o].from = c.objects[o].from

(* Mapping rows only add: no path changes what it names, and no value is   *)
(* replaced, so a reading under its instrument is what its pack wrote.     *)
MappingOnlyAdds == [][phase = "map" => Extends(container', container)]_vars
=============================================================================
