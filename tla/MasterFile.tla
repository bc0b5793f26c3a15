----------------------------- MODULE MasterFile -----------------------------
(***************************************************************************)
(* MasterFile: the campaign's NeXus file, group by group, as               *)
(* write_nexus_bridge writes it.  A file either keeps the shot table of a  *)
(* LabFrog export, whose other groups refer to its rows, or has one of     *)
(* DAMNIT's own.                                                           *)
(*                                                                         *)
(* A canonical shot is [key, record, number, day, time, fired, source,     *)
(* meta, events]; a written event is one of EventIntake with [key, status] *)
(* added; its values are the set of its list, empty without one.  Names    *)
(* are those under /entry/instrument.                                      *)
(***************************************************************************)
EXTENDS Integers, Sequences, FiniteSets, TLC

None == -1      \* Unknown, where a column has no value

Blank ==
    [owner |-> "nobody", rows |-> <<>>, prefix |-> None, columns |-> <<>>, foreign |-> {},
     bounds |-> <<>>, laser |-> <<>>, series |-> <<>>, sample |-> <<>>, vacuum |-> <<>>,
     diagnostics |-> <<>>, payloads |-> {}, events |-> <<>>, indexes |-> <<>>, products |-> <<>>]

(* What a LabFrog export holds: its shot rows, and groups of its own. *)
ExportFile(rows, groups) ==
    [Blank EXCEPT !.owner = "labfrog", !.foreign = groups,
        !.rows = [i \in DOMAIN rows |->
                    [record |-> rows[i].record, number |-> rows[i].number, time |-> rows[i].time]]]

(* Mutant of Staged: any last output is built upon. *)
StagedOnAny(hasSource, source, output, seeds) ==
    IF hasSource THEN source ELSE IF seeds THEN output ELSE Blank

(* _stage_bridge_temp_file: a copy of the export; without one, of the last  *)
(* output, unless its shot table is DAMNIT's or the campaigns share a       *)
(* catalog; else nothing.                                                   *)
Staged(hasSource, source, output, seeds) ==
    IF hasSource THEN source
    ELSE IF seeds /\ output.owner = "labfrog" THEN output ELSE Blank
-----------------------------------------------------------------------------
(* Semantic groups *)

Block(shot, name) == IF name \in DOMAIN shot.meta THEN shot.meta[name] ELSE <<>>
Carriers(shots, name) == {i \in DOMAIN shots : DOMAIN Block(shots[i], name) # {}}
(* The first shot that has such a block speaks for the campaign. *)
FirstBlock(shots, name) ==
    IF Carriers(shots, name) = {} THEN <<>>
    ELSE Block(shots[CHOOSE i \in Carriers(shots, name) : \A j \in Carriers(shots, name) : i <= j], name)

Times(shots) == {shots[i].fired : i \in DOMAIN shots} \ {None}
Least(S) == CHOOSE x \in S : \A y \in S : x <= y
Greatest(S) == CHOOSE x \in S : \A y \in S : y <= x
WithBounds(f, shots) ==
    IF Times(shots) = {} THEN f
    ELSE [f EXCEPT !.bounds = <<Least(Times(shots)), Greatest(Times(shots))>>]

(* Which datasets of /entry/instrument/laser a key of the block fills. *)
LaserDatasets ==
    [pulse_energy |-> {"pulse_energy", "beam/incident_energy"},
     wavelength |-> {"beam/incident_wavelength"}, pulse_duration |-> {"beam/pulse_duration"},
     repetition_rate |-> {"frequency"}, system |-> {"name"},
     polarization |-> {"beam/incident_polarization"}, contrast_ratio |-> {"beam/contrast_ratio"},
     beam_pos_x |-> {"beam/beam_position_x"}, beam_pos_y |-> {"beam/beam_position_y"},
     beam_waist_x |-> {"beam/beam_waist_x"}, beam_waist_y |-> {"beam/beam_waist_y"}]
KeyOfDataset(d) == CHOOSE k \in DOMAIN LaserDatasets : d \in LaserDatasets[k]

(* The configuration only fills gaps, and says so. *)
LaserBlock(block, config) ==
    [k \in DOMAIN block \cup DOMAIN config |->
        IF k \in DOMAIN block THEN [value |-> block[k], config |-> FALSE]
        ELSE [value |-> config[k], config |-> TRUE]]
WithLaser(f, shots, config) ==
    LET block == LaserBlock(FirstBlock(shots, "laser"), config)
        written == UNION {LaserDatasets[k] : k \in DOMAIN block \cap DOMAIN LaserDatasets}
        group == [d \in written |-> block[KeyOfDataset(d)]] @@ ("type" :> [value |-> "Laser", config |-> FALSE])
    IN  IF DOMAIN block = {} THEN f ELSE [f EXCEPT !.laser = group @@ @]

(* One value for each shot, None where it has none. *)
SeriesOf(shots, name, k) ==
    [i \in DOMAIN shots |-> IF k \in DOMAIN Block(shots[i], name) THEN Block(shots[i], name)[k] ELSE None]
KeysOf(shots, name) == UNION {DOMAIN Block(shots[i], name) : i \in DOMAIN shots}
WithSeries(f, shots) ==
    IF KeysOf(shots, "laser") = {} THEN f
    ELSE [f EXCEPT !.series = [k \in KeysOf(shots, "laser") |-> SeriesOf(shots, "laser", k)]]

WithSample(f, shots) == [f EXCEPT !.sample = FirstBlock(shots, "target") @@ @]
WithVacuum(f, shots) == [f EXCEPT !.vacuum = FirstBlock(shots, "vacuum") @@ @]

(* Names under /entry/instrument, and who may write one: whoever marked it. *)
HasLaser(f) == DOMAIN f.laser # {} \/ DOMAIN f.series # {}
Taken(f, name, mine) ==
    \/ name \in f.foreign \/ (name = "laser" /\ HasLaser(f))
    \/ name \in (DOMAIN f.diagnostics \cup DOMAIN f.indexes) \ mine

(* Mutant of Claimable: what is there is replaced, whoever wrote it. *)
ClaimsAnything(f, name, mine) == TRUE
Claimable(f, name, mine) == ~Taken(f, name, mine)

\* What is new under its names, what was there under the others.
Over(new, old) ==
    [n \in DOMAIN new \cup DOMAIN old |-> IF n \in DOMAIN new THEN new[n] ELSE old[n]]

(* A diagnostic whose name is taken is skipped. *)
WithDiagnostics(f, shots) ==
    LET names == {n \in KeysOf(shots, "diagnostic") : Claimable(f, n, DOMAIN f.diagnostics)}
    IN  [f EXCEPT !.diagnostics = Over([n \in names |-> SeriesOf(shots, "diagnostic", n)], @),
                  !.foreign = @ \ names]

Semantics(f, shots, config) ==
    LET campaign == WithSeries(WithLaser(WithBounds(f, shots), shots, config), shots)
    IN  WithDiagnostics(WithVacuum(WithSample(campaign, shots), shots), shots)
-----------------------------------------------------------------------------
(* The shot table *)

Numbers(shots) == [i \in DOMAIN shots |-> shots[i].number]
RowOf(shot) == [record |-> shot.record, number |-> shot.number, time |-> shot.time]
AddedRow(shot) == [record |-> "", number |-> shot.number, time |-> None]

(* Rows of LabFrog's are only ever added to, and only behind its own. *)
Extends(f, shots) ==
    /\ Len(f.rows) <= Len(shots)
    /\ 0 < Len(f.rows) /\ Len(f.rows) < Len(shots) =>
          Numbers(f.rows) = SubSeq(Numbers(shots), 1, Len(f.rows))

(* Mutant of Rows: what is added comes before LabFrog's rows. *)
RowsAbove(f, shots) ==
    IF f.rows = <<>> THEN [i \in DOMAIN shots |-> RowOf(shots[i])]
    ELSE [i \in 1 .. (Len(shots) - Len(f.rows)) |-> AddedRow(shots[Len(f.rows) + i])] \o f.rows
Rows(f, shots) ==
    IF f.rows = <<>> THEN [i \in DOMAIN shots |-> RowOf(shots[i])]
    ELSE f.rows \o [i \in 1 .. (Len(shots) - Len(f.rows)) |-> AddedRow(shots[Len(f.rows) + i])]

Column(shot) ==
    [key |-> shot.key, fired |-> shot.fired, time |-> shot.time, source |-> shot.source,
     target |-> Block(shot, "target")]
ShotTable(f, shots) ==
    [f EXCEPT !.rows = Rows(f, shots),
              !.columns = [i \in DOMAIN shots |-> Column(shots[i])],
              !.owner = IF f.rows = <<>> THEN "damnit" ELSE @,
              !.prefix = IF 0 < Len(f.rows) /\ Len(f.rows) < Len(shots) THEN Len(f.rows) ELSE @]
-----------------------------------------------------------------------------
(* Tables of events and products *)

PayloadPath(e) == <<e.source, e.kind, e.id>>
Payload(e) == [path |-> PayloadPath(e), values |-> e.values, key |-> e.key]
WithPayloads(f, events) ==
    LET carried == {Payload(events[i]) : i \in {j \in DOMAIN events : events[j].values # {}}}
    IN  [f EXCEPT !.payloads = carried \cup {p \in @ : \A q \in carried : q.path # p.path}]

Instruments(events) == {events[i].instrument : i \in DOMAIN events} \ {""}

Pointer(events, i) == [index |-> i, id |-> events[i].id, key |-> events[i].key]
Members(events, name) == {i \in DOMAIN events : events[i].instrument = name}
IndexOf(events, name) == {Pointer(events, i) : i \in Members(events, name)}

(* An instrument whose name is taken by anything else stops the build. *)
Indexable(f, events) == \A n \in Instruments(events) : Claimable(f, n, DOMAIN f.indexes)
WithIndexes(f, events) ==
    LET names == Instruments(events)
    IN  [f EXCEPT !.indexes = Over([n \in names |-> IndexOf(events, n)], @),
                  !.foreign = @ \ names]

(* What an event refers to: its own list in this file, and a file elsewhere. *)
ValuesProduct(e) == [of |-> e.id, at |-> "here", key |-> e.key]
FileProduct(e) == [of |-> e.id, at |-> "elsewhere", key |-> e.key]
ProductsOf(e) ==
    (IF e.values # {} THEN <<ValuesProduct(e)>> ELSE <<>>)
    \o (IF {"path", "filepath", "uri"} \cap DOMAIN e.ref # {} THEN <<FileProduct(e)>> ELSE <<>>)

(* Arrays of the export that have one value for each shot, for every shot. *)
ArrayProducts(arrays, length, shots) ==
    IF length # Len(shots) THEN <<>>
    ELSE [i \in 1 .. (Len(arrays) * Len(shots)) |->
            LET shot == shots[((i - 1) % Len(shots)) + 1]
            IN  [of |-> <<"labfrog", arrays[((i - 1) \div Len(shots)) + 1]>>, at |-> "here", key |-> shot.key]]

Tables(f, events, products) ==
    [WithIndexes(WithPayloads(f, events), events) EXCEPT !.events = events, !.products = products]
=============================================================================
