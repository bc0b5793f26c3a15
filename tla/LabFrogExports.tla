--------------------------- MODULE LabFrogExports ---------------------------
(***************************************************************************)
(* LabFrogExports: the shot rows a build takes from LabFrog.  Three kinds  *)
(* of source are read (a compact NeXus table, the curated SQLite export,   *)
(* Mongo documents), each into the same shape, and merged by identity.     *)
(*                                                                         *)
(* A shot is [record, number, authority, day, time, campaign, experiment,  *)
(* meta]; number may have been typed, authority is the shot authority's.   *)
(* Unknown and "" stand for what a source does not say; meta maps the      *)
(* names a source gives to values.                                         *)
(***************************************************************************)
EXTENDS Matching, SequencesExt

(* A name and its value, if there is one. *)
Given(name, value, none) == IF value = none THEN <<>> ELSE name :> value

(* `a or b` *)
Else(a, b, none) == IF a = none THEN b ELSE a

(* What s has at the chosen positions, in its order. *)
Picked(s, chosen) ==
    LET picked[n \in 0 .. Len(s)] ==
            IF n = 0 THEN <<>>
            ELSE IF n \in chosen THEN Append(picked[n - 1], s[n]) ELSE picked[n - 1]
    IN  picked[Len(s)]

(* The members of a set, each behind those that come before it. *)
Listing(S, Before(_, _)) ==
    [k \in 1 .. Cardinality(S) |-> CHOOSE x \in S : Cardinality({y \in S : Before(y, x)}) = k - 1]
-----------------------------------------------------------------------------
(* Targets: the block metadata.target of a row of the SQLite export.  A     *)
(* target row is [name, display, material, notes, source, page, ref, type,  *)
(* thickness, unit, pressure, pressureUnit, extras].                        *)

WikiTypes == [foil |-> "foil", gas_jet |-> "gas_jet", cluster |-> "cluster", liquid |-> "liquid",
              structured |-> "structured", wafer |-> "foil", solution |-> "liquid"]
TargetType(raw) == IF raw \in DOMAIN WikiTypes THEN WikiTypes[raw] ELSE "other"

IsManual(t) ==
    /\ t.source # "wiki" /\ t.page = "" /\ t.ref = ""
    /\ \/ t.source \in {"manual", "operator"}
       \/ "other" \in {t.display, t.name}
       \/ t.material # "" \/ t.notes # ""
       \/ t.thickness # Unknown
IsWiki(t) == ~IsManual(t) /\ (t.page # "" \/ t.ref # "" \/ t.source = "wiki")

Provenance(t) ==
    IF IsManual(t)
    THEN [provenance |-> "manual",
          type |-> IF t.type = "" THEN "other" ELSE TargetType(t.type)]
    ELSE IF IsWiki(t)
    THEN Given("type", IF t.type = "" THEN "" ELSE TargetType(t.type), "")
            @@ [provenance |-> "wiki"]
    ELSE <<>>

(* Lengths are kept in nm; a unit that is none of these cannot be converted. *)
Nanometers == ("" :> 1) @@ ("nm" :> 1) @@ ("um" :> 1000) @@ ("mm" :> 1000000)
Convertible(t) == t.thickness # Unknown /\ t.unit \in DOMAIN Nanometers

Properties(t) ==
    t.extras
    @@ Given("wiki_type", IF IsWiki(t) THEN t.type ELSE "", "")
    @@ IF Convertible(t) \/ (t.thickness = Unknown /\ t.unit = "") THEN <<>>
       ELSE "source_thickness" :> <<t.thickness, t.unit>>

Described(t) ==
    Given("name", Else(t.name, t.display, ""), "")
    @@ Provenance(t)
    @@ Given("material", t.material, "")
    @@ (IF Convertible(t) THEN "thickness" :> t.thickness * Nanometers[t.unit] ELSE <<>>)
    @@ Given("notes", t.notes, "")
    @@ (IF t.pressureUnit \in {"", "bar"} THEN Given("gas_pressure", t.pressure, Unknown) ELSE <<>>)
    @@ Given("wiki_page", t.page, "") @@ Given("wiki_ref", t.ref, "")

Target(t) ==
    Described(t) @@ IF DOMAIN Described(t) = {} THEN <<>>
                    ELSE Given("properties", Properties(t), <<>>)
-----------------------------------------------------------------------------
(* The compact NeXus table, row by row.  An export from before the          *)
(* authority column has Unknown there: the typed number never stands in.    *)
NexusShot(row) ==
    [record |-> row.record, number |-> row.number, authority |-> row.authority,
     day |-> Else(row.day, row.timeDay, Unknown), time |-> row.time,
     campaign |-> row.campaign, experiment |-> "",
     meta |-> Given("shot_status", row.status, "") @@ [has_newer_version |-> row.newer]]
NexusShots(table) == [i \in DOMAIN table |-> NexusShot(table[i])]

(* The SQLite export: dated rows first, by local time, number and id. *)
Follows(a, b) ==
    \/ a.local = Unknown /\ b.local # Unknown
    \/ /\ (a.local = Unknown) = (b.local = Unknown)
       /\ \/ b.local < a.local
          \/ b.local = a.local /\ b.number < a.number
          \/ b.local = a.local /\ b.number = a.number /\ b.rank <= a.rank
InOrder(rows) == Listing(rows, LAMBDA a, b : a # b /\ Follows(b, a))

(* The table shot_variables: what each shot's variables were set to. *)
Variables(table, record) ==
    LET mine == {v \in table : v.record = record /\ v.name # "" /\ v.value # Unknown}
    IN  [n \in {v.name : v \in mine} |-> (CHOOSE v \in mine : v.name = n).value]

(* The day is the local time's; the time is the UTC one's, where it has one. *)
SqliteShot(row, variables) ==
    [record |-> row.record, number |-> row.number, authority |-> row.authority,
     day |-> Else(row.localDay, row.utcDay, Unknown), time |-> Else(row.utc, row.local, Unknown),
     campaign |-> row.campaign, experiment |-> row.experiment,
     meta |-> Given("status", row.status, "")
              @@ Given("kafka_event_id", row.eventId, <<"none">>)
              @@ Given("kafka_offset", row.position, Unknown)
              @@ Given("target", Target(row.target), <<>>)
              @@ Given("laser", Given("pulse_energy", row.energy, Unknown), <<>>)
              @@ Given("labfrog_variables", Variables(variables, row.record), <<>>)]

(* Of the rows of one shot the active ones are current, if any is. *)
IsActive(s) == "status" \in DOMAIN s.meta /\ s.meta["status"] = "active"
Twins(shots, i) == {j \in DOMAIN shots : SameShot(shots[i], shots[j])}
Superseded(shots) ==
    [i \in DOMAIN shots |->
        IF Cardinality(Twins(shots, i)) < 2 \/ ~\E j \in Twins(shots, i) : IsActive(shots[j])
        THEN shots[i]
        ELSE [shots[i] EXCEPT !.meta =
                IF IsActive(shots[i]) THEN @ @@ [has_newer_version |-> FALSE]
                ELSE [has_newer_version |-> TRUE] @@ @]]

SqliteShots(export) ==
    LET sorted == InOrder(export.rows)
    IN  Superseded([i \in DOMAIN sorted |-> SqliteShot(sorted[i], export.variables)])

(* Mongo documents: one without a number is no shot; the authority's number *)
(* is that of a claim of exactly one shot.                                  *)
ClaimedAuthority(claims) == IF Len(claims) = 1 THEN claims[1] ELSE Unknown
MongoShot(doc) ==
    [record |-> doc.record, number |-> doc.number, authority |-> ClaimedAuthority(doc.claims),
     day |-> doc.day, time |-> doc.time, campaign |-> doc.campaign, experiment |-> "",
     meta |-> doc.meta]
MongoShots(docs) ==
    LET numbered == Picked(docs, {i \in DOMAIN docs : docs[i].number # Unknown})
    IN  [i \in DOMAIN numbered |-> MongoShot(numbered[i])]
-----------------------------------------------------------------------------
(* Merging the sources' rows, one source behind the other: the first        *)
(* source's order; later ones fill what it left open, and their meta wins.  *)
Identity(s) ==
    IF s.record # "" THEN <<"record", s.record>> ELSE <<"shot", s.campaign, s.day, s.number>>

Complete(s, t) ==
    [record |-> s.record, experiment |-> s.experiment,
     number |-> Else(s.number, t.number, Unknown),
     authority |-> Else(s.authority, t.authority, Unknown),
     day |-> Else(s.day, t.day, Unknown), time |-> Else(s.time, t.time, Unknown),
     campaign |-> Else(s.campaign, t.campaign, ""), meta |-> t.meta @@ s.meta]

(* Mutant of Merged: a later source's row is a row of its own. *)
MergedApart(shots, s) == Append(shots, s)

Merged(shots, s) ==
    IF \E i \in DOMAIN shots : Identity(shots[i]) = Identity(s)
    THEN [i \in DOMAIN shots |->
            IF Identity(shots[i]) = Identity(s) THEN Complete(shots[i], s) ELSE shots[i]]
    ELSE Append(shots, s)
MergeShots(rows) ==
    LET merged[n \in 0 .. Len(rows)] == IF n = 0 THEN <<>> ELSE Merged(merged[n - 1], rows[n])
    IN  merged[Len(rows)]

(* A shot as the matching sees it. *)
Noted(s, name, none) == IF name \in DOMAIN s.meta THEN s.meta[name] ELSE none
AsRow(s) ==
    [record |-> s.record, number |-> s.number, authority |-> s.authority, day |-> s.day,
     time |-> s.time, campaign |-> s.campaign, eventId |-> Noted(s, "kafka_event_id", <<"none">>),
     position |-> Noted(s, "kafka_offset", Unknown), active |-> IsActive(s),
     newer |-> Noted(s, "has_newer_version", FALSE)]
=============================================================================
