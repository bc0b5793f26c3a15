----------------------------- MODULE MappingRows -----------------------------
(***************************************************************************)
(* The reviewed mapping rows of an instrument, applied to a container      *)
(* (hzdr_packs/mapping_rows.py).  A row gives a dataset the pack wrote a   *)
(* second name, the path a person agreed; only a row that declares a       *)
(* transform writes a value of its own.  A row that cannot be written is   *)
(* reported and costs that row alone.                                      *)
(*                                                                         *)
(* A container is a tree from paths (sequences of names) to objects and    *)
(* the objects themselves: their NeXus class ("data" for a dataset), the   *)
(* mapping and row stamped on them, the object a derived value was         *)
(* computed from, the signal of an NXdata (<<>>: none), and the application *)
(* definition an apply_to wrote there: as the text of a definition dataset,*)
(* or on a detector's group.                                               *)
(* An object is named after the path it was created at; a hard link is a   *)
(* second path to it.                                                      *)
(*                                                                         *)
(* A mapping is [instrument, definition ("": none), rows]; a row is        *)
(* [name, shot (its source is the shot's, not the detector's), source,     *)
(* target, derived ("no", "known", "unknown"), instance, class].           *)
(***************************************************************************)
EXTENDS Integers, Sequences, FiniteSets

CONSTANT None

(* A row of a mapping file that writes something. *)
RowType ==
    [name : STRING, shot : BOOLEAN, source : Seq(STRING), target : Seq(STRING) \ {<<>>},
     derived : {"no", "known", "unknown"}, instance : STRING, class : STRING]

IsPrefix(p, path) == Len(p) <= Len(path) /\ SubSeq(path, 1, Len(p)) = p
Inside(path, p) == p # path /\ IsPrefix(p, path)
Parent(path) == SubSeq(path, 1, Len(path) - 1)
Leaf(path) == path[Len(path)]
Ancestors(path) == {SubSeq(path, 1, n) : n \in 1 .. (Len(path) - 1)}

Holds(c, path) == path \in DOMAIN c.tree
ClassAt(c, path) == c.objects[c.tree[path]].class

Object(class) == [class |-> class, mapped_from |-> "", row |-> "", from |-> None,
                  signal |-> <<>>, definition |-> ""]

(* One new object at a path. *)
Create(c, path, object) ==
    [tree |-> [p \in DOMAIN c.tree \cup {path} |-> IF p = path THEN path ELSE c.tree[p]],
     objects |-> [o \in DOMAIN c.objects \cup {path} |->
                     IF o = path THEN object ELSE c.objects[o]]]

(* A hard link: one object, two names. *)
HardLink(c, path, source) ==
    [c EXCEPT !.tree = [p \in DOMAIN c.tree \cup {path} |->
                           IF p = path THEN c.tree[source] ELSE c.tree[p]]]

(* Every group on the way to a path that is not there yet. *)
EnsureGroups(c, path, class) ==
    LET missing == {p \in Ancestors(path) : ~Holds(c, p)}
        made(p) == IF p = Parent(path) THEN class ELSE "NXcollection"
    IN  [tree |-> [p \in DOMAIN c.tree \cup missing |-> IF p \in missing THEN p ELSE c.tree[p]],
         objects |-> [o \in DOMAIN c.objects \cup missing |->
                         IF o \in missing THEN Object(made(o)) ELSE c.objects[o]]]

SourcePath(detector, row) == IF row.shot THEN row.source ELSE detector \o row.source

(* An NXsubentry is named after the detector. *)
Subentry(detector) == <<"entry", Leaf(detector)>>

InSubentry(detector, mapping, row) ==
    mapping.definition # "" /\ Inside(row.target, Subentry(detector))

(* Placed for another detector, or while its machine had another name. *)
Stale(detector, mapping, row) ==
    \/ /\ mapping.definition # ""
       /\ row.instance \notin {"", Leaf(detector)}
       /\ Inside(row.target, <<"entry", row.instance>>)
    \/ /\ row.instance = Leaf(detector)
       /\ ~InSubentry(detector, mapping, row)
       /\ ~IsPrefix(detector, row.target)

(* The target is an NXdata whose signal is the source itself. *)
SignalIs(c, target, source) ==
    /\ Holds(c, target)
    /\ ClassAt(c, target) = "NXdata"
    /\ Holds(c, source)
    /\ c.objects[c.tree[target]].signal = c.tree[source]

(* A row that declares a transform or a unit changes the number. *)
IsDerived(row) == row.derived # "no"

InPlace(c, row, source) ==
    ~IsDerived(row) /\ (row.target = source \/ SignalIs(c, row.target, source))

(* A dataset on the way, or the subentry's own definition, made just now:  *)
(* no group can be made there and nothing linked.                          *)
Blocked(c, path) ==
    Holds(c, path) \/ \E p \in Ancestors(path) : Holds(c, p) /\ ClassAt(c, p) = "data"

Stamp(c, o, mapping, row) ==
    [c EXCEPT !.objects[o].mapped_from = mapping.instrument, !.objects[o].row = row.name]

Outcome(c, says, inside) == [c |-> c, says |-> says, inside |-> inside]

Says(mapping, row, why) ==
    {[instrument |-> mapping.instrument, row |-> row.name, why |-> why]}

(* The subentry and the definition it claims, made for its first row.  One *)
(* that is already something else is left alone.                           *)
SubentryTaken(c, detector) ==
    Holds(c, Subentry(detector)) /\ ClassAt(c, Subentry(detector)) # "NXsubentry"

EnsureSubentry(c, detector, mapping) ==
    IF Holds(c, Subentry(detector)) THEN c
    ELSE Create(Create(c, Subentry(detector), Object("NXsubentry")),
                Append(Subentry(detector), "definition"),
                [Object("data") EXCEPT !.definition = mapping.definition])

(* A value computed from the source, an object of its own. *)
Derived(c, row, source) == Create(c, row.target, [Object("data") EXCEPT !.from = c.tree[source]])

(* The link, or the derived value; then its stamp. *)
Place(c, mapping, row, source, inside) ==
    LET ready == EnsureGroups(c, row.target, row.class)
    IN  IF ~IsDerived(row)
        THEN Outcome(Stamp(HardLink(ready, row.target, source), c.tree[source], mapping, row),
                     {}, inside)
        ELSE IF row.derived = "known"
        THEN Outcome(Stamp(Derived(ready, row, source), row.target, mapping, row), {}, inside)
        ELSE Outcome(ready, Says(mapping, row, "could not be derived"), FALSE)

(* Written only from a fired_at. *)
StartTime == <<"entry", "start_time">>

(* What is said of a source that is not there; the shot's start_time apart. *)
Absent(source) == IF source = StartTime THEN "no start_time" ELSE "no source"

(* Why a row cannot be written here, in the order the code asks; "": it can. *)
Refusal(c, detector, mapping, row) ==
    LET source == SourcePath(detector, row)
        in_place == InPlace(c, row, source)
    IN  IF Stale(detector, mapping, row) THEN "stale placement"
        ELSE IF ~Holds(c, source) THEN Absent(source)
        ELSE IF in_place /\ row.shot THEN ""
        ELSE IF ~in_place /\ Holds(c, row.target) THEN "occupied"
        ELSE IF InSubentry(detector, mapping, row) /\ SubentryTaken(c, detector)
             THEN "subentry taken"
        ELSE ""

(* Mutant: a target that is taken is unlinked and written anew. *)
WriteRowOver(c, detector, mapping, row) ==
    LET source == SourcePath(detector, row)
        refusal == Refusal(c, detector, mapping, row)
        inside == InSubentry(detector, mapping, row)
    IN  IF refusal \notin {"", "occupied"} THEN Outcome(c, Says(mapping, row, refusal), FALSE)
        ELSE Place(c, mapping, row, source, inside)

(* _write_row.  A row whose source already is its target is only stamped,  *)
(* and the shot's own fields, which every instrument shares, not even that.*)
WriteRow(c, detector, mapping, row) ==
    LET source == SourcePath(detector, row)
        refusal == Refusal(c, detector, mapping, row)
        inside == InSubentry(detector, mapping, row)
        in_place == InPlace(c, row, source)
        ready == IF inside THEN EnsureSubentry(c, detector, mapping) ELSE c
    IN  IF refusal # "" THEN Outcome(c, Says(mapping, row, refusal), FALSE)
        ELSE IF in_place /\ row.shot THEN Outcome(c, {}, FALSE)
        ELSE IF in_place THEN Outcome(Stamp(ready, c.tree[source], mapping, row), {}, inside)
        ELSE IF Blocked(ready, row.target)
             THEN Outcome(ready, Says(mapping, row, "could not link"), FALSE)
        ELSE Place(ready, mapping, row, source, inside)

(* The subentry's plot is what the diagnostic's own data plots. *)
MirrorPlot(c, detector) ==
    LET plotted == Append(detector, "data")
        signal == IF Holds(c, plotted) /\ ClassAt(c, plotted) = "NXdata"
                  THEN c.objects[c.tree[plotted]].signal ELSE <<>>
        groups == {c.tree[p] : p \in {q \in DOMAIN c.tree :
                      /\ Inside(q, Subentry(detector))
                      /\ ClassAt(c, q) = "NXdata"
                      /\ c.objects[c.tree[q]].signal = <<>>
                      /\ \E child \in DOMAIN c.tree :
                            /\ child # <<>> /\ Parent(child) = q
                            /\ c.tree[child] = signal
                            /\ c.objects[signal].row # ""}}
    IN  IF signal = <<>> THEN c
        ELSE [c EXCEPT !.objects = [o \in DOMAIN c.objects |->
                 IF o \in groups THEN [c.objects[o] EXCEPT !.signal = signal]
                 ELSE c.objects[o]]]

EntryDefinition == <<"entry", "definition">>

(* What the mapping says of the detector's data, recorded on its group.    *)
OnDetector(c, detector, mapping) ==
    IF Holds(c, detector)
    THEN [c EXCEPT !.objects[c.tree[detector]].definition = mapping.definition] ELSE c

(* No row went into a subentry, and the shot has one instrument. *)
ClaimsEntry(mapping, in_subentry, sole) ==
    mapping.definition # "" /\ ~in_subentry /\ sole

(* What a row put at the entry's definition is read as one text: of a      *)
(* group and of many values none can be.                                   *)
MayBeNoText(c) == Holds(c, EntryDefinition) /\ c.objects[c.tree[EntryDefinition]].definition = ""
IsNoText(c) == Holds(c, EntryDefinition) /\ ClassAt(c, EntryDefinition) # "data"

(* The end of apply_to: the definition is recorded on the detector, and    *)
(* claimed by the subentry, or by the entry if the shot has one instrument.*)
ClaimDefinition(c, detector, mapping, in_subentry, sole) ==
    LET own == OnDetector(c, detector, mapping)
        says(why) == {[instrument |-> mapping.instrument, row |-> "", why |-> why]}
    IN  IF mapping.definition = "" THEN Outcome(c, {}, FALSE)
        ELSE IF in_subentry THEN Outcome(MirrorPlot(own, detector), {}, TRUE)
        ELSE IF ~sole THEN Outcome(own, says("several instruments"), FALSE)
        ELSE IF ~Holds(c, EntryDefinition)
             THEN Outcome(Create(own, EntryDefinition,
                                 [Object("data") EXCEPT !.definition = mapping.definition]),
                          {}, FALSE)
        ELSE Outcome(own, IF c.objects[c.tree[EntryDefinition]].definition = mapping.definition
                          THEN {} ELSE says("another definition"), FALSE)
=============================================================================
