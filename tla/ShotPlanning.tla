---------------------------- MODULE ShotPlanning ----------------------------
(***************************************************************************)
(* What a shot's container will hold, read from the published master       *)
(* (hzdr_containers.py: read_master, claim, plan_shots).                   *)
(*                                                                         *)
(* The event table is read a slice of rows at a time and closed; only the  *)
(* rows that name an instrument format are kept.  The kept rows are then   *)
(* taken one by one, in the table's order, and each file is put into the   *)
(* acquisition its name claims: a frame and its sidecar share a stem, the  *)
(* frames of a recording share a label.  Several events feed one           *)
(* acquisition, so what it holds must not depend on who came first.        *)
(*                                                                         *)
(* Times are numbers, 0 where a row has none; a row's files are a function *)
(* from recorded path to the sha256 its event gave; a path's name parts    *)
(* (stem, label, ordinal) are what the pack's patterns take from it.       *)
(***************************************************************************)
EXTENDS Integers, FiniteSets

CONSTANTS
    Scenes,       \* the campaigns considered: rows, shots, files, instruments
    READ_SLICE,   \* rows of /entry/source_events read at a time
    PACKS,        \* the instrument formats a pack writes
    Spectrometer, \* the pack whose acquisitions are keyed by folder as well
    None

(* A slice holds at least one row. *)
ASSUME SliceAssumption == READ_SLICE \in Nat \ {0}

(* What is used of an event's row, and how its tables are numbered. *)
RowFields == {"at", "id", "shot", "inst", "watch_name", "watch", "pack", "role", "time", "files"}

ASSUME ScenesAssumption ==
    \A s \in Scenes : \A t \in s.tables :
        /\ Cardinality(DOMAIN t) \in Nat
        /\ DOMAIN t = 1 .. Cardinality(DOMAIN t)
        /\ \A i \in DOMAIN t : RowFields \subseteq DOMAIN t[i] /\ t[i].time \in Nat

VARIABLES
    scene,        \* the campaign, one of Scenes
    table,        \* its event rows in the order the master holds them
    start,        \* rows read so far
    rows,         \* the acquisition rows kept
    taken,        \* those among them already planned
    acquisitions, \* claim -> acquisition
    with_files,   \* shots that get a container
    problems      \* what plan_shots notes for a shot

planVars == <<scene, table, start, rows, taken, acquisitions, with_files, problems>>

-----------------------------------------------------------------------------
(* Names. *)

(* The folder between the watched one and the file, if there is one. *)
FolderLabel(file, watch) == IF watch \in {"", file.parent} THEN "" ELSE file.parent

(* The acquisition a file's name claims: its key, its label, its ordinal. *)
Claim(pack, file, folder) ==
    CASE pack = Spectrometer ->
            [key |-> <<folder, file.stem>>, label |-> folder,
             seq |-> IF file.provides = "sequence" THEN file.seq ELSE None]
      [] pack # Spectrometer /\ file.provides = "recording" ->
            [key |-> <<file.label>>, label |-> file.label, seq |-> None]
      [] OTHER ->
            [key |-> <<file.stem>>, label |-> file.label, seq |-> file.seq]

(* An event's instrument: its id, else its watch folder, else the event. *)
InstrumentId(r) ==
    IF r.inst # "" THEN r.inst ELSE IF r.watch_name # "" THEN r.watch_name ELSE r.id

Catalogued(i) == i \in DOMAIN scene.catalogue

(* What messages and groups call it: its catalogue name, its watch folder. *)
Label(r) ==
    LET i == InstrumentId(r)
    IN  CASE Catalogued(i) /\ scene.catalogue[i].display # "" -> scene.catalogue[i].display
          [] OTHER -> IF r.watch_name # "" THEN r.watch_name ELSE i

TimingRole(r) ==
    IF r.role # "" THEN r.role
    ELSE IF Catalogued(InstrumentId(r)) THEN scene.catalogue[InstrumentId(r)].role ELSE ""

ClaimOf(r, path) ==
    LET file == scene.files[path] IN Claim(r.pack, file, FolderLabel(file, r.watch))

(* Acquisitions are told apart by shot, instrument and claimed key. *)
Place(r, path) == <<r.shot, InstrumentId(r), ClaimOf(r, path).key>>

Places(r) == IF r.pack \in PACKS THEN {Place(r, path) : path \in DOMAIN r.files} ELSE {}

-----------------------------------------------------------------------------
(* One event into the acquisitions its files claim. *)

(* Mutant: the last event to state a time wins. *)
Later(t, u) == IF u # 0 THEN u ELSE t

Earlier(t, u) == IF u # 0 /\ (t = 0 \/ u < t) THEN u ELSE t

(* What the first event to claim a place says of it stands. *)
Founded(r, p) ==
    LET path == CHOOSE q \in DOMAIN r.files : Place(r, q) = p
    IN  [pack |-> r.pack, label |-> Label(r), name |-> ClaimOf(r, path).label,
         seq |-> ClaimOf(r, path).seq, role |-> TimingRole(r),
         files |-> [q \in {} |-> None], when |-> 0]

(* A path already listed keeps the sha256 it was listed with. *)
Joined(old, r, p) ==
    LET mine == {q \in DOMAIN r.files : Place(r, q) = p}
    IN  [old EXCEPT
            !.files = [q \in DOMAIN old.files \cup mine |->
                          IF q \in DOMAIN old.files THEN old.files[q] ELSE r.files[q]],
            !.when = Earlier(old.when, r.time)]

AddEvent(r) ==
    [p \in DOMAIN acquisitions \cup Places(r) |->
        IF p \notin Places(r) THEN acquisitions[p]
        ELSE Joined(IF p \in DOMAIN acquisitions THEN acquisitions[p] ELSE Founded(r, p), r, p)]

(* A format no pack writes, an instrument the catalogue does not have. *)
Noted(r) ==
    LET i == InstrumentId(r)
    IN  CASE r.pack \notin PACKS -> {[shot |-> r.shot, kind |-> "no pack", about |-> r.id]}
          [] r.pack \in PACKS /\ ~Catalogued(i) ->
                {[shot |-> r.shot, kind |-> "not in the catalogue", about |-> i]}
          [] OTHER -> {}

-----------------------------------------------------------------------------
(* Reading the master, then planning. *)

Rows == DOMAIN table

IsAcquisition(r) == r.shot # "" /\ r.pack # ""

PlanInit ==
    /\ scene \in Scenes
    /\ table \in scene.tables
    /\ start = 0
    /\ rows = {}
    /\ taken = {}
    /\ acquisitions = [p \in {} |-> None]
    /\ with_files = {}
    /\ problems = {}

(* The whole table has been read; the master is closed again. *)
AllRead == start = Cardinality(Rows)

(* Columns are read by slice: row i of a slice is row start + i of each. *)
ReadSlice ==
    LET stop == IF start + READ_SLICE < Cardinality(Rows)
                THEN start + READ_SLICE ELSE Cardinality(Rows)
        in_slice == 0 .. (stop - start - 1)
    IN  /\ ~AllRead
        /\ rows' = rows \cup
              {[table[start + i + 1] EXCEPT !.at = start + i + 1] :
                  i \in {j \in in_slice : IsAcquisition(table[start + j + 1])}}
        /\ start' = stop
        /\ UNCHANGED <<scene, table, taken, acquisitions, with_files, problems>>

(* plan_shots takes the rows in the order they were read. *)
TakeRow(r) ==
    /\ AllRead
    /\ r \in rows \ taken
    /\ \A other \in rows \ taken : r.at <= other.at
    /\ taken' = taken \cup {r}
    /\ acquisitions' = AddEvent(r)
    /\ with_files' = with_files \cup {r.shot}
    /\ problems' = problems \cup Noted(r)
    /\ UNCHANGED <<scene, table, start, rows>>

Planned == AllRead /\ taken = rows

PlanNext == ReadSlice \/ \E r \in rows : TakeRow(r)

PlanSpec == PlanInit /\ [][PlanNext]_planVars

-----------------------------------------------------------------------------
(* Properties. *)

(* Every row of the table that is an acquisition, and no other, with its   *)
(* own columns: the end of a slice loses none and shifts none.             *)
SlicesJoin ==
    rows = {[table[i] EXCEPT !.at = i] :
               i \in {j \in Rows : j <= start /\ IsAcquisition(table[j])}}

(* The rows that feed one acquisition. *)
Feeding(p) == {r \in taken : p \in Places(r)}

(* Whatever order the events came in, an acquisition holds every file an   *)
(* event claims for it and no other, and the earliest of their times: the  *)
(* plan is a function of the events, not of their order.                   *)
PlanIsOrderFree ==
    /\ DOMAIN acquisitions = UNION {Places(r) : r \in taken}
    /\ \A p \in DOMAIN acquisitions :
          LET times == {r.time : r \in Feeding(p)} \ {0}
          IN  /\ DOMAIN acquisitions[p].files =
                    UNION {{q \in DOMAIN r.files : Place(r, q) = p} : r \in Feeding(p)}
              /\ IF times = {} THEN acquisitions[p].when = 0
                 ELSE /\ acquisitions[p].when \in times
                      /\ \A t \in times : acquisitions[p].when <= t
=============================================================================
