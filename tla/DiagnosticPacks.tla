--------------------------- MODULE DiagnosticPacks ---------------------------
(***************************************************************************)
(* The diagnostic packs (hzdr_packs/): one acquisition's files into one    *)
(* detector group.  A pack never fails its container: a file that is       *)
(* missing or cannot be read costs what it would have written, and is      *)
(* said.  What a pack leaves in the group is abstracted to the datasets    *)
(* that tell a detector apart: its arrays, its settings and the signal of  *)
(* its plot.                                                               *)
(*                                                                         *)
(* A file is a record: role ("measurement", "sidecar", "bmp"), state       *)
(* ("ok", "missing", "unreadable", and for some readers "columns", "no     *)
(* columns", "breaks"), the number at the end of its name (-1: none) and   *)
(* the size of its frame.                                                  *)
(***************************************************************************)
EXTENDS Integers, Sequences, FiniteSets

CONSTANT None

Image == <<"raw_data", "image">>
Columns == <<"raw_data", "wave">>
Irradiance == <<"raw_data", "absolute_irradiance">>
CountTime == <<"count_time">>
SequenceNumber == <<"raw_data", "sequence_number">>

(* What a pack wrote: arrays, single values, the signal of its plot, what it says. *)
Wrote(arrays, values, plot, says) ==
    [arrays |-> arrays, values |-> values, plot |-> plot, says |-> says]

Nothing(says) == Wrote({}, {}, None, says)

(* A detector is kept for a plot, or at least an array. *)
Keeps(wrote) == wrote.plot # None \/ wrote.arrays # {}

First(files, Test(_)) ==
    LET fit == SelectSeq(files, Test) IN IF fit = <<>> THEN None ELSE Head(fit)

IsMeasurement(file) == file.role = "measurement"
IsSidecar(file) == file.role = "sidecar"
IsBmp(file) == file.role = "bmp"

-----------------------------------------------------------------------------
(* Cameras: a frame and its CSV.  A PNG wins over an opted-in BMP; a BMP   *)
(* with no readable CSV has only what its name says.  An exception in the  *)
(* CSV's settings comes after the frame was written.                       *)

CameraWrites(files) ==
    LET png == First(files, IsMeasurement)
        csv == First(files, IsSidecar)
        bmp == IF png # None THEN None ELSE First(files, IsBmp)
        frame == IF png # None THEN png ELSE bmp
        reads == frame # None /\ frame.state = "ok"
        there == csv # None /\ csv.state # "missing"
        metadata == there /\ csv.state # "unreadable"
        image == IF reads THEN {Image} ELSE {}
        plot == IF reads THEN Image ELSE None
        says == (IF there /\ ~metadata THEN {"unreadable sidecar"} ELSE {})
                \cup (IF ~there /\ bmp = None THEN {"missing sidecar"} ELSE {})
                \cup (IF reads THEN {}
                      ELSE {IF frame = None \/ frame.state = "missing"
                            THEN "missing image" ELSE "unreadable image"})
    IN  CASE bmp # None /\ ~metadata -> Wrote(image, {SequenceNumber}, plot, says)
          [] ~(bmp # None /\ ~metadata) /\ metadata /\ csv.state = "breaks" ->
                Wrote(image, {SequenceNumber}, plot, {"conversion failed"})
          [] OTHER ->
                Wrote(image, {SequenceNumber} \cup (IF metadata THEN {CountTime} ELSE {}),
                      plot, says)

-----------------------------------------------------------------------------
(* Spectrometers: the columns of one export, and a plot when the pair of   *)
(* wavelength and irradiance is among them.                                *)

SpectrometerWrites(files) ==
    LET source == First(files, IsMeasurement)
    IN  CASE source = None -> Nothing({"missing Irr8 file"})
          [] source # None /\ source.state = "missing" -> Nothing({"missing Irr8 file"})
          [] source # None /\ source.state = "unreadable" -> Nothing({"could not read"})
          [] source # None /\ source.state = "no columns" -> Nothing({"no data columns"})
          [] source # None /\ source.state = "columns" ->
                Wrote({Columns}, {CountTime}, None, {"no pair to plot"})
          [] OTHER -> Wrote({Columns, Irradiance}, {CountTime}, Irradiance, {})

-----------------------------------------------------------------------------
(* Frames numbered by set and ordinal, or a recording's frames.  More than *)
(* one frame is a recording: its stack is written frame by frame.          *)

Frames(files) == SelectSeq(files, LAMBDA f : ~IsSidecar(f))

(* Frames by the number in their name, those without one last. *)
FrameBefore(f, g) ==
    \/ f.number >= 0 /\ (g.number < 0 \/ f.number < g.number)
    \/ f.number = g.number /\ f.sort < g.sort

InFrameOrder(files) ==
    LET frames == Frames(files)
        place(i) == Cardinality({j \in DOMAIN frames :
                        j # i /\ FrameBefore(frames[j], frames[i])}) + 1
    IN  [n \in DOMAIN frames |-> frames[CHOOSE i \in DOMAIN frames : place(i) = n]]

(* The stack: positions so far, the frame or zeros (None) at each once the *)
(* dataset exists, and the flag of each.                                   *)
EmptyStack == [length |-> 0, made |-> FALSE, frames |-> <<>>, readable |-> <<>>, shape |-> None]

Resized(frames, n) == [i \in 1..n |-> IF i <= Len(frames) THEN frames[i] ELSE None]

(* Mutant: a position skipped before the dataset exists is not counted in it. *)
SkipUncounted(stack) ==
    LET n == stack.length + 1
    IN  [stack EXCEPT !.length = IF stack.made THEN n ELSE @,
                      !.frames = IF stack.made THEN Resized(@, n) ELSE @,
                      !.readable = Append(@, FALSE)]

(* FrameStack.skip: a position with no frame, zeros. *)
Skip(stack) ==
    LET n == stack.length + 1
    IN  [stack EXCEPT !.length = n,
                      !.frames = IF stack.made THEN Resized(@, n) ELSE @,
                      !.readable = Append(@, FALSE)]

(* FrameStack.append: the first frame that reads makes the dataset, as     *)
(* long as the positions skipped before it.                                *)
Push(stack, frame) ==
    LET n == stack.length + 1
        made == IF stack.made THEN stack.frames ELSE Resized(<<>>, stack.length)
    IN  [length |-> n, made |-> TRUE,
         frames |-> [Resized(made, n) EXCEPT ![n] = frame],
         readable |-> Append(stack.readable, TRUE),
         shape |-> frame.shape]

(* A frame that will not read, or is not the first frame's size, is skipped. *)
Stacked(stack, frame) ==
    IF frame.state # "ok" \/ (stack.made /\ frame.shape # stack.shape)
    THEN Skip(stack) ELSE Push(stack, frame)

(* The recorder comment, the ordinal, and what the frames came to. *)
SequenceWrites(files, seq, stack) ==
    LET frames == InFrameOrder(files)
        comment == First(files, IsSidecar)
        read == comment # None /\ comment.state = "ok"
        values == (IF seq # None THEN {SequenceNumber} ELSE {})
                  \cup (IF read THEN {CountTime} ELSE {})
        grumble == IF comment # None /\ comment.state = "unreadable"
                   THEN {"unreadable recorder comment"} ELSE {}
        image == CASE Len(frames) > 1 -> stack.made
                   [] Len(frames) = 1 -> frames[1].state = "ok"
                   [] OTHER -> FALSE
        says == CASE Len(frames) > 1 /\ ~stack.made -> {"no frame could be read"}
                  [] Len(frames) > 1 /\ stack.made /\ \E i \in DOMAIN stack.readable :
                        ~stack.readable[i] -> {"frames could not be written"}
                  [] Len(frames) = 1 /\ frames[1].state = "unreadable" -> {"unreadable frame"}
                  [] Len(frames) = 0 \/ (Len(frames) = 1 /\ frames[1].state = "missing") ->
                        {"missing frame"}
                  [] OTHER -> {}
    IN  Wrote(IF image THEN {Image} ELSE {}, values, IF image THEN Image ELSE None,
              says \cup grumble)
=============================================================================
