--------------------------- MODULE MCShotContainer ---------------------------
(***************************************************************************)
(* Small campaigns for ShotContainer: one shot of interest and one other,  *)
(* two or three instruments, three to five rows in every order.            *)
(***************************************************************************)
EXTENDS ShotContainer

Orders(events) ==
    LET n == Cardinality(events)
    IN  {t \in [1..n -> events] : \A i, j \in 1..n : i # j => t[i] # t[j]}

Event(id, inst, pack, time, files) ==
    [at |-> 0, id |-> id, shot |-> "s1", inst |-> inst, watch_name |-> "", watch |-> "w",
     pack |-> pack, role |-> "", time |-> time, files |-> files]

One(path, sha) == [p \in {path} |-> sha]

File(path, stem, role) ==
    [path |-> path, stem |-> stem, label |-> "set1", seq |-> None, provides |-> "full",
     parent |-> "w", role |-> role, state |-> "ok", number |-> -1, shape |-> "a", sort |-> 0]

Entered(group, name) ==
    [group |-> group, instrument_name |-> name, display |-> name, detector_name |-> "", role |-> ""]

Row(name, source, target) ==
    [name |-> name, shot |-> FALSE, source |-> source, target |-> target, derived |-> "no",
     instance |-> "", class |-> "NXcollection"]

StartTime(target) ==
    [Row("start_time", <<"entry", "start_time">>, target) EXCEPT !.shot = TRUE]

Names == <<"cam", "near", "spec", "e1", "e2", "e3", "e4", "e5", "A", "B", "C", "D", "set1", "20cm", "w", "f",
           "A.csv", "A.png", "B.png", "C.png", "D.png", "f1", "f2", "f3", "f4", "r", "S.txt", "D.tif", "">>

Ranks == [x \in {Names[i] : i \in DOMAIN Names} |-> CHOOSE i \in DOMAIN Names : Names[i] = x]

NoMappings == [i \in {} |-> None]

(* Two cameras of one family: an acquisition whose CSV event came with an  *)
(* earlier time, two more of the same camera with one ordinal, and another *)
(* camera whose own name is the one the second takes.                      *)
CountTime == Packs!CountTime

CameraFiles ==
    [p \in {"A.csv", "A.png", "B.png", "C.png", "D.png"} |->
        CASE p = "A.csv" -> File(p, "A", "sidecar")
          [] p = "A.png" -> File(p, "A", "measurement")
          [] p = "B.png" -> [File(p, "B", "measurement") EXCEPT !.seq = 7]
          [] p = "D.png" -> [File(p, "D", "measurement") EXCEPT !.seq = 7]
          [] OTHER -> File(p, "C", "measurement")]

Cameras ==
    [shot |-> "s1",
     tables |-> Orders({Event("e1", "cam", Camera, 5, One("A.png", "x")),
                        Event("e2", "cam", Camera, 3, One("A.csv", "y")),
                        Event("e3", "cam", Camera, 4, One("B.png", "z")),
                        [Event("e4", "near", Camera, 1, One("C.png", "x"))
                            EXCEPT !.role = "post_shot"],
                        Event("e5", "cam", Camera, 6, One("D.png", "z"))}),
     shots |-> [s \in {"s1"} |-> [fired_at |-> TRUE, labfrog |-> TRUE]],
     files |-> CameraFiles,
     catalogue |-> [i \in {"cam", "near"} |->
                       IF i = "cam" THEN Entered("Beam", "Cam") ELSE Entered("Beam", "Cam 7")],
     safe |-> [n \in {"Cam 7"} |-> "Cam_7"],
     rank |-> Ranks,
     mappings |-> NoMappings]

(* The same files in other states: the frame gone, the sidecar torn, a BMP *)
(* with nothing beside it, a format nothing writes, a file of another shot.*)
Troubled(csv, png) ==
    [Cameras EXCEPT
        !.tables = Orders({Event("e1", "cam", Camera, 5, One("A.png", "x")),
                           Event("e2", "cam", Camera, 3, One("A.csv", "y")),
                           [Event("e3", "cam", Camera, 0, One("B.png", "z")) EXCEPT !.shot = "s2"],
                           Event("e4", "", "unknown", 1, One("C.png", "x")),
                           Event("e5", "cam", Camera, 0, One("B.png", "z"))}),
        !.shots = [s \in {} |-> None],
        !.catalogue = [i \in {} |-> None],
        !.files = [CameraFiles EXCEPT !["A.csv"].state = csv, !["A.png"].state = png,
                                      !["B.png"].role = "bmp"]]

(* A recording streamed frame by frame, its comment, one frame of another  *)
(* camera in the same machine, and a spectrometer of a folder.             *)
Recording(states, irr8) ==
    [shot |-> "s1",
     tables |-> Orders({Event("e1", "cam", Numbered, 2,
                              [p \in {"f1", "f2"} |-> "x"]),
                        Event("e2", "cam", Numbered, 1, [p \in {"f2", "f3", "r"} |-> "y"]),
                        Event("e3", "near", Numbered, 1, One("D.tif", "x")),
                        [Event("e4", "spec", Spectrometer, 1, One("S.txt", "x"))
                            EXCEPT !.watch = "above"]}),
     shots |-> [s \in {"s1", "s2"} |-> [fired_at |-> FALSE, labfrog |-> FALSE]],
     files |-> [p \in {"f1", "f2", "f3", "r", "D.tif", "S.txt"} |->
        CASE p = "r" -> [File(p, "20cm", "sidecar") EXCEPT !.provides = "recording",
                                                          !.label = "20cm", !.state = irr8]
          [] p = "D.tif" -> [File(p, "set1", "measurement") EXCEPT !.seq = 3, !.number = 3]
          [] p = "S.txt" -> [File(p, "S", "measurement") EXCEPT !.provides = "sequence",
                                                               !.seq = 64, !.state = irr8]
          [] OTHER -> [File(p, p, "measurement") EXCEPT
                          !.provides = "recording", !.label = "20cm",
                          !.number = CASE p = "f1" -> 10 [] p = "f2" -> 2 [] OTHER -> 1,
                          !.state = IF states[p] = "b" THEN "ok" ELSE states[p],
                          !.shape = IF states[p] = "b" THEN "b" ELSE "a"]],
     catalogue |-> [i \in {"cam", "near"} |-> Entered("Beam", IF i = "cam" THEN "name" ELSE "Near")],
     safe |-> [n \in {} |-> ""],
     rank |-> Ranks @@ ("S" :> 99),
     mappings |-> NoMappings]

Recordings ==
    {Recording([p \in {"f1", "f2", "f3"} |-> IF p = "f3" THEN c ELSE IF p = "f2" THEN b ELSE a],
               irr8) :
        a \in {"ok", "b"}, b \in {"ok", "missing"}, c \in {"ok", "b", "unreadable"},
        irr8 \in {"ok", "columns", "unreadable"}}

(* Mapping rows: in place, a link, a value derived, a target taken by the  *)
(* other instrument, a target under a dataset, a row placed for another    *)
(* detector, the shot's start_time, a plot of the application definition.  *)
CamDetector == <<"entry", "Beam", "Cam">>

CamRows ==
    <<Row("exposure", CountTime, CamDetector \o CountTime),
      Row("shared", CountTime, <<"entry", "sample", "time">>),
      [Row("scaled", CountTime, <<"entry", "sample", "width">>) EXCEPT !.derived = "known"],
      [Row("odd", CountTime, <<"entry", "Cam", "data", "odd">>) EXCEPT !.derived = "unknown"],
      Row("under", CountTime, <<"entry", "title", "x">>),
      [Row("moved", CountTime, <<"entry", "Old", "x">>) EXCEPT !.instance = "Old"],
      [Row("plot", <<"raw_data", "image">>, <<"entry", "Cam", "data", "image">>)
          EXCEPT !.class = "NXdata"],
      [Row("detail", <<"raw_data", "image">>, <<"entry", "Cam", "instrument", "Cam", "image">>)
          EXCEPT !.class = "NXdetector"],
      StartTime(<<"entry", "Cam", "start_time">>),
      Row("signal", <<"raw_data", "image">>, CamDetector \o <<"data">>)>>

NearRows ==
    <<Row("shared", CountTime, <<"entry", "sample", "time">>),
      Row("taken", CountTime, CamDetector \o CountTime),
      Row("group", CountTime, <<"entry", "Beam">>),
      StartTime(<<"entry", "start_time">>)>>

Mapped(definition, near, fired, csv) ==
    [Cameras EXCEPT
        !.tables = Orders({Event("e1", "cam", Camera, 5, [p \in {"A.png", "A.csv"} |-> "x"]),
                           Event("e2", "cam", "", 1, One("B.png", "x")),
                           Event("e3", IF near = "cam" THEN "cam" ELSE "near", Camera, 4,
                                 One(IF near = "gone" THEN "B.png" ELSE "C.png", "z"))}),
        !.shots = [s \in {"s1"} |-> [fired_at |-> fired, labfrog |-> FALSE]],
        !.files = [CameraFiles EXCEPT !["A.csv"].state = csv, !["B.png"].state = "missing",
                                      !["C.png"].role = "measurement"],
        !.catalogue = [i \in {"cam", "near"} |->
                          IF i = "cam" THEN Entered("Beam", "Cam") ELSE Entered("Beam", "Near")],
        !.mappings = [i \in {"cam", "near"} |->
            IF i = "cam" THEN [instrument |-> "cam", definition |-> definition, rows |-> CamRows]
            ELSE [instrument |-> "near", definition |-> IF definition = "" THEN "" ELSE "NXfog",
                  rows |-> NearRows]]]

(* Rows where the code writes definitions: a value, many values, a group or*)
(* another mapping's claim at the entry's, and a group in a subentry's     *)
(* place, made by a mapping without a definition.                          *)
AtDefinition ==
    {<<Row("image", <<"raw_data", "image">>, Rules!EntryDefinition)>>,
     <<Row("below", CountTime, Append(Rules!EntryDefinition, "x")),
       [Row("missing", <<"none">>, <<"entry", "sample", "x">>) EXCEPT !.derived = "known"]>>,
     <<[Row("made", CountTime, <<"entry", "Near", "x">>) EXCEPT !.class = "NXsubentry"],
       Row("own", CountTime, <<"entry", "Cam", "x">>)>>,
     <<Row("own", CountTime, <<"entry", "Cam", "x">>),
       [Row("lent", <<"entry", "Cam", "definition">>, Rules!EntryDefinition) EXCEPT !.shot = TRUE],
       Row("again", CountTime, Rules!EntryDefinition)>>}

Claimed(own, definition, near) ==
    [Mapped(definition, "near", TRUE, "ok") EXCEPT
        !.tables = Orders({Event("e1", "cam", Camera, 5, [p \in {"A.png", "A.csv"} |-> "x"])}
                          \cup IF near THEN {Event("e3", "near", Camera, 4, One("C.png", "z"))}
                               ELSE {}),
        !.mappings = [i \in {"cam", "near"} |->
            IF i = "cam" THEN [instrument |-> "cam", definition |-> definition, rows |-> own]
            ELSE [instrument |-> "near", definition |-> "NXfog",
                  rows |-> <<Row("mine", CountTime, <<"entry", "Near", "y">>)>>]]]

(* An instrument without a catalogue entry, watched in two folders: each   *)
(* folder's name is a machine of its own.                                  *)
Watched ==
    [Cameras EXCEPT
        !.tables = Orders({[Event("e1", "cam", Camera, 5, One("A.png", "x")) EXCEPT !.watch_name = "left"],
                           [Event("e2", "cam", Camera, 4, One("B.png", "x")) EXCEPT !.watch_name = "right"],
                           [Event("e3", "cam", Camera, 3, One("C.png", "x")) EXCEPT !.watch_name = "left"]}),
        !.catalogue = [i \in {} |-> None]]

MCScenes ==
    {Cameras, Watched}
    \cup {Troubled(csv, png) : csv \in {"ok", "unreadable", "missing", "breaks"},
                               png \in {"ok", "missing", "unreadable"}}
    \cup Recordings
    \cup {Mapped(d, near, f, csv) : d \in {"", "NXspec"}, near \in {"cam", "near", "gone"},
                                    f \in BOOLEAN, csv \in {"ok", "missing"}}
    \cup {Claimed(own, d, near) : own \in AtDefinition, d \in {"", "NXspec"},
                                   near \in BOOLEAN}
=============================================================================
