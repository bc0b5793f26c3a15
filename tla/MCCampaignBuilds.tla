-------------------------- MODULE MCCampaignBuilds --------------------------
(* Small scenes for the runs of the builder: one about routing, with two     *)
(* campaigns, a schedule, rulings, failing builds and arrivals during a run; *)
(* others about matching within one campaign, and about the gate.             *)
EXTENDS ValidationGate, TLC

E(id, source, campaign, number, time) ==
    [id |-> id, source |-> source, campaign |-> campaign, number |-> number,
     local |-> Unknown, shotId |-> "shot", time |-> time, position |-> Unknown,
     notes |-> {}]
R(record, number, authority, day, time) ==
    [record |-> record, number |-> number, authority |-> authority, day |-> day,
     time |-> time, eventId |-> "none", position |-> Unknown, campaign |-> "A",
     active |-> FALSE, newer |-> FALSE]
At(file, e) == [file |-> file, event |-> e]

\* A day is 10 long; A and B are the campaigns, B's beamtime is the second day.
Routing ==
    [configured |-> {"A"}, schedule |-> {[campaign |-> "B", from |-> 10, to |-> 20],
                                            [campaign |-> "A", from |-> Unknown, to |-> 30]},
     autoassign |-> FALSE, overlaps |-> TRUE, halves |-> FALSE,
     events |-> {At("trigger", E("t1", "trigger", Unassigned, 1, 5)),
                 At("trigger", E("t2", "trigger", Unassigned, 2, 12)),
                 At("events", E("w", "watchdog", Unassigned, Unknown, 5))},
     rows |-> {R("r1", 1, 1, 0, 5)},
     rulings |-> {[number |-> 1, campaign |-> "A", level |-> 1],
                  [number |-> 1, campaign |-> "B", level |-> 1]},
     maxRulings |-> 2, failures |-> 1]

\* Numbers: one number in two rows of different days, typed numbers, a row
\* that replaces another, an event on two transports.
Numbers(auto) ==
    [configured |-> {"A"}, schedule |-> {}, autoassign |-> auto, overlaps |-> FALSE, halves |-> FALSE,
     events |-> {At("trigger", E("t1", "trigger", "A", 1, 5)),
                 At("events", [E("t1", "watchdog", "A", 1, 5) EXCEPT !.shotId = "run"]),
                 At("trigger", E("t2", "trigger", "A", 2, 14)),
                 At("events", [E("w", "watchdog", "A", Unknown, 7) EXCEPT !.notes = {1, 2}])},
     rows |-> {R("r1", 1, 1, 0, 6), R("r2", 1, 1, 1, 16), R("r3", 2, Unknown, 1, 14),
               R("r5", 3, Unknown, 0, 5),
               [R("r4", 1, 1, 0, 4) EXCEPT !.active = TRUE]},
     rulings |-> {}, maxRulings |-> 0, failures |-> 0]

\* Identities: ids and transport positions that rows remember, against numbers.
Identities ==
    [configured |-> {"A"}, schedule |-> {}, autoassign |-> FALSE, overlaps |-> FALSE, halves |-> FALSE,
     events |-> {At("trigger", [E("t1", "trigger", "A", 1, 5) EXCEPT !.position = 7]),
                 At("events", [E("w", "watchdog", "A", Unknown, 5) EXCEPT !.local = 1])},
     rows |-> {[R("r1", 1, 1, 0, Unknown) EXCEPT !.eventId = "w"],
               [R("r2", 2, 2, 0, 5) EXCEPT !.eventId = "t1"],
               [R("r3", 3, 1, 1, 5) EXCEPT !.position = 7],
               [R("r4", 4, 4, 1, 6) EXCEPT !.position = 7],
               [R("r5", 2, Unknown, 0, 5) EXCEPT !.newer = TRUE]},
     rulings |-> {}, maxRulings |-> 0, failures |-> 0]

\* Two rulings on one number; a failing build; lines a reader sees half of.
Ungated ==
    {[Routing EXCEPT !.failures = 0], [Routing EXCEPT !.maxRulings = 1],
     [Routing EXCEPT !.failures = 0, !.maxRulings = 0, !.halves = TRUE,
        !.events = @ \cup {At("events", E("a", "watchdog", "A", 3, 5))}],
     Numbers(FALSE), Numbers(TRUE), Identities}

\* Gates beside the builds of A, B and the bucket.  The first master of A does
\* not pass one part of the check and the second not the other; A's folder has
\* a container with a known gap, and B's one of A with a finding.
Found(folder, campaign, finding) ==
    [folder |-> folder, campaign |-> campaign, readable |-> TRUE, finding |-> finding]
Gated ==
    [gated |-> TRUE, misses |-> 0,
     defects |-> {[campaign |-> "A", run |-> 1, part |-> "definition"],
                  [campaign |-> "A", run |-> 2, part |-> "structure"]},
     containers |-> {Found("A", "A", "known"), Found("B", "A", "new")}]
ArrivingTwice ==
    [Routing EXCEPT !.events = {x \in @ : x.file = "trigger"}, !.rows = {},
                    !.rulings = {}, !.maxRulings = 0, !.failures = 0]
Unreadable == [Found("B", "A", "none") EXCEPT !.readable = FALSE]

MCScenes ==
    {s @@ [Gated EXCEPT !.gated = FALSE] : s \in Ungated} \cup
    {ArrivingTwice @@ g : g \in
       {Gated, [Gated EXCEPT !.misses = 1],
        [Gated EXCEPT !.defects = {}, !.containers = {Unreadable, Found("A", Nobody, "none")}]}}
    \cup {[ArrivingTwice EXCEPT !.failures = 1] @@ Gated}
=============================================================================
