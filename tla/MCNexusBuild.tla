---------------------------- MODULE MCNexusBuild ----------------------------
(* Small scenes for builds of one campaign's file: one with a NeXus export    *)
(* that LabFrog replaces, one with a table of DAMNIT's own, one where names   *)
(* meet under /entry/instrument, one where nobody says which campaign it is.  *)
EXTENDS NexusBuild

\* The compact table of the NeXus export.
N(record, number, authority, time) ==
    [record |-> record, number |-> number, authority |-> authority, day |-> Unknown, timeDay |-> 0,
     time |-> time, campaign |-> "", newer |-> FALSE, status |-> ""]

NoTarget ==
    [name |-> "", display |-> "", material |-> "", notes |-> "", source |-> "", page |-> "", ref |-> "",
     type |-> "", thickness |-> Unknown, unit |-> "", pressure |-> Unknown, pressureUnit |-> "",
     extras |-> <<>>]
\* The SQLite export; ids are ranked as they are listed.
S(record, rank, number, authority, time) ==
    [record |-> record, rank |-> rank, number |-> number, authority |-> authority, localDay |-> 0,
     utcDay |-> Unknown, local |-> time, utc |-> Unknown, campaign |-> "", experiment |-> "",
     status |-> "", eventId |-> <<"none">>, position |-> Unknown, target |-> NoTarget, energy |-> Unknown]
M(record, number, claims, meta) ==
    [record |-> record, number |-> number, claims |-> claims, day |-> 0, time |-> Unknown,
     campaign |-> "", meta |-> meta]

T(name, campaign, number, time) ==
    [form |-> "envelope", id |-> GivenId(name), campaign |-> campaign, number |-> number, channel |-> "ch",
     time |-> time, role |-> "", ref |-> [key |-> name], refs |-> <<>>, values |-> {}, instrument |-> ""]
Old(campaign, number, time) ==
    [T("old", campaign, number, time) EXCEPT !.form = "legacy", !.id = NoId, !.refs = [filepath |-> "f"]]
W(number, time) ==
    [form |-> "watchdog", number |-> number, shotId |-> <<>>, time |-> time, watch |-> "images",
     ref |-> [uri |-> "u", path |-> "p"], refs |-> [offset |-> 4], notes |-> {}, instrument |-> "camera"]
E(name, campaign, number, time, meta) ==
    [form |-> "event", whole |-> TRUE,
     event |-> [id |-> GivenId(name), source |-> "daq", campaign |-> campaign, number |-> number,
                local |-> Unknown, shotId |-> ShotId(number), time |-> time, position |-> Unknown,
                notes |-> {}, kind |-> <<"daq">>, transport |-> "asapo", ref |-> <<>>,
                values |-> {<<1>>}, instrument |-> "camera", meta |-> meta]]
Export(rows) == [rows |-> rows, groups |-> {"log"}, arrays |-> <<"energy">>]

Scene ==
    [explicit |-> "A", stem |-> "A", config |-> [wavelength |-> 800], autoassign |-> FALSE,
     seeds |-> TRUE, drops |-> FALSE, exports |-> <<>>, curated |-> <<>>, mongo |-> <<>>,
     arrivals |-> <<>>, first |-> [exported |-> 0, curated |-> 0]]

\* An export gains a row, then is put in another order; a build is run without it.
Foil == [NoTarget EXCEPT !.name = "foil", !.page = "p", !.type = "wafer", !.thickness = 2, !.unit = "um"]
Gas == [NoTarget EXCEPT !.display = "gas", !.source = "operator", !.type = "jet", !.thickness = 3,
                        !.unit = "inch", !.pressure = 5, !.pressureUnit = "bar"]
Exports ==
    [Scene EXCEPT !.drops = TRUE,
        !.exports = << Export(<<N("r1", 1, 1, 4), N("r2", 2, Unknown, 6)>>),
                       Export(<<N("r1", 1, 1, 4), N("r2", 2, 2, 6), N("r3", 3, 3, 8)>>),
                       Export(<<N("r3", 3, 3, 8), N("r1", 1, 1, 4)>>) >>,
        !.curated = << [rows |-> {[S("r1", 1, 1, 1, 4) EXCEPT !.target = Foil, !.energy = 7],
                                  [S("r2", 2, 2, Unknown, 6) EXCEPT !.target = Gas, !.status = "active"],
                                  [S("r4", 3, 2, 2, 6) EXCEPT !.status = "deleted"]},
                        variables |-> {[record |-> "r1", name |-> "gain", value |-> 3]}] >>,
        !.mongo = <<M("r2", 2, <<2>>, [laser |-> [pulse_energy |-> 9]]), M("r9", Unknown, <<>>, <<>>)>>,
        !.arrivals = << T("t1", Unassigned, 1, 4), T("t9", "A", 9, 9),
                        E("e1", "A", 1, 4, [laser |-> [pulse_energy |-> 8], diagnostic |-> [log |-> 1, probe |-> 2]]) >>,
        !.first = [exported |-> 1, curated |-> 1]]

\* The authority takes a number away from the campaign's only row of it.
Own ==
    [Scene EXCEPT
        !.curated = << [rows |-> {S("r1", 1, 1, 1, 4), S("r2", 2, 2, 2, 6)}, variables |-> {}],
                       [rows |-> {S("r1", 1, 1, 5, 4), S("r2", 2, 2, 2, 6)}, variables |-> {}] >>,
        !.arrivals = << T("t1", Unassigned, 1, 4), Old("A", 2, 6),
                        E("e1", Unassigned, 1, 4, [diagnostic |-> [probe |-> 2], vacuum |-> [pressure |-> 1]]),
                        W(2, 6), T("t3", Unassigned, 3, 7) >>,
        !.first = [exported |-> 0, curated |-> 1]]

\* A diagnostic is called like an instrument; an instrument like a group of LabFrog's.
Names ==
    [Scene EXCEPT
        !.exports = << Export(<<N("r1", 1, 1, 4)>>),
                       [Export(<<N("r1", 1, 1, 4)>>) EXCEPT !.groups = {"camera"}] >>,
        !.arrivals = << E("e1", "A", 1, 4, <<>>),
                        [E("e2", "A", 1, 5, [diagnostic |-> [camera |-> 1]]) EXCEPT !.event.values = {<<>>}] >>,
        !.first = [exported |-> 1, curated |-> 0]]

\* Nobody names the campaign but the documents; one cannot be read.
Inferred ==
    [Scene EXCEPT !.explicit = "", !.stem = "", !.autoassign = TRUE, !.config = <<>>,
        !.curated = << [rows |-> {[S("r1", 1, 1, 1, 4) EXCEPT !.experiment = "B", !.campaign = "A"],
                                  [S("r2", 2, 2, 2, 5) EXCEPT !.experiment = "B", !.campaign = "A"]},
                        variables |-> {}] >>,
        !.arrivals = << W(1, 4), T("t1", Unassigned, 2, 5), T("t7", Unassigned, Unknown, 5),
                        E("e1", "A", 2, 5, <<>>),
                        [E("e2", "A", 1, 4, <<>>) EXCEPT !.event.values = {<<1, 2, 3>>}] >>,
        !.first = [exported |-> 0, curated |-> 1]]

\* No rows at all: two shots of one day and number, that differ in what they are called.
Alone ==
    [Scene EXCEPT !.arrivals = << T("t1", "A", 1, 4), [W(1, 4) EXCEPT !.shotId = <<"own">>],
                                  T("t0", "A", 0, 3) >>]

\* A row whose number only the other export has.
Untyped ==
    [Scene EXCEPT !.exports = << Export(<<N("r1", Unknown, 1, 4)>>) >>,
        !.curated = << [rows |-> {S("r1", 1, 1, 1, 4)}, variables |-> {}] >>,
        !.first = [exported |-> 1, curated |-> 1]]

MCScenes == {Alone, Untyped, Exports, [Exports EXCEPT !.seeds = FALSE], Own, Names, Inferred}
=============================================================================
