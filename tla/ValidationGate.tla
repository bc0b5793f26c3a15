--------------------------- MODULE ValidationGate ---------------------------
(***************************************************************************)
(* ValidationGate: hzdr-nexus-validate.py over the output root, beside the *)
(* builder's runs.  A run that ends well asks for a gate; one asked for    *)
(* while another runs is remembered once.  The gate lists the masters,     *)
(* opens each several times while builds go on replacing them, looks at    *)
(* the containers of its folder, and leaves a report there.  When it ends  *)
(* the trigger logs the reports that this gate stamped.                    *)
(***************************************************************************)
EXTENDS CampaignBuilds

VARIABLES
    gate,       \* the gate running: its step, its start, the masters it has yet to check
    again,      \* another was asked for meanwhile
    gates,      \* number of gates started: the clock that stamps the reports
    reports,    \* .validation.json of each campaign folder that has one
    logged,     \* the results the trigger logged when the last gate ended
    exit,       \* its exit status
    misses      \* number of gates and checks that failed by themselves

gateVars == <<gate, again, gates, reports, logged, exit, misses>>
gatedVars == <<vars, gateVars>>

Parts == {"structure", "definition"}
Nobody == "-"

\* A scene says whether there is a gate, which masters do not pass which part,
\* and what is in the folders' shots/.
ASSUME GateConstants ==
    \A s \in Scenes :
        /\ s.gated \in BOOLEAN /\ s.misses \in Nat
        /\ s.defects \subseteq [campaign : Campaigns, run : Nat, part : Parts]
        /\ s.containers \subseteq
             [folder : Campaigns, campaign : Campaigns \cup {Nobody},
              readable : BOOLEAN, finding : {"none", "known", "new"}]
-----------------------------------------------------------------------------
Idle == [at |-> "none", since |-> 0, base |-> <<>>, todo |-> {}, campaign |-> Nobody,
         first |-> 0, failed |-> FALSE]
Version(c) == catalog[c].run

GateInit ==
    /\ Init
    /\ gate = Idle /\ again = FALSE /\ gates = 0 /\ logged = {} /\ exit = "none"
    /\ reports = [c \in {} |-> <<>>] /\ misses = 0

\* _spawn_validation: the time of the start, then the process.
Starts ==
    /\ gates' = gates + 1
    /\ gate' = [Idle EXCEPT !.at = "list", !.since = gates + 1,
                            !.base = [c \in DOMAIN catalog |-> Version(c)]]

Ask ==
    IF gate.at = "none"
    THEN Starts /\ UNCHANGED <<again, reports, logged, exit, misses>>
    ELSE again' = TRUE /\ UNCHANGED <<gate, gates, reports, logged, exit, misses>>

\* Only a run whose builds all succeeded exits 0 and is followed by a gate.
RunEndsWell == run.at = "building" /\ run'.at = "none" /\ run.failed = {}

Build ==
    /\ Next
    /\ IF RunEndsWell /\ scene.gated THEN Ask ELSE UNCHANGED gateVars
-----------------------------------------------------------------------------
\* _masters: the folders with a master of the folder's name.  The bucket's has
\* another, and is not checked.
Masters == DOMAIN catalog \ {Bucket}
ListMasters ==
    /\ gate.at = "list"
    /\ gate' = [gate EXCEPT !.at = "load", !.todo = Masters]
    /\ UNCHANGED <<vars, again, gates, reports, logged, exit, misses>>

LoadValidator ==
    /\ gate.at = "load"
    /\ gate' = [gate EXCEPT !.at = "next"]
    /\ UNCHANGED <<vars, again, gates, reports, logged, exit, misses>>

\* The structural check opens the master ...
CheckStructure(c) ==
    /\ gate.at = "next" /\ c \in gate.todo
    /\ gate' = [gate EXCEPT !.at = "open", !.campaign = c, !.first = Version(c)]
    /\ UNCHANGED <<vars, again, gates, reports, logged, exit, misses>>

\* A container counts against the campaign it names, and against its folder's
\* if it names none.  One that cannot be read is an error of its own; the gaps
\* that everybody has are none.
Counts(container, c) ==
    container.folder = c /\ (container.readable => container.campaign \in {c, Nobody})
ContainerPasses(container) == container.readable /\ container.finding # "new"
ContainersPass(c) ==
    \A container \in scene.containers : Counts(container, c) => ContainerPasses(container)

Passes(c, first, second) ==
    /\ [campaign |-> c, run |-> first, part |-> "structure"] \notin scene.defects
    /\ [campaign |-> c, run |-> second, part |-> "definition"] \notin scene.defects
    /\ ContainersPass(c)

WithReport(c, report) ==
    [d \in DOMAIN reports \cup {c} |-> IF d = c THEN report ELSE reports[d]]

\* ... pynxtools and the links open it again; the report is stamped and replaced.
CheckDefinition ==
    LET c == gate.campaign
        passed == Passes(c, gate.first, Version(c))
    IN /\ gate.at = "open"
       /\ reports' = WithReport(c, [ran |-> TRUE, passed |-> passed, stamp |-> gate.since,
                                    read |-> {gate.first, Version(c)}])
       /\ gate' = [gate EXCEPT !.at = "next", !.todo = @ \ {c},
                               !.failed = gate.failed \/ ~passed]
       /\ UNCHANGED <<vars, again, gates, logged, exit, misses>>
-----------------------------------------------------------------------------
\* What a report says, and the version that was published as the gate began.
Result(c) == [read |-> reports[c].read, passed |-> reports[c].passed,
              base |-> IF c \in DOMAIN gate.base THEN gate.base[c] ELSE 0]
\* Mutant of Results: whatever reports there are.
AllResults == {Result(c) : c \in {d \in DOMAIN reports : reports[d].ran}}

\* _validation_reports: not the reports older than the start.
Results ==
    {Result(c) : c \in {d \in DOMAIN reports : reports[d].ran /\ reports[d].stamp >= gate.since}}

\* Mutant of Ends: what was asked for meanwhile is forgotten.
EndsForgetting(status, results) ==
    /\ exit' = status /\ logged' = results
    /\ again' = FALSE /\ gate' = Idle /\ UNCHANGED gates

\* _reap_validation: log, then the follow-up.
Ends(status, results) ==
    /\ exit' = status /\ logged' = results
    /\ again' = FALSE
    /\ IF again THEN Starts ELSE gate' = Idle /\ UNCHANGED gates

GateEnds ==
    /\ gate.at = "next" /\ gate.todo = {}
    /\ Ends(IF gate.failed THEN "failed" ELSE "passed", Results)
    /\ UNCHANGED <<vars, reports, misses>>

Misses == misses < scene.misses /\ misses' = misses + 1

\* One that raises leaves its folder's older report; the others are checked.
CheckRaises ==
    /\ gate.at = "open" /\ Misses
    /\ gate' = [gate EXCEPT !.at = "next", !.todo = @ \ {gate.campaign}, !.failed = TRUE]
    /\ UNCHANGED <<vars, again, gates, reports, logged, exit>>

\* CANNOT_RUN: a report saying so over each that could linger.
NotRun == [ran |-> FALSE, passed |-> FALSE, stamp |-> gate.since, read |-> {}]
CannotRun ==
    /\ gate.at = "load" /\ Misses
    /\ reports' = [c \in DOMAIN reports \cup gate.todo |->
                     IF c \in gate.todo THEN NotRun ELSE reports[c]]
    /\ Ends("not run", {})
    /\ UNCHANGED vars

\* Killed: a status like that of a failed gate.
GateDies ==
    /\ gate.at # "none" /\ Misses
    /\ Ends("failed", Results)
    /\ UNCHANGED <<vars, reports>>

Gate ==
    \/ ListMasters \/ LoadValidator \/ CheckDefinition \/ GateEnds
    \/ \E c \in Campaigns : CheckStructure(c)
GateFails == CheckRaises \/ CannotRun \/ GateDies

GatedNext == Build \/ Gate \/ GateFails
GatedSpec == GateInit /\ [][GatedNext]_gatedVars
-----------------------------------------------------------------------------
\* No result that is logged is of a master replaced before the gate began, as
\* one would be that an earlier gate left in a folder.
LoggedIsOfTheGate == \A result \in logged : \A version \in result.read : version >= result.base

\* What is logged, the gate itself found.  And with no run and no gate going on,
\* the last run having ended well and no gate having failed by itself, every
\* campaign's master has a report that speaks of it alone, although gates read
\* masters in parts while builds replaced them: the report says what a check of
\* that master would, and the last exit status sums the reports up.
ResultsAreCurrent ==
    /\ LoggedIsOfTheGate
    /\ (/\ scene.gated /\ runs > 0 /\ misses = 0
        /\ run.at = "none" /\ run.failed = {} /\ gate.at = "none")
       => /\ \A c \in Masters :
               /\ c \in DOMAIN reports
               /\ reports[c].read = {Version(c)}
               /\ reports[c].passed = Passes(c, Version(c), Version(c))
          /\ exit = IF \A c \in Masters : reports[c].passed THEN "passed" ELSE "failed"
=============================================================================
