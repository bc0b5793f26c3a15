--------------------------- MODULE CampaignBuilds ---------------------------
(***************************************************************************)
(* CampaignBuilds: a run of the builder over every campaign (build_all).   *)
(* Spools, LabFrog exports and rulings grow at any time.  A run takes the  *)
(* exports and the rulings once, lists the campaigns, and builds one after *)
(* the other, the bucket of unassigned events last; each build reads the   *)
(* spools again, takes the events that resolve to its campaign, matches    *)
(* them, and replaces its campaign's entry in the shared catalog.          *)
(***************************************************************************)
EXTENDS Matching

CONSTANTS
    Campaigns,      \* campaigns there can be
    Scenes          \* settings, and what can arrive: one of them is chosen

\* Where a consumer puts an event: of several copies the first read counts.
\* The campaign's own files come before the shared ones, triggers last.
Files == {"events", "trigger"}
RankOf(file, e) ==
    (IF file = "events" THEN 0 ELSE 2) + (IF e.campaign = Unassigned THEN 1 ELSE 0)

ASSUME BuildsConstants ==
    /\ Unassigned \notin Campaigns
    /\ \A s \in Scenes :
          s.configured \subseteq Campaigns /\ s.failures \in Nat /\ s.autoassign \in BOOLEAN

\* The schema has a producer derive an id from the envelope, campaign, number
\* and time included (event-schema.md:41): copies of an event agree on them.
SameEnvelope(e, f) == e.campaign = f.campaign /\ e.number = f.number /\ e.time = f.time
ASSUME EventsAgree ==
    \A s \in Scenes : \A x, y \in s.events :
        /\ x.event.time \in Int
        /\ x.event.id = y.event.id => SameEnvelope(x.event, y.event)

\* A row is known by its record.
ASSUME RowsAreRecords ==
    \A s \in Scenes : \A r, q \in s.rows :
        /\ r \in [record : {r.record}, number : Int, authority : Int, day : Int, time : Int,
                  eventId : {r.eventId}, position : Int, campaign : Campaigns,
                  active : BOOLEAN, newer : BOOLEAN]
        /\ r.record # "-"
        /\ r.record = q.record => r = q

VARIABLES
    scene,      \* configured, schedule, autoassign; arriving events, rows, rulings; failures
    spool,      \* copies of events: [file, event]
    exports,    \* LabFrog rows, each with the campaign whose export has it
    rulings,    \* lines of the sidecar: [number, campaign, level]
    writing,    \* copies whose line is in its file in part
    asked,      \* something arrived since the last run began
    run,        \* the run going on: what it loaded, the campaigns it has yet to build
    runs,       \* number of the last run begun
    catalog,    \* entry of each campaign ever built
    failures    \* number of builds that failed by themselves

inputs == <<spool, exports, rulings, writing>>
vars == <<scene, inputs, asked, run, runs, catalog, failures>>
-----------------------------------------------------------------------------
Bucket == Unassigned
NoRun == [at |-> "none", spooled |-> {}, active |-> {}, exports |-> {}, rulings |-> <<>>,
          todo |-> {}, failed |-> {}]

\* load_experiment_rulings: highest level, the latest of equals.
Winning(lines) ==
    [n \in {lines[i].number : i \in DOMAIN lines} |->
       LET mine == {i \in DOMAIN lines : lines[i].number = n}
       IN lines[CHOOSE i \in mine : \A j \in mine :
                  \/ lines[j].level < lines[i].level
                  \/ lines[j].level = lines[i].level /\ j <= i].campaign]

Shared == {x \in spool : x.event.campaign = Unassigned}
\* discover_spool_campaigns: a campaign with a spool folder.
Spooled == {x.event.campaign : x \in spool} \ {Unassigned}
ExportOf(c, rows) == MarkSuperseded({r \in rows : r.campaign = c})

\* load_campaign_schedule, _schedule_windows: a row without its days, or that
\* ends before it begins, is no window.
Windows(schedule) ==
    {w \in schedule : w.from # Unknown /\ w.to # Unknown /\ w.from < w.to}

\* Mutant of CampaignOf: every build reads the rulings anew.
RuledAnew(e) == Resolve(e, run.exports, Windows(scene.schedule), Winning(rulings))

\* resolve_event_experiments over the records of the run's active campaigns.
CampaignOf(e) == Resolve(e, run.exports, Windows(scene.schedule), run.rulings)

Init ==
    /\ scene \in Scenes
    /\ spool = {} /\ exports = {} /\ rulings = <<>> /\ writing = {}
    /\ asked = FALSE /\ run = NoRun /\ runs = 0
    /\ catalog = [c \in {} |-> <<>>]
    /\ failures = 0
-----------------------------------------------------------------------------
MayArrive == scene.overlaps \/ run.at = "none"

\* A consumer writes a line: a reader may find the first part of it alone.
BeginLine(x) ==
    /\ scene.halves /\ x \in scene.events \ (spool \cup writing) /\ MayArrive
    /\ writing' = writing \cup {x}
    /\ UNCHANGED <<scene, spool, exports, rulings, asked, run, runs, catalog, failures>>

\* The line is complete, and the consumer asks for a build.
Spool(x) ==
    /\ x \in scene.events \ spool /\ MayArrive
    /\ scene.halves => x \in writing
    /\ spool' = spool \cup {x} /\ writing' = writing \ {x}
    /\ asked' = TRUE
    /\ UNCHANGED <<scene, exports, rulings, run, runs, catalog, failures>>

\* LabFrog exports a row.
Export(r) ==
    /\ r \in scene.rows \ exports /\ MayArrive
    /\ exports' = exports \cup {r}
    /\ asked' = TRUE
    /\ UNCHANGED <<scene, spool, rulings, writing, run, runs, catalog, failures>>

\* append_experiment_ruling, and request_rebuild.
Rule(ruling) ==
    /\ Len(rulings) < scene.maxRulings /\ MayArrive
    /\ rulings' = Append(rulings, ruling)
    /\ asked' = TRUE
    /\ UNCHANGED <<scene, spool, exports, writing, run, runs, catalog, failures>>
-----------------------------------------------------------------------------
\* load_normalized_events, load_json_records: a line that does not parse raises.
Readable(c) == \A x \in writing : x.event.campaign # c

\* The shared files, the active campaigns' exports, the schedule and the rulings
\* are read before the first build: the run dies with any of them.
RunDies ==
    /\ asked /\ run.at = "none"
    /\ \/ ~Readable(Unassigned) /\ failures' = failures
       \/ failures < scene.failures /\ failures' = failures + 1
    /\ asked' = FALSE /\ runs' = runs + 1
    /\ run' = [NoRun EXCEPT !.failed = scene.configured \cup Spooled \cup {Bucket}]
    /\ UNCHANGED <<scene, inputs, catalog>>

\* Mutant of StartRun: only campaigns with a folder of their own are built.
OnlyActive ==
    LET active == scene.configured \cup Spooled
        records == UNION {ExportOf(c, exports) : c \in active}
    IN /\ asked /\ run.at = "none" /\ Readable(Unassigned)
       /\ run' = [at |-> "building", spooled |-> Spooled, active |-> active, exports |-> records,
                  rulings |-> Winning(rulings), todo |-> active \cup {Bucket}, failed |-> {}]
       /\ runs' = runs + 1
       /\ asked' = FALSE
       /\ UNCHANGED <<scene, inputs, catalog, failures>>

\* A run loads what holds for all its builds, and lists the campaigns.
StartRun ==
    LET active == scene.configured \cup Spooled
        records == UNION {ExportOf(c, exports) : c \in active}
        winning == Winning(rulings)
        resolved == {Resolve(x.event, records, Windows(scene.schedule), winning) : x \in Shared}
    IN /\ asked /\ run.at = "none" /\ Readable(Unassigned)
       /\ run' = [at |-> "building", spooled |-> Spooled, active |-> active, exports |-> records,
                  rulings |-> winning, todo |-> active \cup resolved \cup {Bucket},
                  failed |-> {}]
       /\ runs' = runs + 1
       /\ asked' = FALSE
       /\ UNCHANGED <<scene, inputs, catalog, failures>>

Turn(c) == c \in run.todo /\ (c = Bucket => run.todo = {Bucket})

\* The records a build matches with: the run's for an active campaign, its
\* own export for one that was only resolved to, none for the bucket.
RowsOf(c) ==
    IF c = Bucket THEN {}
    ELSE IF c \in run.active THEN {r \in run.exports : r.campaign = c}
    ELSE ExportOf(c, exports)

\* The campaign's files, if its folder was there when the run began, and the
\* shared ones, as they are now.
Taken(c) ==
    Deduplicated({[rank |-> RankOf(x.file, x.event), event |-> x.event] :
                    x \in {y \in spool : /\ \/ y.event.campaign = Unassigned
                                            \/ y.event.campaign = c /\ c \in run.spooled
                                         /\ CampaignOf(y.event) = c}})

BuildCampaign(c) ==
    LET result == Reconcile(Taken(c), RowsOf(c), c, scene.autoassign)
    IN /\ run.at = "building" /\ Turn(c) /\ Readable(Unassigned)
       /\ c \in run.spooled => Readable(c)
       /\ catalog' = [d \in DOMAIN catalog \cup {c} |->
                        IF d = c THEN [run |-> runs, rows |-> RowsOf(c), result |-> result]
                        ELSE catalog[d]]
       /\ run' = [run EXCEPT !.todo = @ \ {c}]
       /\ UNCHANGED <<scene, inputs, asked, runs, failures>>

\* By a line it cannot read, or anything else; the others are built all the same.
CampaignFails(c) ==
    /\ run.at = "building" /\ Turn(c)
    /\ \/ /\ ~Readable(Unassigned) \/ (c \in run.spooled /\ ~Readable(c))
          /\ failures' = failures
       \/ failures < scene.failures /\ failures' = failures + 1
    /\ run' = [run EXCEPT !.todo = @ \ {c}, !.failed = @ \cup {c}]
    /\ UNCHANGED <<scene, inputs, asked, runs, catalog>>

EndRun ==
    /\ run.at = "building" /\ run.todo = {}
    /\ run' = [NoRun EXCEPT !.failed = run.failed]
    /\ UNCHANGED <<scene, inputs, asked, runs, catalog, failures>>

Arrive ==
    \/ \E x \in scene.events : BeginLine(x) \/ Spool(x)
    \/ \E r \in scene.rows : Export(r)
    \/ \E ruling \in scene.rulings : Rule(ruling)
Work == StartRun \/ RunDies \/ (\E c \in Campaigns \cup {Bucket} : BuildCampaign(c)) \/ EndRun
Next == Arrive \/ Work \/ \E c \in Campaigns \cup {Bucket} : CampaignFails(c)

Spec == Init /\ [][Next]_vars
-----------------------------------------------------------------------------

Events(c) == {e.id : e \in DOMAIN catalog[c].result.verdicts}
Rebuilt == {c \in DOMAIN catalog : catalog[c].run = runs}

\* Within one run no event goes to two campaigns, whatever is spooled, ruled
\* or exported while it runs, and whichever builds fail.
RoutedOnce ==
    \A c, d \in Rebuilt : c # d => Events(c) \cap Events(d) = {}

\* What a reader of an entry can find: attached to a shot, or up for review.
Visible(c) ==
    {e.id : e \in {f \in DOMAIN catalog[c].result.verdicts :
        LET verdict == catalog[c].result.verdicts[f]
        IN verdict.shots # {} \/ verdict.quality \in {"ambiguous", "unmatched"}}}
\* No run goes on, nothing arrived since the last one began, and its builds
\* met no failure but that of a line not yet complete.
Settled == run.at = "none" /\ ~asked /\ writing = {} /\ failures = 0
Numberless(c) == {e.id : e \in {f \in DOMAIN catalog[c].result.verdicts :
                                    EventNumber(f) = Unknown /\ catalog[c].rows = {}}}

\* "Nothing is dropped" (architecture.md:91): once things have settled, every spooled event is visible in the
\* entry of a campaign that this run built, or of the bucket: the campaigns a
\* run lists are those its builds route to, and a build that failed on a line
\* being written is followed by another, since a line is announced when it is
\* complete.  Left out are events without a number in a campaign without LabFrog
\* rows, the bucket above all: nothing matches them and they get no status, so
\* that they are in its NeXus file only, although "review lists" them there.
NothingDropped ==
    (Settled /\ runs > 0) =>
      \A x \in spool : \E c \in Rebuilt :
         x.event.id \in Visible(c) \cup Numberless(c)

\* Ruling A7: what may attach without auto-assignment is an identity - the
\* event's id, else its transport position, else the authority's number, in
\* which the day decides between several rows - that names a single current row.
Named(e, rows) ==
    LET current == Current(rows)
    IN IF ById(e, current) # {} THEN ById(e, current)
       ELSE IF ByPosition(e, current) # {} THEN ByPosition(e, current)
       ELSE IF Several(ByNumber(e, current)) THEN ByDay(e, current)
       ELSE ByNumber(e, current)
AttachedByIdentity ==
    ~scene.autoassign => \A c \in DOMAIN catalog :
      LET it == catalog[c] IN
      \A e \in DOMAIN it.result.verdicts :
         LET verdict == it.result.verdicts[e]
         IN verdict.quality # "event_identity" =>
              verdict.shots = {RowShot(c, r) : r \in If(One(Named(e, it.rows)), Named(e, it.rows))}

\* An attached event stays with its row from build to build: it moves only if
\* a new row names it, or its own row has changed or is history.
Names(r, e) == r \in ById(e, {r}) \cup ByPosition(e, {r}) \cup ByNumber(e, {r})
AttachmentsStay ==
    [][\A c \in DOMAIN catalog :
         LET old == catalog[c]
             new == catalog'[c]
         IN \A e \in DOMAIN old.result.verdicts \cap DOMAIN new.result.verdicts :
            \A r \in old.rows \cap new.rows :
              (/\ RowShot(c, r) \in old.result.verdicts[e].shots
               /\ Names(r, e) /\ ~r.newer
               /\ ~\E s \in new.rows \ old.rows : Names(s, e))
              => RowShot(c, r) \in new.result.verdicts[e].shots]_vars

=============================================================================
