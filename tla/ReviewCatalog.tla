--------------------------- MODULE ReviewCatalog ---------------------------
(***************************************************************************)
(* ReviewCatalog: the shared catalog hzdr_sources.json and the review      *)
(* sidecar beside it, with their two kinds of writers.  A request of the   *)
(* review page reads the catalog, changes one entry, writes all of it      *)
(* back, and only then appends its decision to the sidecar.  A builder     *)
(* publishes a campaign's master, applies the decisions it loaded to what  *)
(* its inputs gave, and merges the entry under catalog_write_lock.         *)
(***************************************************************************)
EXTENDS Integers, Sequences, FiniteSets

CONSTANTS
    Keys,       \* source keys of the catalog, one campaign each
    Events, Shots,
    Outcome,    \* what reconciling each version of the inputs gives for a key
    Levels,     \* ranks of REVIEW_LEVELS
    Workers,    \* processes that serve the API
    Builders,   \* builder processes
    Scenes      \* bounds, and what may overlap or fail: one of them is chosen

Edits == {"status", "field", "emulated", "enriched"}

ASSUME ReviewConstants ==
    /\ Levels \subseteq 0..2
    /\ DOMAIN Outcome = 0..(Cardinality(DOMAIN Outcome) - 1)
    /\ \A version \in DOMAIN Outcome : Outcome[version] \in
         [Keys -> [status : [Events -> {"absent", "matched", "ambiguous", "unmatched"}],
                   places : [Events -> SUBSET Shots], shots : SUBSET Shots]]
    /\ Scenes \subseteq [overlaps : BOOLEAN, workers : SUBSET Workers,
                        builders : SUBSET Builders, levels : SUBSET Levels, edits : SUBSET Edits,
                        scicat : BOOLEAN,
                        requests : Nat, builds : Nat, versions : Nat, faults : Nat]

VARIABLES
    scene,      \* overlaps: processes interleave; the others bound what happens
    input,      \* version of the inputs on disk
    master,     \* per key: number of the build whose NeXus file is published
    catalog,    \* hzdr_sources.json: an entry per key
    sidecar,    \* hzdr_sources.review.jsonl: [lines, open]; open: no newline at its end
    backup,     \* its rolling copy
    staged,     \* per key: number of events staged for emulated shots
    requests,   \* per API process: the request it serves
    builds,     \* per builder process: the build it runs
    answered,   \* decisions whose request returned without an error
    cut,        \* keys whose last build ended between master and entry
    reverted,   \* keys whose entry a request wrote back older than it was
    served, built, faults

files == <<input, master, catalog, sidecar, backup, staged>>
history == <<answered, cut, reverted>>
counters == <<served, built, faults>>
vars == <<scene, files, requests, builds, history, counters>>
-----------------------------------------------------------------------------
NotAcked == -1
Unregistered == -1
Junk == [key |-> "?", event |-> "?", action |-> "?", shot |-> "?", level |-> -1]
\* In place of a decision: the request stages an event.
Staging(k) == [Junk EXCEPT !.key = k, !.action = "stage"]
Empty == [lines |-> <<>>, open |-> FALSE]
NoRequest == [at |-> "idle", page |-> <<>>, decision |-> Junk]
NoBuild == [at |-> "idle", key |-> "?", from |-> 0, number |-> 0, entry |-> <<>>,
            scicat |-> Unregistered, page |-> <<>>]

\* load_review_decisions: the highest level wins, the latest of equals.
Rulings(lines, k, e) == {i \in DOMAIN lines : lines[i].key = k /\ lines[i].event = e}
Winner(lines, k, e) ==
    lines[CHOOSE i \in Rulings(lines, k, e) :
            \A j \in Rulings(lines, k, e) :
               \/ lines[j].level < lines[i].level
               \/ lines[j].level = lines[i].level /\ j <= i]
Decided(lines, k, e, action) ==
    Rulings(lines, k, e) # {} /\ Winner(lines, k, e).action = action
\* ... and a line that does not parse makes it raise.
Corrupt == \E i \in DOMAIN sidecar.lines : sidecar.lines[i] = Junk

\* fh.write(line + "\n"), after what the file ended with.
Appended(log, record) ==
    [lines |-> IF log.open THEN [log.lines EXCEPT ![Len(log.lines)] = Junk]
               ELSE Append(log.lines, record),
     open |-> FALSE]
\* The same, cut short: nothing, a part, or all but the newline.
CutShort(log, record) ==
    {log} \cup {[Appended(log, r) EXCEPT !.open = TRUE] : r \in {Junk, record}}

MatchSummary(attached, review) ==
    [matched |-> Cardinality({a.shot : a \in attached}),
     confirmed |-> Cardinality({a \in attached : a.by = "operator"}),
     ambiguous |-> Cardinality({r \in review : r.status = "ambiguous"}),
     unmatched |-> Cardinality({r \in review : r.status = "unmatched" /\ r.ack = NotAcked}),
     dismissed |-> Cardinality({r \in review : r.status = "unmatched" /\ r.ack # NotAcked})]

\* _apply_review_decisions: any event still in review can be confirmed to a
\* shot that exists, or flagged.
ToReview(result) == {e \in Events : result.status[e] \in {"ambiguous", "unmatched"}}
Confirmed(result, lines, k) ==
    {e \in ToReview(result) : /\ Decided(lines, k, e, "confirm")
                              /\ Winner(lines, k, e).shot \in result.shots}
AttachedBy(result, lines, k) ==
    {[event |-> e, shot |-> s, by |-> "matcher", level |-> NotAcked] :
        e \in {f \in Events : result.status[f] = "matched"}, s \in Shots}
AppliedAttached(result, lines, k) ==
    {a \in AttachedBy(result, lines, k) : a.shot \in result.places[a.event]}
      \cup {[event |-> e, shot |-> Winner(lines, k, e).shot, by |-> "operator",
             level |-> Winner(lines, k, e).level] : e \in Confirmed(result, lines, k)}
\* Mutant: a rebuild drops the flags of dismissed events.
AppliedUnflagged(result, lines, k) ==
    {[event |-> e, status |-> result.status[e], candidates |-> result.places[e],
      ack |-> NotAcked] : e \in ToReview(result) \ Confirmed(result, lines, k)}
AppliedReview(result, lines, k) ==
    {[event |-> e, status |-> result.status[e], candidates |-> result.places[e],
      ack |-> IF Decided(lines, k, e, "dismiss") THEN Winner(lines, k, e).level
              ELSE NotAcked] : e \in ToReview(result) \ Confirmed(result, lines, k)}

\* The entry write_sources_catalog makes of a result and the decisions loaded.
Rebuilt(number, version, lines, k) ==
    LET result == Outcome[version][k]
        attached == AppliedAttached(result, lines, k)
        review == AppliedReview(result, lines, k)
    IN [number |-> number, from |-> version, loaded |-> Len(lines),
        scicat |-> Unregistered, shots |-> result.shots, attached |-> attached, review |-> review,
        marks |-> {}, summary |-> MatchSummary(attached, review)]
-----------------------------------------------------------------------------
Init ==
    /\ scene \in Scenes
    /\ input = 0
    /\ master = [k \in Keys |-> 0]
    /\ catalog = [k \in Keys |-> Rebuilt(0, 0, <<>>, k)]
    /\ sidecar = Empty /\ backup = Empty /\ staged = [k \in Keys |-> 0]
    /\ requests = [w \in Workers |-> NoRequest]
    /\ builds = [b \in Builders |-> NoBuild]
    /\ answered = {} /\ cut = {} /\ reverted = {}
    /\ served = 0 /\ built = 0 /\ faults = 0

Serving == {w \in Workers : requests[w].at # "idle"}
Building == {b \in Builders : builds[b].at # "idle"}
MayBegin == scene.overlaps \/ Serving \cup Building = {}
Fault == faults < scene.faults /\ faults' = faults + 1

\* New records or another export: what the builders will make of them changes.
Land ==
    /\ input + 1 \in DOMAIN Outcome /\ input < scene.versions /\ MayBegin
    /\ input' = input + 1
    /\ UNCHANGED <<scene, master, catalog, sidecar, backup, staged, requests, builds,
                   history, counters>>
-----------------------------------------------------------------------------
(* Requests.  One that is refused (404, 400) changes nothing.              *)

\* The catalog is read, and will be written back with k's entry changed.
Begin(w, k, entry, decision) ==
    /\ requests[w].at = "idle" /\ w \in scene.workers /\ MayBegin
    /\ served < scene.requests
    /\ requests' = [requests EXCEPT ![w] =
           [at |-> "write", page |-> [catalog EXCEPT ![k] = entry], decision |-> decision]]
    /\ served' = served + 1
    /\ UNCHANGED <<scene, files, builds, history, built, faults>>

\* Mutant: a handler forgets _recompute_match_summary.
WithOldSummary(entry, attached, review) ==
    [entry EXCEPT !.attached = attached, !.review = review]
WithReview(entry, attached, review) ==
    [entry EXCEPT !.attached = attached, !.review = review,
                  !.summary = MatchSummary(attached, review)]

Confirm(w, k, r, s, level) ==
    /\ r \in catalog[k].review /\ r.status = "ambiguous"
    /\ s \in r.candidates \cap catalog[k].shots
    /\ Begin(w, k,
             WithReview(catalog[k],
                        catalog[k].attached \cup {[event |-> r.event, shot |-> s,
                                                   by |-> "operator", level |-> level]},
                        catalog[k].review \ {r}),
             [key |-> k, event |-> r.event, action |-> "confirm", shot |-> s,
              level |-> level])

Dismiss(w, k, r, level) ==
    /\ r \in catalog[k].review /\ r.status = "unmatched"
    /\ Begin(w, k,
             WithReview(catalog[k], catalog[k].attached,
                        (catalog[k].review \ {r}) \cup {[r EXCEPT !.ack = level]}),
             [key |-> k, event |-> r.event, action |-> "dismiss", shot |-> "-",
              level |-> level])

\* Status and corrections go to the catalog alone, emulated shots and what
\* enriches the last shot also to the staged events.
Edit(w, k, kind, then) ==
    /\ kind \in scene.edits
    /\ Begin(w, k, [catalog[k] EXCEPT !.marks = @ \cup {kind}], then)

UpdateStatus(w, k) == catalog[k].shots # {} /\ Edit(w, k, "status", Junk)
UpdateMetadata(w, k) == catalog[k].shots # {} /\ Edit(w, k, "field", Junk)
AppendEmulatedShot(w, k) == Edit(w, k, "emulated", Staging(k))
\* It reads the file again, and then puts the sources it had into it.
EnrichLatestShot(w, k) == catalog[k].shots # {} /\ Edit(w, k, "enriched", Staging(k))

NextOf(w) == IF requests[w].decision.action = "stage" THEN "stage" ELSE "append"

\* write_json_atomic: the whole catalog is replaced.
WriteCatalog(w) ==
    /\ requests[w].at = "write"
    /\ catalog' = requests[w].page
    /\ reverted' = (reverted \cup {k \in Keys : catalog'[k].number < catalog[k].number})
    /\ requests' = IF requests[w].decision = Junk
                   THEN [requests EXCEPT ![w] = NoRequest]
                   ELSE [requests EXCEPT ![w].page = <<>>, ![w].at = NextOf(w)]
    /\ UNCHANGED <<scene, input, master, sidecar, backup, staged, builds, answered, cut, counters>>

\* One line more in the staged events; nothing is flushed or copied.
StageEvent(w) ==
    LET k == requests[w].decision.key IN
    /\ requests[w].at = "stage"
    /\ staged' = [staged EXCEPT ![k] = @ + 1]
    /\ requests' = [requests EXCEPT ![w] = NoRequest]
    /\ UNCHANGED <<scene, input, master, catalog, sidecar, backup, builds, history, counters>>

\* Mutant: the sidecar is opened with "w".
OverwriteDecisions(w) ==
    /\ requests[w].at = "append"
    /\ sidecar' = Appended(Empty, requests[w].decision)
    /\ requests' = [requests EXCEPT ![w].at = "truncate"]
    /\ UNCHANGED <<scene, input, master, catalog, backup, staged, builds, history, counters>>

\* append_review_decision: write, flush, fsync ...
AppendDecision(w) ==
    /\ requests[w].at = "append"
    /\ sidecar' = Appended(sidecar, requests[w].decision)
    /\ requests' = [requests EXCEPT ![w].at = "truncate"]
    /\ UNCHANGED <<scene, input, master, catalog, backup, staged, builds, history, counters>>

\* ... and shutil.copy2, which empties its target before it fills it.
TruncateBackup(w) ==
    /\ requests[w].at = "truncate"
    /\ backup' = Empty
    /\ requests' = [requests EXCEPT ![w].at = "copy"]
    /\ UNCHANGED <<scene, input, master, catalog, sidecar, staged, builds, history, counters>>

CopyBackup(w) ==
    /\ requests[w].at = "copy"
    /\ backup' = sidecar
    /\ answered' = answered \cup {requests[w].decision}
    /\ requests' = [requests EXCEPT ![w] = NoRequest]
    /\ UNCHANGED <<scene, input, master, catalog, sidecar, staged, builds, cut, reverted,
                   counters>>

\* The append fails and the request with it, or the process dies anywhere.
RequestDies(w) ==
    /\ requests[w].at # "idle" /\ Fault
    /\ sidecar' \in IF requests[w].at = "append"
                    THEN CutShort(sidecar, requests[w].decision) ELSE {sidecar}
    /\ requests' = [requests EXCEPT ![w] = NoRequest]
    /\ UNCHANGED <<scene, input, master, catalog, backup, staged, builds, history, served, built>>
-----------------------------------------------------------------------------
(* Builds.  A corrupt sidecar ends them, at the rulings or at the decisions. *)

\* Inputs and rulings are read; reconciliation takes its time.
StartBuild(b, k) ==
    /\ builds[b].at = "idle" /\ b \in scene.builders /\ MayBegin
    /\ built < scene.builds
    /\ ~Corrupt
    /\ builds' = [builds EXCEPT ![b] = [NoBuild EXCEPT !.at = "publish", !.key = k,
                                                       !.from = input]]
    /\ built' = built + 1
    /\ UNCHANGED <<scene, files, requests, history, served, faults>>

Locked(k) == \E b \in Builders : builds[b].key = k /\ builds[b].at \in {"register", "load", "lock", "merge"}

\* single_writer_lock, then write_nexus_bridge.
PublishMaster(b) ==
    LET k == builds[b].key IN
    /\ builds[b].at = "publish" /\ ~Locked(k)
    /\ master' = [master EXCEPT ![k] = @ + 1]
    /\ cut' = cut \cup {k}
    /\ builds' = [builds EXCEPT ![b].at = "register", ![b].number = master[k] + 1]
    /\ UNCHANGED <<scene, input, catalog, sidecar, backup, staged, requests, answered, reverted,
                   counters>>

\* BuilderAlreadyRunningError: this build gives up.
BuildRefused(b) ==
    /\ builds[b].at = "publish" /\ Locked(builds[b].key)
    /\ builds' = [builds EXCEPT ![b] = NoBuild]
    /\ UNCHANGED <<scene, files, requests, history, counters>>

\* Mutant of Registrations: what was registered before is still good.
AnyRegistered(it, previous) ==
    IF ~scene.scicat THEN {Unregistered}
    ELSE IF previous # Unregistered THEN {previous}
    ELSE {it.number, Unregistered}

\* register_campaign_nexus: not posted again if that very file was, else posted
\* with success or without; it never raises.
Registrations(it, previous) ==
    IF ~scene.scicat THEN {Unregistered}
    ELSE IF previous = it.number THEN {previous}
    ELSE {it.number, Unregistered}

\* The previous registration is read from the catalog without its lock.
RegisterScicat(b) ==
    LET it == builds[b] IN
    /\ it.at = "register"
    /\ \E registered \in Registrations(it, catalog[it.key].scicat) :
          builds' = [builds EXCEPT ![b].at = "load", ![b].scicat = registered]
    /\ UNCHANGED <<scene, files, requests, history, counters>>

LoadDecisions(b) ==
    LET it == builds[b] IN
    /\ it.at = "load"
    /\ builds' = [builds EXCEPT ![b] = IF Corrupt THEN NoBuild
           ELSE [it EXCEPT !.at = "lock",
                           !.entry = [Rebuilt(it.number, it.from, sidecar.lines, it.key)
                                        EXCEPT !.scicat = it.scicat]]]
    /\ UNCHANGED <<scene, files, requests, history, counters>>

\* catalog_write_lock is waited for; under it the catalog is read ...
CatalogLocked == \E b \in Builders : builds[b].at = "merge"
\* Mutant: the merge without catalog_write_lock.
ReadUnlocked(b) ==
    /\ builds[b].at = "lock"
    /\ builds' = [builds EXCEPT ![b].at = "merge", ![b].page = catalog]
    /\ UNCHANGED <<scene, files, requests, history, counters>>
LockCatalog(b) ==
    /\ builds[b].at = "lock" /\ ~CatalogLocked
    /\ builds' = [builds EXCEPT ![b].at = "merge", ![b].page = catalog]
    /\ UNCHANGED <<scene, files, requests, history, counters>>

\* ... and written with the one entry replaced.
Merge(b) ==
    LET it == builds[b] IN
    /\ it.at = "merge"
    /\ catalog' = [it.page EXCEPT ![it.key] = it.entry]
    /\ cut' = cut \ {it.key} /\ reverted' = reverted \ {it.key}
    /\ builds' = [builds EXCEPT ![b] = NoBuild]
    /\ UNCHANGED <<scene, input, master, sidecar, backup, staged, requests, answered, counters>>

\* It fails or dies, or waits for the catalog's lock for 60 seconds in vain;
\* the locks it held are found stale.
BuildDies(b) ==
    /\ builds[b].at # "idle" /\ Fault
    /\ builds' = [builds EXCEPT ![b] = NoBuild]
    /\ UNCHANGED <<scene, files, requests, history, served, built>>
-----------------------------------------------------------------------------
Request(w) ==
    \/ \E k \in Keys : \/ \E level \in scene.levels, r \in catalog[k].review :
                             \/ Dismiss(w, k, r, level)
                             \/ \E s \in Shots : Confirm(w, k, r, s, level)
                       \/ UpdateStatus(w, k)
                       \/ UpdateMetadata(w, k)
                       \/ AppendEmulatedShot(w, k)
                       \/ EnrichLatestShot(w, k)

Serve(w) ==
    WriteCatalog(w) \/ StageEvent(w) \/ AppendDecision(w) \/ TruncateBackup(w) \/ CopyBackup(w)
Work(b) ==
    \/ PublishMaster(b) \/ BuildRefused(b) \/ RegisterScicat(b) \/ LoadDecisions(b)
    \/ LockCatalog(b) \/ Merge(b)

Next ==
    \/ Land
    \/ \E w \in Workers : Request(w) \/ Serve(w) \/ RequestDies(w)
    \/ \E b \in Builders : \/ Work(b) \/ BuildDies(b)
                           \/ \E k \in Keys : StartBuild(b, k)

Spec == Init /\ [][Next]_vars
             /\ \A w \in Workers : WF_vars(Serve(w))
             /\ \A b \in Builders : WF_vars(Work(b))
-----------------------------------------------------------------------------

\* The master and its catalog entry come from the same reconciliation, and a
\* registration in the entry is of that very file ("an identical NeXus file",
\* scicat.py:133), but for a build between the two or cut short there, and for
\* an entry that a request wrote back: builds of several campaigns merge into
\* one file without dropping each other's entries (catalog_write_lock).
EntryIsOfMaster ==
    \A k \in Keys \ (cut \cup reverted) :
        /\ catalog[k].number = master[k]
        /\ catalog[k].scicat \in {master[k], Unregistered}

Latest(k, e) ==
    LET mine == Rulings(sidecar.lines, k, e)
    IN sidecar.lines[CHOOSE i \in mine : \A j \in mine : j <= i]
Outranked(k, e) ==
    Rulings(sidecar.lines, k, e) # {} /\ Latest(k, e) # Winner(sidecar.lines, k, e)

\* What the request handlers make of an entry is what the builder's own merge
\* of the decisions makes of the same inputs, counts included, when nothing
\* overlaps: the two are separate code.  An event with a decision of a higher
\* level than its latest is left out: the handlers show the latest.
LiveEqualsRebuilt ==
    (~scene.overlaps /\ faults = 0 /\ Serving \cup Building = {}) =>
      \A k \in Keys :
        LET live == catalog[k]
            again == Rebuilt(live.number, live.from, sidecar.lines, k)
            settled == {e \in Events : ~Outranked(k, e)}
            Of(S) == {x \in S : x.event \in settled}
        IN /\ Of(live.attached) = Of(again.attached)
           /\ Of(live.review) = Of(again.review)
           /\ settled = Events => live.summary = again.summary

\* A decision that was in the sidecar when the entry's build loaded it shows
\* in the entry, whatever requests did to it since and whichever entry of the
\* key is back: the confirmed event at its shot if the shot is still there,
\* the dismissed one flagged or, once it had candidates, confirmed after all.
DecisionsShown ==
    ~Corrupt => \A k \in Keys : \A e \in Events :
      LET entry == catalog[k]
          lines == SubSeq(sidecar.lines, 1, entry.loaded)
          toReview == e \in ToReview(Outcome[entry.from][k])
      IN /\ (toReview /\ Decided(lines, k, e, "confirm")
               /\ Winner(lines, k, e).shot \in Outcome[entry.from][k].shots) =>
              \E a \in entry.attached : /\ a.event = e /\ a.by = "operator"
                                        /\ a.shot = Winner(lines, k, e).shot
         /\ (toReview /\ Decided(lines, k, e, "dismiss")) =>
              \A r \in entry.review : r.event = e => r.ack # NotAcked

\* A decision whose request was answered is in the sidecar, or every load of
\* the sidecar raises: it is never dropped in silence, whatever appends were
\* cut short before or after it.
AnsweredOrLoud ==
    \A d \in answered : Corrupt \/ \E i \in DOMAIN sidecar.lines : sidecar.lines[i] = d

\* "Serialise read-merge-write updates of one shared catalog"
\* (catalog_write_lock): no update puts an older entry back.
OnlyNewerEntries ==
    [][\A k \in Keys : catalog'[k].number >= catalog[k].number]_vars
=============================================================================
