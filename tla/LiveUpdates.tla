---------------------------- MODULE LiveUpdates ----------------------------
(***************************************************************************)
(* LiveUpdates: the run_updates subscription over one proposal's SQLite    *)
(* file.  DAMNIT's writer stamps a row, then commits it; tags are edited   *)
(* too.  Every subscriber ticks for itself, looks at the file's mtime, and *)
(* if it is not the one of its last snapshot awaits the poll that all      *)
(* subscribers share: in flight or cached for a tick.  The poll reads      *)
(* rows above a mark it shares as well, then the metadata.  What each      *)
(* subscriber has been sent is its own.                                    *)
(***************************************************************************)
EXTENDS Integers, FiniteSets, FiniteSetsExt

CONSTANTS
    Clients,
    Scenes      \* what may happen, and how often: one of them is chosen

Limits == {"rows", "edits", "failures", "drops"}
ASSUME SceneConstants ==
    \A scene \in Scenes : /\ scene.clients \subseteq Clients
                          /\ {scene.table, scene.ordered} \subseteq BOOLEAN
                          /\ \A what \in Limits : scene.limits[what] \in Nat

VARIABLES
    scene,
    used,       \* how often each thing has happened
    mtime,      \* of the file, counted in commits; 0: no file
    table,      \* run_variables is there
    rows,       \* stamps of the committed rows, one of each run
    stamped,    \* stamps of rows not committed yet
    tags,       \* version of the tags
    mark,       \* _last_seen_timestamp; Unknown before the first poll
    seed,       \* what mark began with
    at,         \* where the poll in flight is, or "idle"
    poll,       \* what it has read
    cached,     \* its last result, at most one, while the cache holds it
    metaCache,  \* fetch_metadata's, at most one
    pc,         \* of each client: "away", "opened", "sleep", "await", "deliver"
    since,      \* its cursor
    inbox,      \* the snapshot it awaited, at most one
    lastMtime, lastMeta,    \* of the last snapshot it was sent; 0, NoMeta: none yet
    received    \* rows it was sent

file == <<mtime, table, rows, stamped, tags>>
server == <<mark, seed, at, poll, cached, metaCache>>
client == <<pc, since, inbox, lastMtime, lastMeta, received>>
vars == <<scene, used, file, server, client>>
-----------------------------------------------------------------------------
Unknown == -1
NoMeta == [tags |-> Unknown, runs |-> {}]
Metadata == [tags |-> tags, runs |-> rows]
NoPoll == [mtime |-> 0, rows |-> {}, meta |-> NoMeta]
Newest(stamps) == Max(stamps \cup {0})
Snapshot(found, read, top) ==
    [found |-> found, mtime |-> read.mtime, rows |-> read.rows, meta |-> read.meta, max |-> top]

Init ==
    /\ scene \in Scenes
    /\ used = [what \in Limits |-> 0]
    /\ table = scene.table /\ mtime = IF table THEN 1 ELSE 0
    /\ rows = {} /\ stamped = {} /\ tags = 0
    /\ mark = Unknown /\ seed = Unknown
    /\ at = "idle" /\ poll = NoPoll /\ cached = {} /\ metaCache = {}
    /\ pc = [c \in Clients |-> "away"]
    /\ since = [c \in Clients |-> 0]
    /\ inbox = [c \in Clients |-> {}]
    /\ lastMtime = [c \in Clients |-> 0] /\ lastMeta = [c \in Clients |-> NoMeta]
    /\ received = [c \in Clients |-> {}]

Use(what) ==
    /\ used[what] < scene.limits[what]
    /\ used' = [used EXCEPT ![what] = @ + 1]
-----------------------------------------------------------------------------
(* The file *)

CreateTable ==
    /\ ~table
    /\ table' = TRUE /\ mtime' = mtime + 1
    /\ UNCHANGED <<scene, used, rows, stamped, tags, server, client>>

\* A row is stamped before its commit; others may commit in between.
StampRow ==
    /\ table /\ Use("rows")
    /\ stamped' = stamped \cup {used["rows"] + 1}
    /\ UNCHANGED <<scene, mtime, table, rows, tags, server, client>>

CommitRow(r) ==
    /\ r \in stamped
    /\ scene.ordered => \A s \in stamped : r <= s
    /\ rows' = rows \cup {r} /\ stamped' = stamped \ {r}
    /\ mtime' = mtime + 1
    /\ UNCHANGED <<scene, used, table, tags, server, client>>

EditTags ==
    /\ table /\ Use("edits")
    /\ tags' = tags + 1 /\ mtime' = mtime + 1
    /\ UNCHANGED <<scene, table, rows, stamped, server, client>>
-----------------------------------------------------------------------------
(* poll_proposal: a step for every read it awaits *)

PollStat ==
    /\ at = "stat"
    /\ at' = "table" /\ poll' = [NoPoll EXCEPT !.mtime = mtime]
    /\ UNCHANGED <<scene, used, file, mark, seed, cached, metaCache, client>>

\* The result, for everybody who awaits it and for the cache.
Finish(snapshot) ==
    /\ at' = "idle" /\ poll' = NoPoll /\ cached' = {snapshot}
    /\ inbox' = [c \in Clients |-> IF pc[c] = "await" THEN {snapshot} ELSE inbox[c]]
    /\ pc' = [c \in Clients |-> IF pc[c] = "await" THEN "deliver" ELSE pc[c]]
    /\ UNCHANGED <<since, lastMtime, lastMeta, received>>

NoTable ==
    /\ at = "table" /\ ~table
    /\ Finish(Snapshot(FALSE, poll, 0))
    /\ UNCHANGED <<scene, used, file, mark, seed, metaCache>>

\* The first poll begins with the newest row there is.
SeedMark ==
    /\ at = "table" /\ table
    /\ at' = "rows"
    /\ mark' = IF mark = Unknown THEN Newest(rows) ELSE mark
    /\ seed' = IF mark = Unknown THEN Newest(rows) ELSE seed
    /\ UNCHANGED <<scene, used, file, poll, cached, metaCache, client>>

\* Mutant of ReadRows: the mark moves as soon as the rows are read.
MarkEarly ==
    /\ at = "rows"
    /\ at' = "tags" /\ poll' = [poll EXCEPT !.rows = {r \in rows : r > mark}]
    /\ mark' = Newest({r \in rows : r > mark} \cup {mark})
    /\ metaCache' = {}
    /\ UNCHANGED <<scene, used, file, seed, cached, client>>

\* async_latest_rows; then what fetch_metadata remembers is dropped.
ReadRows ==
    /\ at = "rows"
    /\ at' = "tags" /\ poll' = [poll EXCEPT !.rows = {r \in rows : r > mark}]
    /\ metaCache' = {}
    /\ UNCHANGED <<scene, used, file, mark, seed, cached, client>>

\* fetch_metadata reads the tags, and the runs after them.
ReadTags ==
    /\ at = "tags"
    /\ IF metaCache # {}
       THEN at' = "info" /\ \E meta \in metaCache : poll' = [poll EXCEPT !.meta = meta]
       ELSE at' = "runs" /\ poll' = [poll EXCEPT !.meta.tags = tags]
    /\ UNCHANGED <<scene, used, file, mark, seed, cached, metaCache, client>>

\* Mutant of ReadRuns: the file is looked at after the reads.
StatLast ==
    /\ at = "runs"
    /\ at' = "info" /\ poll' = [poll EXCEPT !.meta.runs = rows, !.mtime = mtime]
    /\ metaCache' = {poll'.meta}
    /\ UNCHANGED <<scene, used, file, mark, seed, cached, client>>

ReadRuns ==
    /\ at = "runs"
    /\ at' = "info" /\ poll' = [poll EXCEPT !.meta.runs = rows]
    /\ metaCache' = {poll'.meta}
    /\ UNCHANGED <<scene, used, file, mark, seed, cached, client>>

\* fetch_info; the mark moves to the newest row read, and only now.
FinishPoll ==
    /\ at = "info"
    /\ mark' = IF poll.rows = {} THEN mark ELSE Newest(poll.rows)
    /\ Finish(Snapshot(TRUE, poll, mark'))
    /\ UNCHANGED <<scene, used, file, seed, metaCache>>

\* A read raises: whoever awaits the poll goes back to sleep as it was.
PollFails ==
    /\ at # "idle" /\ Use("failures")
    /\ at' = "idle" /\ poll' = NoPoll
    /\ pc' = [c \in Clients |-> IF pc[c] = "await" THEN "sleep" ELSE pc[c]]
    /\ UNCHANGED <<scene, file, mark, seed, cached, metaCache, since, inbox, lastMtime,
                   lastMeta, received>>

\* Mutant of ExpirePoll: a miss is kept.
KeepMiss ==
    /\ (\E snapshot \in cached : snapshot.found) /\ cached' = {}
    /\ UNCHANGED <<scene, used, file, mark, seed, at, poll, metaCache, client>>

\* POLLING_INTERVAL after the poll.
ExpirePoll ==
    /\ cached # {} /\ cached' = {}
    /\ UNCHANGED <<scene, used, file, mark, seed, at, poll, metaCache, client>>
ExpireMeta ==
    /\ metaCache # {} /\ metaCache' = {}
    /\ UNCHANGED <<scene, used, file, mark, seed, at, poll, cached, client>>
-----------------------------------------------------------------------------
(* The clients *)

\* The page opens: its metadata query sets the cursor, and it loads the rows.
Open(c) ==
    /\ pc[c] = "away" /\ c \in scene.clients
    /\ \E meta \in IF metaCache = {} THEN {Metadata} ELSE metaCache :
          /\ since' = [since EXCEPT ![c] = Newest(meta.runs)]
          /\ metaCache' = {meta}
    /\ pc' = [pc EXCEPT ![c] = "opened"]
    /\ received' = [received EXCEPT ![c] = rows]
    /\ UNCHANGED <<scene, used, file, mark, seed, at, poll, cached, inbox, lastMtime, lastMeta>>

Subscribe(c) ==
    /\ pc[c] = "opened"
    /\ pc' = [pc EXCEPT ![c] = "sleep"]
    /\ UNCHANGED <<scene, used, file, server, since, inbox, lastMtime, lastMeta, received>>

\* run_updates, at the end of its sleep: the file has changed since the
\* snapshot it had last, or is not there.
Tick(c) ==
    /\ pc[c] = "sleep" /\ (mtime = 0 \/ mtime # lastMtime[c])
    /\ IF cached # {}
       THEN /\ pc' = [pc EXCEPT ![c] = "deliver"] /\ inbox' = [inbox EXCEPT ![c] = cached]
            /\ UNCHANGED at
       ELSE /\ pc' = [pc EXCEPT ![c] = "await"] /\ UNCHANGED inbox
            /\ at' = IF at = "idle" THEN "stat" ELSE at
    /\ UNCHANGED <<scene, used, file, mark, seed, poll, cached, metaCache, since, lastMtime,
                   lastMeta, received>>

\* A snapshot without a table does not say when it was read.
Deliver(c) ==
    /\ pc[c] = "deliver"
    /\ pc' = [pc EXCEPT ![c] = "sleep"] /\ inbox' = [inbox EXCEPT ![c] = {}]
    /\ \E snapshot \in inbox[c] :
          IF snapshot.found
          THEN /\ lastMtime' = [lastMtime EXCEPT ![c] = snapshot.mtime]
               /\ lastMeta' = [lastMeta EXCEPT ![c] = snapshot.meta]
               /\ received' = [received EXCEPT ![c] =
                                 @ \cup {r \in snapshot.rows : r > since[c]}]
          ELSE UNCHANGED <<lastMtime, lastMeta, received>>
    /\ UNCHANGED <<scene, used, file, server, since>>

\* The socket drops and comes back, with the same cursor.
Drop(c) ==
    /\ pc[c] \in {"sleep", "await", "deliver"} /\ Use("drops")
    /\ pc' = [pc EXCEPT ![c] = "opened"] /\ inbox' = [inbox EXCEPT ![c] = {}]
    /\ lastMtime' = [lastMtime EXCEPT ![c] = 0]
    /\ lastMeta' = [lastMeta EXCEPT ![c] = NoMeta]
    /\ UNCHANGED <<scene, file, server, since, received>>
-----------------------------------------------------------------------------
Write == CreateTable \/ StampRow \/ (\E r \in stamped : CommitRow(r)) \/ EditTags
Poll == PollStat \/ NoTable \/ SeedMark \/ ReadRows \/ ReadTags \/ ReadRuns \/ FinishPoll
Next ==
    \/ Write \/ Poll \/ PollFails \/ ExpirePoll \/ ExpireMeta
    \/ \E c \in Clients : Open(c) \/ Subscribe(c) \/ Tick(c) \/ Deliver(c) \/ Drop(c)

Spec == Init /\ [][Next]_vars
\* Sleeps end, awaited reads return, and the cache's timer runs.
FairSpec ==
    /\ Spec /\ WF_vars(Poll) /\ WF_vars(ExpirePoll)
    /\ \A c \in Clients : WF_vars(Tick(c)) /\ WF_vars(Deliver(c)) /\ WF_vars(Subscribe(c))
-----------------------------------------------------------------------------
Stamps == 1..scene.limits["rows"]
Metas == [tags : -1..scene.limits["edits"], runs : SUBSET Stamps]
Snapshots ==
    [found : BOOLEAN, mtime : Nat, rows : SUBSET Stamps, meta : Metas, max : Nat \cup {Unknown}]

\* Every variable has its type; the caches and inboxes hold at most one thing.
TypeOK ==
    /\ scene \in Scenes /\ used \in [Limits -> Nat]
    /\ mtime \in Nat /\ table \in BOOLEAN
    /\ rows \subseteq Stamps /\ stamped \subseteq Stamps \ rows /\ tags \in Nat
    /\ {mark, seed} \subseteq Nat \cup {Unknown}
    /\ at \in {"idle", "stat", "table", "rows", "tags", "runs", "info"}
    /\ poll \in [mtime : Nat, rows : SUBSET Stamps, meta : Metas]
    /\ cached \subseteq Snapshots /\ metaCache \subseteq Metas
    /\ Cardinality(cached) <= 1 /\ Cardinality(metaCache) <= 1
    /\ pc \in [Clients -> {"away", "opened", "sleep", "await", "deliver"}]
    /\ since \in [Clients -> Nat] /\ lastMtime \in [Clients -> Nat]
    /\ lastMeta \in [Clients -> Metas] /\ received \in [Clients -> SUBSET Stamps]
    /\ inbox \in [Clients -> SUBSET Snapshots]
    /\ \A c \in Clients : (inbox[c] # {}) <=> (pc[c] = "deliver")

UpToDate(c) == pc[c] = "sleep" /\ mtime # 0 /\ lastMtime[c] = mtime

\* A subscriber that will not poll before the next write has been sent the
\* metadata as it is: the poll stats the file before it reads, and a
\* subscriber keeps the mtime of the snapshot, not the one of its tick.
MetadataIsCurrent == \A c \in Clients : UpToDate(c) => lastMeta[c] = Metadata

\* A subscriber alone, that never drops, of a writer that commits in the order
\* of its stamps, has every row newer than the poll it began with, whichever
\* polls failed on the way.
Alone(c) == scene.clients = {c} /\ scene.ordered /\ scene.limits["drops"] = 0
AloneGetsAll ==
    \A c \in Clients : (Alone(c) /\ UpToDate(c)) => {r \in rows : r > seed} \subseteq received[c]

\* Once nothing is written any more, every subscriber gets there.
EventuallyUpToDate ==
    <>[](table => \A c \in scene.clients : pc[c] # "away" => lastMtime[c] = mtime)

\* "this cursor only has to cover the gap between the snapshot and the
\* subscription opening" (use-proposal.ts:31-32): a subscriber that has looked at
\* the file as it is has every row newer than its cursor.
CursorCovers ==
    \A c \in Clients : UpToDate(c) => {r \in rows : r > since[c]} \subseteq received[c]
=============================================================================
