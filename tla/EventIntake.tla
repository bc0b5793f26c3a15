----------------------------- MODULE EventIntake -----------------------------
(***************************************************************************)
(* EventIntake: the events a build takes from its input files.  The spool  *)
(* holds normalized events; documents of the file watchdog and of the      *)
(* trigger, in its flat and its legacy form, are adapted to them.          *)
(*                                                                         *)
(* An event is what Matching matches, [id, source, campaign, number,       *)
(* local, shotId, time, position, notes], and [kind, transport, ref,       *)
(* values, instrument, meta]; values is the set of its list, empty without *)
(* one.  A document is [form, whole, ref, ...], ref under the names its    *)
(* producer uses.                                                          *)
(***************************************************************************)
EXTENDS LabFrogExports

CONSTANT MaxValues      \* MAX_VALUES_ITEMS

ASSUME IntakeConstants == MaxValues \in Nat

NoId == <<>>            \* an event_id is a sequence, of which only identity counts
GivenId(name) == <<"given", name>>

(* Trace fields under the names producers use; the first name counts. *)
Aliases ==
    [topic |-> <<"topic">>, offset |-> <<"offset">>,
     message_key |-> <<"message_key", "key">>,
     uri |-> <<"uri", "file_uri", "fileUri", "url">>,
     path |-> <<"path", "filepath", "file_path", "filepath_src">>,
     mongo_id |-> <<"mongo_id", "mongoId", "mongodb_id", "mongo_record_id", "_id">>,
     scicat_pid |-> <<"scicat_pid", "scicatPid", "pid">>]
Named(raw, names) == {i \in DOMAIN names : names[i] \in DOMAIN raw}
FirstNamed(raw, names) == raw[names[CHOOSE i \in Named(raw, names) :
                                       \A j \in Named(raw, names) : i <= j]]
Canonical(raw) ==
    [field \in {f \in DOMAIN Aliases : Named(raw, Aliases[f]) # {}} |->
        FirstNamed(raw, Aliases[field])]
(* What is copied later wins; the old names are only filled in. *)
CopyRef(raw, ref) ==
    LET copied == Canonical(raw) @@ ref
    IN  copied
        @@ (IF "message_key" \in DOMAIN Canonical(raw) THEN "key" :> copied["message_key"] ELSE <<>>)
        @@ (IF "filepath" \in DOMAIN raw THEN "filepath" :> copied["path"] ELSE <<>>)

PositionOf(ref) == IF "offset" \in DOMAIN ref THEN ref["offset"] ELSE Unknown

(* _event_id: two events with these in common are one. *)
EventId(e) == <<"hash", e.campaign, e.shotId, e.source, e.kind, e.time, e.transport, e.ref>>
Identified(e) == IF e.id = NoId THEN [e EXCEPT !.id = EventId(e)] ELSE e

ShotId(number) == <<"shot", number>>
Stranded(id) == <<"unassigned", id>>
-----------------------------------------------------------------------------
(* The spool: one bad line and the file is not read at all. *)
Spoolable(doc) == doc.whole /\ \A list \in doc.event.values : Len(list) <= MaxValues
Spooled(doc) == Identified(doc.event)
-----------------------------------------------------------------------------
(* Documents of the watchdog: [number, shotId, time, watch, ref, refs, notes]; *)
(* the number may be anywhere in them, refs are the outer layers' fields.       *)
WatchdogUsable(doc) == (doc.shotId # <<>> \/ doc.number # Unknown) /\ doc.time # Unknown
FileNames == <<"filepath", "filepath_src", "file_path", "path">>
WatchdogRef(doc) ==
    CopyRef(doc.refs,
            CopyRef(doc.ref, <<>>)
            @@ IF Named(doc.ref, FileNames) = {} THEN <<>>
               ELSE "filepath" :> FirstNamed(doc.ref, FileNames))
WatchdogEvent(doc, campaign) ==
    LET ref == WatchdogRef(doc)
    IN  Identified(
          [id |-> NoId, source |-> "watchdog", campaign |-> campaign, number |-> doc.number,
           local |-> Unknown, shotId |-> Else(doc.shotId, ShotId(doc.number), <<>>),
           time |-> doc.time, position |-> PositionOf(ref), notes |-> doc.notes,
           kind |-> <<"watchdog", doc.watch>>, transport |-> "kafka", ref |-> ref,
           values |-> {}, instrument |-> doc.instrument, meta |-> <<>>])
-----------------------------------------------------------------------------
(* Documents of the trigger. *)

(* Mutant of ChosenCampaign: the builder's campaign replaces the sentinel too. *)
AnyChosenCampaign(explicit, campaign) == Else(explicit, campaign, "")

(* The builder's campaign replaces any but the sentinel. *)
ChosenCampaign(explicit, campaign) ==
    IF campaign = Unassigned THEN campaign ELSE Else(explicit, campaign, "")

TriggerUsable(doc, explicit) ==
    /\ ChosenCampaign(explicit, doc.campaign) # ""
    /\ IF doc.form = "envelope" THEN doc.id # NoId ELSE doc.channel # "" /\ doc.time # Unknown

TriggerBase(doc, explicit) ==
    [id |-> doc.id, source |-> "trigger", campaign |-> ChosenCampaign(explicit, doc.campaign),
     number |-> doc.number, local |-> Unknown,
     shotId |-> IF doc.number = Unknown THEN <<"unassigned">> ELSE ShotId(doc.number),
     time |-> doc.time, position |-> Unknown, notes |-> {},
     kind |-> <<"trigger", Else(doc.role, "threshold_crossing", "")>>, transport |-> "kafka",
     ref |-> doc.ref, values |-> doc.values, instrument |-> doc.instrument,
     meta |-> "role" :> Else(doc.role, "threshold_crossing", "")]

Enveloped(doc, explicit) == TriggerBase(doc, explicit)
Legacy(doc, explicit) ==
    LET ref == CopyRef(doc.refs, CopyRef(doc.ref, [channel_id |-> doc.channel, key |-> "processed_message"]))
    IN  Identified([TriggerBase(doc, explicit) EXCEPT !.ref = ref])

(* A trigger without a number is stranded under its own id. *)
TriggerEvent(doc, explicit) ==
    LET e == IF doc.form = "envelope" THEN Enveloped(doc, explicit) ELSE Legacy(doc, explicit)
    IN  [e EXCEPT !.position = PositionOf(e.ref),
                  !.shotId = IF doc.number = Unknown THEN Stranded(e.id) ELSE @]
-----------------------------------------------------------------------------
(* select_experiment_id: the one campaign that is named, by the caller, the  *)
(* events, the LabFrog rows or the file; "" if there is none or several.     *)
Sole(names) == IF Cardinality(names) = 1 THEN CHOOSE n \in names : TRUE ELSE ""
Campaigns(events) == {events[i].campaign : i \in DOMAIN events} \ {Unassigned}
SelectExperiment(explicit, events, shots, stem) ==
    LET named == {shots[i].experiment : i \in DOMAIN shots} \ {""}
        written == {shots[i].campaign : i \in DOMAIN shots} \ {""}
    IN  IF explicit # "" THEN explicit
        ELSE IF Campaigns(events) # {} THEN Sole(Campaigns(events))
        ELSE IF named # {} THEN Sole(named)
        ELSE IF Sole(written) # "" THEN Sole(written)
        ELSE IF stem # "" THEN stem
        ELSE IF \E i \in DOMAIN events : events[i].campaign = Unassigned THEN Unassigned
        ELSE ""
-----------------------------------------------------------------------------
(* Files are read in this order: spooled events, then what the watchdog      *)
(* sent, which is taken for the campaign the others name, then the triggers. *)
Docs(docs, forms) == Picked(docs, {i \in DOMAIN docs : docs[i].form \in forms})
Triggers(docs) == Docs(docs, {"envelope", "legacy"})

Events(docs, explicit, shots, stem) ==
    LET spool == Docs(docs, {"event"})
        watched == Docs(docs, {"watchdog"})
        spooled == [i \in DOMAIN spool |-> Spooled(spool[i])]
        campaign == SelectExperiment(explicit, spooled, shots, stem)
    IN  spooled
        \o [i \in DOMAIN watched |-> WatchdogEvent(watched[i], campaign)]
        \o [i \in DOMAIN Triggers(docs) |-> TriggerEvent(Triggers(docs)[i], explicit)]

(* Whether the files can be read at all. *)
Readable(docs, explicit, shots, stem) ==
    LET spool == Docs(docs, {"event"})
        watched == Docs(docs, {"watchdog"})
    IN  /\ \A i \in DOMAIN spool : Spoolable(spool[i])
        /\ \A i \in DOMAIN watched : WatchdogUsable(watched[i])
        /\ \A i \in DOMAIN Triggers(docs) : TriggerUsable(Triggers(docs)[i], explicit)
        /\ watched # <<>> =>
              SelectExperiment(explicit, [i \in DOMAIN spool |-> Spooled(spool[i])], shots, stem) # ""

(* _deduplicate_by_event_id: the first of each id, in their order. *)
FirstOfEach(events) ==
    Picked(events, {i \in DOMAIN events : \A j \in 1 .. (i - 1) : events[j].id # events[i].id})
=============================================================================
