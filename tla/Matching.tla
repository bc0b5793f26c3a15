------------------------------ MODULE Matching ------------------------------
(***************************************************************************)
(* Matching: which shot of a campaign an event belongs to.  Events carry   *)
(* an id, a transport position, a shot number and a time; LabFrog rows     *)
(* carry the same as far as their authors knew.  The ladder of evidence of *)
(* hzdr_nexus.py, the shots that triggers found by themselves, and the     *)
(* routing of events that arrived without a campaign.  No state of its own.*)
(***************************************************************************)
EXTENDS Integers, Sequences, FiniteSets

CONSTANTS
    Tolerance,  \* match_tolerance_s
    DayLength   \* times are counted from a midnight, in any unit

ASSUME MatchingConstants == Tolerance \in Nat /\ DayLength \in Nat \ {0}

Unknown == -1           \* None, for numbers, days, times and positions
Unassigned == "unassigned"

\* An event: [id, source, campaign, number, local, shotId, time, position, notes];
\* number is the envelope's, local one found elsewhere in it (metadata, shot_id),
\* notes the numbers a watchdog thinks possible.
\* A row: [record, number, authority, day, time, eventId, position, campaign,
\* active, newer]; number may have been typed, authority is the shot authority's.

EventNumber(e) == IF e.number # Unknown THEN e.number ELSE e.local
DayOf(e) == IF e.time = Unknown THEN Unknown ELSE e.time \div DayLength
Distance(e, r) == IF e.time >= r.time THEN e.time - r.time ELSE r.time - e.time
-----------------------------------------------------------------------------
(* Rows *)

\* Rows of one campaign, day and number: once one is active, the others are history.
SameShot(r, s) == r.campaign = s.campaign /\ r.day = s.day /\ r.number = s.number
MarkSuperseded(rows) ==
    {[r EXCEPT !.newer = @ \/ (~r.active /\ \E s \in rows : SameShot(r, s) /\ s.active)] :
        r \in rows}

\* has_newer_version rows take no part, unless there are no others.
Current(rows) ==
    LET current == {r \in rows : ~r.newer} IN IF current # {} THEN current ELSE rows
-----------------------------------------------------------------------------
(* The ladder *)

\* The one row nearest in time, within the tolerance; none if two tie.
Nearest(e, rows) ==
    {r \in rows : /\ e.time # Unknown /\ r.time # Unknown
                  /\ Distance(e, r) <= Tolerance
                  /\ \A s \in rows \ {r} :
                        s.time = Unknown \/ Distance(e, r) < Distance(e, s)}

One(rows) == \E r \in rows : rows = {r}
Several(rows) == rows # {} /\ ~One(rows)
If(condition, rows) == IF condition THEN rows ELSE {}

ById(e, rows) == {r \in rows : r.eventId = e.id}
ByPosition(e, rows) == {r \in rows : r.position = e.position /\ e.position # Unknown}
ByNumber(e, rows) == {r \in rows : r.authority = EventNumber(e) /\ r.authority # Unknown}
ByDay(e, rows) == {r \in ByNumber(e, rows) : DayOf(e) # Unknown /\ r.day = DayOf(e)}

\* Mutant of Ladder: what is nearest in time comes before the numbers.
TimeFirst(e, rows, trusted) ==
    << [quality |-> "exact_kafka_event_id", rows |-> ById(e, rows)],
       [quality |-> "exact_transport_position", rows |-> ByPosition(e, rows)],
       [quality |-> "nearest_time", rows |-> If(~trusted, Nearest(e, rows))],
       [quality |-> "shot_number", rows |-> If(One(ByNumber(e, rows)), ByNumber(e, rows))],
       [quality |-> "exact_day_shot_number", rows |-> If(One(ByDay(e, rows)), ByDay(e, rows))],
       [quality |-> "ambiguous", rows |-> ByNumber(e, rows)],
       [quality |-> "unmatched", rows |-> {}], [quality |-> "unmatched", rows |-> {}],
       [quality |-> "unmatched", rows |-> {}], [quality |-> "unmatched", rows |-> {}] >>

\* The rungs from the strongest: what each would offer.  The number alone is
\* an identity only where the time ranks do not attach (ruling A7).
Ladder(e, rows, trusted) ==
    LET numbered == ByNumber(e, rows)
        today == ByDay(e, rows)
    IN << [quality |-> "exact_kafka_event_id", rows |-> ById(e, rows)],
          [quality |-> "exact_transport_position", rows |-> ByPosition(e, rows)],
          [quality |-> IF One(today) THEN "exact_day_shot_number" ELSE "shot_number",
           rows |-> If(trusted /\ One(numbered), numbered)],
          [quality |-> "exact_day_shot_number", rows |-> If(One(today), today)],
          [quality |-> "exact_day_shot_number_time_window", rows |-> Nearest(e, today)],
          [quality |-> "ambiguous", rows |-> today],
          [quality |-> "shot_number_time_window", rows |-> Nearest(e, numbered)],
          [quality |-> "ambiguous", rows |-> If(Several(numbered), numbered)],
          [quality |-> "nearest_time", rows |-> Nearest(e, rows)],
          [quality |-> "unmatched", rows |-> {}] >>
TimeBased == {"exact_day_shot_number_time_window", "shot_number_time_window", "nearest_time"}

\* The first rung that offers anything decides.
First(ladder) ==
    ladder[CHOOSE i \in 1..10 : /\ ladder[i].rows # {} \/ i = 10
                                /\ \A j \in 1..(i - 1) : ladder[j].rows = {}]
Rung(e, rows, trusted) == First(Ladder(e, rows, trusted))

\* [quality, rows, candidates]: attached to the one of rows, or up for review.
AttachOrOffer(rung) ==
    IF One(rung.rows)
    THEN [quality |-> rung.quality, rows |-> rung.rows, candidates |-> {}]
    ELSE [quality |-> IF rung.rows = {} THEN "unmatched" ELSE "ambiguous",
          rows |-> {}, candidates |-> rung.rows]
Ranked(e, rows, trusted) == AttachOrOffer(Rung(e, Current(rows), trusted))

\* Without auto-assignment what time alone would pick is only proposed.
Propose(best) ==
    IF best.quality \in TimeBased
    THEN [quality |-> "ambiguous", rows |-> {}, candidates |-> best.rows] ELSE best

\* Mutant of Match: what time picks attaches in every mode.
TimeAttaches(e, rows, autoassign) == Ranked(e, rows, ~autoassign)

Match(e, rows, autoassign) ==
    IF autoassign THEN Ranked(e, rows, FALSE) ELSE Propose(Ranked(e, rows, TRUE))

\* A watchdog's possible numbers are offered too, never attached.
Attributed(e, rows) ==
    {r \in rows : r.authority \in e.notes /\ r.authority # Unknown /\ ~r.newer}
Offer(match, rows) ==
    IF match.rows # {} \/ rows = {} THEN match
    ELSE [quality |-> "ambiguous", rows |-> {}, candidates |-> match.candidates \cup rows]

MatchOrOffer(e, rows, autoassign) ==
    Offer(Match(e, rows, autoassign), Attributed(e, rows))
-----------------------------------------------------------------------------
(* Shots of a campaign: one for each row, and those that triggers found.    *)

KeyOf(c, day, number) == <<c, day, number>>     \* make_shot_key
RowShot(c, r) == [key |-> KeyOf(c, r.day, r.number), row |-> r.record, shotId |-> "-"]
EventShot(c, e) ==
    [key |-> KeyOf(c, DayOf(e), EventNumber(e)), row |-> "-", shotId |-> e.shotId]

\* Unattached events with a number that no row holds as the authority's, and
\* whose key no row has: the shots they found take the unattached events of
\* their day, number and shot_id.
Founders(events, rows, c) ==
    {e \in events : /\ e.source = "trigger" /\ e.number # Unknown
                    /\ \A r \in rows : r.authority # e.number
                    /\ \A r \in rows : RowShot(c, r).key # EventShot(c, e).key}
Numbered(events) == {e \in events : EventNumber(e) # Unknown}
FoundedShots(unattached, rows, c) ==
    IF rows = {} THEN {EventShot(c, e) : e \in Numbered(unattached)}
    ELSE {EventShot(c, e) : e \in Founders(unattached, rows, c)}

\* reconcile_canonical_shots: the shots, and for every event what became of it.
\* Without rows nothing is matched, and an event without a number gets no
\* status at all.
NoMatch == [quality |-> "none", rows |-> {}, candidates |-> {}]
Matches(events, rows, autoassign) ==
    [e \in events |-> IF rows = {} THEN NoMatch ELSE MatchOrOffer(e, rows, autoassign)]
Verdict(match, joined, c) ==
    [quality |-> IF joined # {} THEN "event_identity" ELSE match.quality,
     shots |-> {RowShot(c, r) : r \in match.rows} \cup joined,
     candidates |-> If(joined = {}, {RowShot(c, r).key : r \in match.candidates})]
Joined(e, match, founded, c) ==
    If(match.rows = {} /\ EventNumber(e) # Unknown, founded \cap {EventShot(c, e)})
Verdicts(matches, founded, rows, c) ==
    [shots |-> {RowShot(c, r) : r \in rows} \cup founded,
     verdicts |-> [e \in DOMAIN matches |->
                     Verdict(matches[e], Joined(e, matches[e], founded, c), c)]]
Settle(matches, rows, c) ==
    Verdicts(matches,
             FoundedShots({e \in DOMAIN matches : matches[e].rows = {}}, rows, c), rows, c)
Reconcile(events, rows, c, autoassign) == Settle(Matches(events, rows, autoassign), rows, c)
-----------------------------------------------------------------------------
(* Routing of the events that arrived without a campaign.                   *)

\* windows: [campaign, from, to) of the campaign schedule.
Recorded(e, rows) == {r.campaign : r \in {s \in rows : s.authority = e.number}}
Scheduled(e, windows) ==
    {w.campaign : w \in {v \in windows : e.time # Unknown /\ v.from <= e.time /\ e.time < v.to}}

\* rulings: the campaign of each number that was ruled on.
Resolve(e, rows, windows, rulings) ==
    LET Only(S) == CHOOSE c \in S : TRUE
    IN IF e.campaign # Unassigned THEN e.campaign
       ELSE IF e.number = Unknown THEN Unassigned
       ELSE IF One(Recorded(e, rows)) THEN Only(Recorded(e, rows))
       ELSE IF One(Scheduled(e, windows)) THEN Only(Scheduled(e, windows))
       ELSE IF e.number \in DOMAIN rulings THEN rulings[e.number]
       ELSE Unassigned

\* _deduplicate_by_event_id keeps the first copy; the files are read in the
\* order of their rank.
Deduplicated(copies) ==
    {x.event : x \in {y \in copies :
                         \A z \in copies : z.event.id = y.event.id => y.rank <= z.rank}}
=============================================================================
