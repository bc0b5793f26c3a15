------------------------ MODULE CampaignBuildsProofs ------------------------
(***************************************************************************)
(* Proofs about CampaignBuilds, with the matching it does, and about       *)
(* ValidationGate beside it: whatever arrives, is ruled or fails while     *)
(* builds and gates run, no event goes to two campaigns or is dropped,     *)
(* what is attached stays attached, and reports speak of what is           *)
(* published.                                                              *)
(***************************************************************************)
EXTENDS ValidationGate, TLAPS

Sources(E) == {x.event : x \in E}

\* What the exports keep of RowsAreRecords: no two rows with one record.
RowsOK(rows) ==
    \A r, q \in rows :
        /\ r = [record |-> r.record, number |-> r.number, authority |-> r.authority,
                day |-> r.day, time |-> r.time, eventId |-> r.eventId,
                position |-> r.position, campaign |-> r.campaign, active |-> r.active,
                newer |-> r.newer]
        /\ r.time \in Int /\ r.newer \in BOOLEAN /\ r.record # "-"
        /\ r.record = q.record => r = q

TypeInv ==
    /\ scene \in Scenes
    /\ spool \subseteq scene.events /\ exports \subseteq scene.rows
    /\ runs \in Nat /\ failures \in Nat
    /\ run = [at |-> run.at, spooled |-> run.spooled, active |-> run.active,
              exports |-> run.exports, rulings |-> run.rulings, todo |-> run.todo,
              failed |-> run.failed]
    /\ run.at \in {"none", "building"}
    /\ run.at = "none" => run.todo = {}
    /\ RowsOK(run.exports)

\* An entry is what reconciling its events with its rows gives, of a run so far.
Honest(c) ==
    LET it == catalog[c]
        events == DOMAIN it.result.verdicts
    IN /\ it.run \in 0..runs
       /\ it.result = Reconcile(events, it.rows, c, scene.autoassign)
       /\ events \subseteq Sources(scene.events)
       /\ RowsOK(it.rows)
EntriesHonest == \A c \in DOMAIN catalog : Honest(c)

\* Routing is the run's: what it built it would route the same way still.
RoutedByTheRun ==
    run.at = "building" =>
        \A c \in Rebuilt : \A e \in DOMAIN catalog[c].result.verdicts : CampaignOf(e) = c

\* What a run that began now would load, and where it would route an event.
ActiveNow == scene.configured \cup Spooled
RecordsNow == UNION {ExportOf(c, exports) : c \in ActiveNow}
CampaignNow(e) == Resolve(e, RecordsNow, Windows(scene.schedule), Winning(rulings))
InTime == run.spooled = Spooled /\ run.exports = RecordsNow /\ run.rulings = Winning(rulings)

\* Nothing arrived since the last run began, and no build of it failed: then it
\* works with what there is, and every event is in an entry it built, or its
\* campaign has yet to be built.
UpToDate == ~asked /\ runs > 0 /\ run.failed = {}
Covered ==
    UpToDate =>
        /\ run.at = "building" => InTime
        /\ \A x \in spool :
              LET c == CampaignNow(x.event)
              IN c \in run.todo \/ (c \in Rebuilt /\ x.event.id \in Events(c))

\* What fails on a line is built again, when the line is complete.
FailedForALine ==
    failures = 0 /\ run.failed # {} => asked \/ writing # {}
-----------------------------------------------------------------------------
(* Matching.                                                                *)

\* A set has one member or several, or it is empty.
LEMMA OneMember ==
    ASSUME NEW S, NEW s \in S, One(S)
    PROVE  S = {s}
  BY DEF One

\* Reconciling gives every event its verdict, from its match and what it joins.
LEMMA VerdictOf ==
    ASSUME NEW E, NEW rows, NEW c, NEW auto
    PROVE  LET result == Reconcile(E, rows, c, auto)
               matches == Matches(E, rows, auto)
               unattached == {e \in E : matches[e].rows = {}}
           IN /\ DOMAIN result.verdicts = E
              /\ \A e \in E : result.verdicts[e] =
                   Verdict(matches[e], Joined(e, matches[e], FoundedShots(unattached, rows, c), c), c)
  BY DEF Reconcile, Settle, Verdicts, Matches

\* An event that is not attached by the ladder is ambiguous or unmatched.
LEMMA OpenIsSaid ==
    ASSUME NEW e, NEW rows, NEW auto, MatchOrOffer(e, rows, auto).rows = {}
    PROVE  MatchOrOffer(e, rows, auto).quality \in {"ambiguous", "unmatched"}
  <1>1. \A rung : AttachOrOffer(rung).rows = {} => AttachOrOffer(rung).quality \in {"ambiguous", "unmatched"}
    BY DEF AttachOrOffer, One
  <1>2. Match(e, rows, auto).rows = {} => Match(e, rows, auto).quality \in {"ambiguous", "unmatched"}
    BY <1>1 DEF Match, Propose, Ranked
  <1> QED
    BY <1>2 DEF MatchOrOffer, Offer

\* So an event of an entry is attached or up for review, unless it has no
\* number and there are no rows to match it with.
LEMMA EventsShow ==
    ASSUME NEW E, NEW rows, NEW c, NEW auto, NEW e \in E,
           EventNumber(e) # Unknown \/ rows # {}
    PROVE  LET verdict == Reconcile(E, rows, c, auto).verdicts[e]
           IN verdict.shots # {} \/ verdict.quality \in {"ambiguous", "unmatched"}
  <1> DEFINE matches == Matches(E, rows, auto)
             founded == FoundedShots({f \in E : matches[f].rows = {}}, rows, c)
             joined == Joined(e, matches[e], founded, c)
             verdict == Reconcile(E, rows, c, auto).verdicts[e]
  <1>1. verdict = Verdict(matches[e], joined, c)
    BY VerdictOf
  <1>2. matches[e] = IF rows = {} THEN NoMatch ELSE MatchOrOffer(e, rows, auto)
    BY DEF Matches
  <1>0. /\ verdict.quality = IF joined # {} THEN "event_identity" ELSE matches[e].quality
        /\ verdict.shots = {RowShot(c, r) : r \in matches[e].rows} \cup joined
    BY <1>1 DEF Verdict
  <1>3. CASE rows = {}
    <2>1. matches[e].rows = {} /\ EventNumber(e) # Unknown
      BY <1>2, <1>3 DEF NoMatch
    <2>2. EventShot(c, e) \in founded
      BY <1>3, <2>1 DEF FoundedShots, Numbered
    <2>3. EventShot(c, e) \in joined
      BY <2>1, <2>2 DEF Joined, If
    <2> QED
      BY <1>0, <2>3
  <1>4. CASE rows # {} /\ matches[e].rows = {}
    <2>1. matches[e].quality \in {"ambiguous", "unmatched"}
      BY <1>2, <1>4, OpenIsSaid
    <2>2. CASE joined = {}
      BY <1>0, <2>1, <2>2
    <2>3. CASE joined # {}
      BY <1>0, <2>3
    <2> QED
      BY <2>2, <2>3
  <1>5. CASE rows # {} /\ matches[e].rows # {}
    BY <1>0, <1>5
  <1> QED
    BY <1>3, <1>4, <1>5

\* Copies of an event resolve to one campaign.
LEMMA CopiesResolveAlike ==
    ASSUME NEW e, NEW f, SameEnvelope(e, f), NEW rows, NEW windows, NEW rulings_
    PROVE  Resolve(e, rows, windows, rulings_) = Resolve(f, rows, windows, rulings_)
  <1>1. Recorded(e, rows) = Recorded(f, rows) /\ Scheduled(e, windows) = Scheduled(f, windows)
    BY DEF SameEnvelope, Recorded, Scheduled
  <1> QED
    BY <1>1 DEF SameEnvelope, Resolve

\* Of the copies of an event one of the least rank is kept.
LEMMA OneCopyIsKept ==
    ASSUME NEW copies, NEW y \in copies, \A z \in copies : z.rank \in 0..3
    PROVE  \E e \in Deduplicated(copies) : e.id = y.event.id
  <1> DEFINE mine == {z \in copies : z.event.id = y.event.id}
  <1>1. \E z \in mine : \A w \in mine : z.rank <= w.rank
    <2>1. CASE \E z \in mine : z.rank = 0
      BY <2>1
    <2>2. CASE (\A z \in mine : z.rank # 0) /\ \E z \in mine : z.rank = 1
      BY <2>2
    <2>3. CASE (\A z \in mine : z.rank \notin {0, 1}) /\ \E z \in mine : z.rank = 2
      BY <2>3
    <2>4. CASE \A z \in mine : z.rank = 3
      BY <2>4
    <2> QED
      BY <2>1, <2>2, <2>3, <2>4
  <1>2. PICK z \in mine : \A w \in mine : z.rank <= w.rank
    BY <1>1
  <1>3. z.event \in Deduplicated(copies)
    BY <1>2 DEF Deduplicated
  <1> QED
    BY <1>2, <1>3

\* The rung that decides is the first that offers rows, or the last.
Decides(ladder, i) ==
    /\ ladder[i].rows # {} \/ i = 10
    /\ \A j \in 1..(i - 1) : ladder[j].rows = {}

LEMMA OneDecides ==
    ASSUME NEW ladder
    PROVE  /\ \E i \in 1..10 : Decides(ladder, i)
           /\ \A i, j \in 1..10 : Decides(ladder, i) /\ Decides(ladder, j) => i = j
           /\ \A i \in 1..10 : Decides(ladder, i) => First(ladder) = ladder[i]
  <1>1. \E i \in 1..10 : Decides(ladder, i)
    <2> DEFINE offers(i) == ladder[i].rows # {}
    <2>1. \E i \in 1..10 : (offers(i) \/ i = 10) /\ \A j \in 1..(i - 1) : ~ offers(j)
      OBVIOUS
    <2> QED
      BY <2>1 DEF Decides
  <1>2. ASSUME NEW i \in 1..10, NEW j \in 1..10, Decides(ladder, i), Decides(ladder, j)
        PROVE  i = j
    <2>1. i < j => FALSE
      BY <1>2 DEF Decides
    <2>2. j < i => FALSE
      BY <1>2 DEF Decides
    <2> QED
      BY <2>1, <2>2
  <1>3. ASSUME NEW i \in 1..10, Decides(ladder, i)
        PROVE  First(ladder) = ladder[i]
    <2> DEFINE k == CHOOSE k \in 1..10 : Decides(ladder, k)
    <2>1. k \in 1..10 /\ Decides(ladder, k)
      BY <1>1
    <2>2. First(ladder) = ladder[k]
      BY DEF First, Decides
    <2> QED
      BY <1>2, <1>3, <2>1, <2>2
  <1> QED
    BY <1>1, <1>2, <1>3

\* The strongest four rungs do not go by the time alone.
LEMMA RungsOf ==
    ASSUME NEW e, NEW rows, NEW trusted \in BOOLEAN,
           NEW ladder, ladder = Ladder(e, rows, trusted)
    PROVE  /\ \A i \in 1..10 : ladder[i].rows \subseteq rows
           /\ \A i \in 1..4 : ladder[i].quality \notin TimeBased
           /\ \A i \in {5, 7, 9} : ladder[i].quality \in TimeBased
           /\ ladder[1].rows = ById(e, rows)
           /\ ladder[2].rows = ByPosition(e, rows)
           /\ ladder[3].rows = IF trusted THEN If(One(ByNumber(e, rows)), ByNumber(e, rows)) ELSE {}
           /\ ladder[4].rows = If(One(ByDay(e, rows)), ByDay(e, rows))
           /\ ladder[5].rows = Nearest(e, ByDay(e, rows))
           /\ ladder[6].rows = ByDay(e, rows)
           /\ ladder[7].rows = Nearest(e, ByNumber(e, rows))
           /\ ladder[8].rows = If(Several(ByNumber(e, rows)), ByNumber(e, rows))
           /\ ladder[9].rows = Nearest(e, rows)
           /\ ladder[10].rows = {}
  <1>1. \A i \in 1..4 : ladder[i].quality \notin TimeBased
    BY DEF Ladder, TimeBased
  <1>2. \A i \in {5, 7, 9} : ladder[i].quality \in TimeBased
    BY DEF Ladder, TimeBased
  <1>3. /\ ladder[1].rows = ById(e, rows)
        /\ ladder[2].rows = ByPosition(e, rows)
        /\ ladder[3].rows = IF trusted THEN If(One(ByNumber(e, rows)), ByNumber(e, rows)) ELSE {}
        /\ ladder[4].rows = If(One(ByDay(e, rows)), ByDay(e, rows))
        /\ ladder[5].rows = Nearest(e, ByDay(e, rows))
        /\ ladder[6].rows = ByDay(e, rows)
        /\ ladder[7].rows = Nearest(e, ByNumber(e, rows))
        /\ ladder[8].rows = If(Several(ByNumber(e, rows)), ByNumber(e, rows))
        /\ ladder[9].rows = Nearest(e, rows)
        /\ ladder[10].rows = {}
    BY DEF Ladder, If
  <1>4. \A S : Nearest(e, S) \subseteq S
    BY DEF Nearest
  <1>5. /\ ById(e, rows) \subseteq rows /\ ByPosition(e, rows) \subseteq rows
        /\ ByNumber(e, rows) \subseteq rows /\ ByDay(e, rows) \subseteq rows
    BY DEF ById, ByPosition, ByNumber, ByDay
  <1>6. \A i \in 1..10 : ladder[i].rows \subseteq rows
    <2> TAKE i \in 1..10
    <2>1. i \in {1, 2, 3, 4, 5, 6, 7, 8, 9, 10}
      OBVIOUS
    <2> QED
      BY <1>3, <1>4, <1>5, <2>1 DEF If
  <1> QED
    BY <1>1, <1>2, <1>3, <1>6

\* An event is attached to one row, one of those it was matched with.
LEMMA AttachesOne ==
    ASSUME NEW e, NEW rows, NEW auto
    PROVE  LET match == MatchOrOffer(e, rows, auto)
           IN match.rows \subseteq rows /\ (match.rows # {} => One(match.rows))
  <1>1. Current(rows) \subseteq rows
    BY DEF Current
  <1>2. \A trusted \in BOOLEAN : Rung(e, Current(rows), trusted).rows \subseteq rows
    <2> TAKE trusted \in BOOLEAN
    <2>1. PICK ladder : ladder = Ladder(e, Current(rows), trusted)
      OBVIOUS
    <2>2. PICK i \in 1..10 : First(ladder) = ladder[i]
      BY OneDecides
    <2>3. ladder[i].rows \subseteq Current(rows)
      BY <2>1, RungsOf
    <2> QED
      BY <1>1, <2>1, <2>2, <2>3 DEF Rung
  <1>3. \A rung : /\ AttachOrOffer(rung).rows \subseteq rung.rows
                  /\ AttachOrOffer(rung).rows # {} => One(AttachOrOffer(rung).rows)
    BY DEF AttachOrOffer
  <1>4. \A best : Propose(best).rows \in {best.rows, {}}
    BY DEF Propose
  <1>5. LET match == Match(e, rows, auto)
        IN match.rows \subseteq rows /\ (match.rows # {} => One(match.rows))
    <2>1. CASE auto
      BY <1>2, <1>3, <2>1 DEF Match, Ranked
    <2>2. CASE ~ auto
      <3> DEFINE best == Ranked(e, rows, TRUE)
      <3>1. best.rows \subseteq rows /\ (best.rows # {} => One(best.rows))
        BY <1>2, <1>3 DEF Ranked
      <3>2. Match(e, rows, auto).rows \in {best.rows, {}}
        BY <1>4, <2>2 DEF Match
      <3> QED
        BY <3>1, <3>2
    <2> QED
      BY <2>1, <2>2
  <1> QED
    BY <1>5 DEF MatchOrOffer, Offer

\* Without auto-assignment nothing attaches but a single row that the event's
\* id, its position or its number names.
LEMMA NamedAttaches ==
    ASSUME NEW e, NEW rows
    PROVE  MatchOrOffer(e, rows, FALSE).rows = If(One(Named(e, rows)), Named(e, rows))
  <1> DEFINE current == Current(rows)
             best == Ranked(e, rows, TRUE)
             numbered == ByNumber(e, current)
             today == ByDay(e, current)
  <1>1. MatchOrOffer(e, rows, FALSE).rows = Propose(best).rows
    BY DEF MatchOrOffer, Offer, Match
  <1>0. SUFFICES Propose(best).rows = If(One(Named(e, rows)), Named(e, rows))
    BY <1>1
  <1>10. Named(e, rows) = IF ById(e, current) # {} THEN ById(e, current)
                          ELSE IF ByPosition(e, current) # {} THEN ByPosition(e, current)
                          ELSE IF Several(numbered) THEN today ELSE numbered
    BY DEF Named
  <1>2. PICK ladder : ladder = Ladder(e, current, TRUE)
    OBVIOUS
  <1>3. best = AttachOrOffer(First(ladder))
    BY <1>2 DEF Ranked, Rung
  <1>a. today # {} => numbered # {}
    BY DEF ByDay
  <1> HIDE DEF current, best
  <1>b. PICK i \in 1..10 : Decides(ladder, i) /\ First(ladder) = ladder[i]
    BY OneDecides
  <1>4. best.rows = If(One(ladder[i].rows), ladder[i].rows)
    BY <1>3, <1>b DEF AttachOrOffer, If
  <1>c. best.rows # {} => best.quality = ladder[i].quality
    <2>1. CASE One(ladder[i].rows)
      BY <1>3, <1>b, <2>1 DEF AttachOrOffer
    <2>2. CASE ~ One(ladder[i].rows)
      BY <1>4, <2>2 DEF If
    <2> QED
      BY <2>1, <2>2
  <1>d. \A k \in 1..4 : ladder[k].quality \notin TimeBased
    BY <1>2, RungsOf
  <1>e. \A k \in {5, 7, 9} : ladder[k].quality \in TimeBased
    BY <1>2, RungsOf
  <1>5. Propose(best).rows = IF best.quality \in TimeBased THEN {} ELSE best.rows
    BY DEF Propose
  <1>6. i \in 1..4 => Propose(best).rows = best.rows
    BY <1>5, <1>c, <1>d
  <1>7. i \in {5, 7, 9} => Propose(best).rows = {}
    BY <1>5, <1>c, <1>e
  <1>r. /\ ladder[1].rows = ById(e, current) /\ ladder[2].rows = ByPosition(e, current)
        /\ ladder[3].rows = If(One(numbered), numbered)
        /\ ladder[4].rows = If(One(today), today)
        /\ ladder[6].rows = today
        /\ ladder[8].rows = If(Several(numbered), numbered)
        /\ ladder[10].rows = {}
    <2>1. PICK trusted \in BOOLEAN : trusted = TRUE
      OBVIOUS
    <2>2. ladder = Ladder(e, current, trusted)
      BY <1>2, <2>1
    <2>3. ladder[3].rows = IF trusted THEN If(One(numbered), numbered) ELSE {}
      BY <2>2, RungsOf
    <2>4. ladder[3].rows = If(One(numbered), numbered)
      BY <2>1, <2>3
    <2>5. ladder[1].rows = ById(e, current) /\ ladder[2].rows = ByPosition(e, current)
      BY <2>2, RungsOf
    <2>6. ladder[4].rows = If(One(today), today) /\ ladder[6].rows = today
      BY <2>2, RungsOf
    <2>7. ladder[8].rows = If(Several(numbered), numbered) /\ ladder[10].rows = {}
      BY <2>2, RungsOf
    <2> QED
      BY <2>4, <2>5, <2>6, <2>7
  <1> HIDE DEF numbered, today
  <1>8. i \in {6, 8, 10} => best.rows = {}
    <2>1. i = 6 => ladder[4].rows = {}
      BY <1>b DEF Decides
    <2>2. i = 6 => ~ One(today)
      BY <1>b, <1>r, <2>1 DEF If, Decides
    <2>3. ~ One(If(Several(numbered), numbered))
      BY DEF If, Several, One
    <2>4. ~ One({})
      BY DEF One
    <2> QED
      BY <1>4, <1>r, <2>2, <2>3, <2>4 DEF If
  <1>9. Propose(best).rows = IF i \in 1..4 THEN If(One(ladder[i].rows), ladder[i].rows) ELSE {}
    <2>1. i \in 1..4 \/ i \in {5, 7, 9} \/ i \in {6, 8, 10}
      OBVIOUS
    <2> QED
      BY <1>4, <1>5, <1>6, <1>7, <1>8, <2>1
  <1>11. Decides(ladder, i)
    BY <1>b
  <1>12. CASE i = 1
    BY <1>9, <1>10, <1>11, <1>12, <1>r DEF Decides
  <1>13. CASE i = 2
    <2>1. ById(e, current) = {} /\ ByPosition(e, current) # {}
      BY <1>11, <1>13, <1>r DEF Decides
    <2> QED
      BY <1>9, <1>10, <1>13, <1>r, <2>1
  <1>14. CASE i \in 3..10
    <2>1. ById(e, current) = {} /\ ByPosition(e, current) = {}
      BY <1>11, <1>14, <1>r DEF Decides
    <2>2. i = 3 => One(numbered) /\ ~ Several(numbered) /\ ladder[3].rows = numbered
      BY <1>11, <1>r DEF Decides, If, Several
    <2>3. i = 4 => One(today) /\ ladder[4].rows = today /\ ~ One(numbered)
      <3>1. i = 4 => ladder[3].rows = {} /\ ladder[4].rows # {}
        BY <1>11 DEF Decides
      <3>2. One(numbered) => numbered # {}
        BY DEF One
      <3> QED
        BY <1>r, <3>1, <3>2 DEF If
    <2>4. i > 4 => ~ One(today) /\ ~ One(numbered)
      <3>1. i > 4 => ladder[3].rows = {} /\ ladder[4].rows = {}
        BY <1>11 DEF Decides
      <3>2. \A S : One(S) => S # {}
        BY DEF One
      <3> QED
        BY <1>r, <3>1, <3>2 DEF If
    <2>6. CASE i = 3
      <3>1. Named(e, rows) = numbered
        BY <1>10, <2>1, <2>2, <2>6
      <3>2. best.rows = numbered
        BY <1>4, <2>2, <2>6 DEF If
      <3> QED
        BY <1>6, <2>2, <2>6, <3>1, <3>2 DEF If
    <2>7. CASE i = 4
      <3>1. Several(numbered)
        BY <1>a, <2>3, <2>7 DEF Several, One
      <3>2. Named(e, rows) = today
        BY <1>10, <2>1, <3>1
      <3>3. best.rows = today
        BY <1>4, <2>3, <2>7 DEF If
      <3> QED
        BY <1>6, <2>3, <2>7, <3>2, <3>3 DEF If
    <2>8. CASE i > 4
      <3>1. ~ One(Named(e, rows))
        BY <1>10, <2>1, <2>4, <2>8
      <3> QED
        BY <1>9, <2>8, <3>1 DEF If
    <2> QED
      BY <1>14, <2>6, <2>7, <2>8
  <1> QED
    BY <1>12, <1>13, <1>14

\* Of two rows nearest in time there is none.
LEMMA NearestIsOne ==
    ASSUME NEW e, NEW rows, e.time \in Int, \A r \in rows : r.time \in Int,
           NEW r \in Nearest(e, rows)
    PROVE  Nearest(e, rows) = {r}
  <1>1. ASSUME NEW q \in Nearest(e, rows), q # r PROVE FALSE
    <2>1. q \in rows /\ r \in rows /\ q.time # Unknown /\ r.time # Unknown
      BY <1>1 DEF Nearest
    <2>2. Distance(e, q) < Distance(e, r) /\ Distance(e, r) < Distance(e, q)
      BY <1>1, <2>1 DEF Nearest
    <2>3. Distance(e, q) \in Int /\ Distance(e, r) \in Int
      BY <2>1 DEF Distance
    <2> QED
      BY <2>2, <2>3
  <1> QED
    BY <1>1

LEMMA NearestOfFewer ==
    ASSUME NEW e, NEW few, NEW many, few \subseteq many, NEW r \in few, r \in Nearest(e, many)
    PROVE  r \in Nearest(e, few)
  BY DEF Nearest

\* A row that names an event and has no rival among the rows that are new.
Unrivalled(r, e, old, new) ==
    /\ r \in old \cap new /\ Names(r, e) /\ \A q \in new \ old : ~ Names(q, e)
    /\ e.time \in Int /\ \A q \in old \cup new : q.time \in Int

\* If such a row decides for itself among the old rows, so it does among the new.
LEMMA RungStays ==
    ASSUME NEW e, NEW old, NEW new, NEW r, Unrivalled(r, e, old, new),
           NEW trusted \in BOOLEAN,
           NEW was, was = Ladder(e, old, trusted), NEW now, now = Ladder(e, new, trusted),
           NEW i \in 1..10, Decides(was, i), was[i].rows = {r}
    PROVE  \E k \in 1..10 : Decides(now, k) /\ now[k].rows = {r} /\ (i \notin {5, 7} => k <= 4)
  <1> DEFINE id(S) == ById(e, S)
             position(S) == ByPosition(e, S)
             numbered(S) == ByNumber(e, S)
             today(S) == ByDay(e, S)
  <1>0. /\ r \in old /\ r \in new /\ Names(r, e) /\ \A q \in new \ old : ~ Names(q, e)
        /\ e.time \in Int /\ \A q \in old \cup new : q.time \in Int
    BY DEF Unrivalled
  <1>1. /\ id(new) \subseteq id(old) /\ position(new) \subseteq position(old)
        /\ numbered(new) \subseteq numbered(old) /\ today(new) \subseteq today(old)
    BY <1>0 DEF ById, ByPosition, ByNumber, ByDay, Names
  <1>2. /\ r \in id(old) => r \in id(new)
        /\ r \in position(old) => r \in position(new)
        /\ r \in numbered(old) => r \in numbered(new)
        /\ r \in today(old) => r \in today(new)
    BY <1>0 DEF ById, ByPosition, ByNumber, ByDay
  <1>3. r \in id(old) \/ r \in position(old) \/ r \in numbered(old)
    BY <1>0 DEF Names, ById, ByPosition, ByNumber
  <1>4. today(old) \subseteq numbered(old) /\ today(new) \subseteq numbered(new)
    BY DEF ByDay
  <1>5. /\ numbered(old) \subseteq old /\ numbered(new) \subseteq new
    BY DEF ByNumber
  <1>6. /\ \A q \in numbered(old) : q.time \in Int
        /\ \A q \in numbered(new) : q.time \in Int
    BY <1>0, <1>5
  <1>w. /\ was[1].rows = id(old) /\ was[2].rows = position(old)
        /\ was[3].rows = IF trusted THEN If(One(numbered(old)), numbered(old)) ELSE {}
        /\ was[4].rows = If(One(today(old)), today(old))
        /\ was[5].rows = Nearest(e, today(old)) /\ was[6].rows = today(old)
        /\ was[7].rows = Nearest(e, numbered(old))
        /\ was[8].rows = If(Several(numbered(old)), numbered(old))
        /\ was[9].rows = Nearest(e, old) /\ was[10].rows = {}
    BY RungsOf
  <1>n. /\ now[1].rows = id(new) /\ now[2].rows = position(new)
        /\ now[3].rows = IF trusted THEN If(One(numbered(new)), numbered(new)) ELSE {}
        /\ now[4].rows = If(One(today(new)), today(new))
        /\ now[5].rows = Nearest(e, today(new)) /\ now[6].rows = today(new)
        /\ now[7].rows = Nearest(e, numbered(new))
    BY RungsOf
  <1> HIDE DEF id, position, numbered, today
  <1>d. (i = 10 \/ was[i].rows # {}) /\ \A j \in 1..(i - 1) : was[j].rows = {}
    BY DEF Decides
  <1>o. \A S : One(S) <=> \E s : S = {s}
    BY DEF One
  <1>k. ASSUME NEW k \in 1..9, now[k].rows = {r}, \A j \in 1..(k - 1) : now[j].rows \in {{}, {r}},
               i \notin {5, 7} => k <= 4
        PROVE  \E n \in 1..10 : Decides(now, n) /\ now[n].rows = {r} /\ (i \notin {5, 7} => n <= 4)
    <2>1. PICK n \in 1..10 : Decides(now, n)
      BY OneDecides
    <2>2. n <= k
      BY <1>k, <2>1 DEF Decides
    <2>3. now[n].rows # {}
      BY <1>k, <2>1, <2>2 DEF Decides
    <2>4. now[n].rows = {r}
      BY <1>k, <2>2, <2>3
    <2> QED
      BY <1>k, <2>1, <2>2, <2>4
  <1>c1. CASE i = 1
    <2>1. id(new) = {r}
      BY <1>1, <1>2, <1>w, <1>c1
    <2>2. now[1].rows = {r}
      BY <1>n, <2>1
    <2> QED
      BY <1>k, <2>2, <1>c1
  <1>c2. CASE i = 2
    <2>1. id(old) = {} /\ position(old) = {r}
      BY <1>d, <1>w, <1>c2
    <2>2. id(new) = {} /\ position(new) = {r}
      BY <1>1, <1>2, <2>1
    <2>3. now[2].rows = {r} /\ now[1].rows = {}
      BY <1>n, <2>2
    <2> QED
      BY <1>k, <2>3, <1>c2
  <1>c. CASE i > 2
    <2>1. id(old) = {} /\ position(old) = {}
      BY <1>d, <1>w, <1>c
    <2>2. now[1].rows = {} /\ now[2].rows = {}
      BY <1>1, <1>n, <2>1
    <2>3. r \in numbered(old) /\ r \in numbered(new)
      BY <1>2, <1>3, <2>1
    <2>4. now[3].rows \in {{}, {r}}
      <3>1. CASE One(numbered(new))
        BY <1>n, <1>o, <2>3, <3>1 DEF If
      <3>2. CASE ~ One(numbered(new))
        BY <1>n, <3>2 DEF If
      <3> QED
        BY <3>1, <3>2
    <2>c3. CASE i = 3
      <3>1. trusted /\ numbered(old) = {r}
        BY <1>w, <2>c3 DEF If
      <3>2. numbered(new) = {r} /\ One(numbered(new))
        BY <1>1, <2>3, <3>1, <1>o
      <3>3. now[3].rows = {r}
        BY <1>n, <3>1, <3>2 DEF If
      <3> QED
        BY <1>k, <2>2, <2>c3, <3>3
    <2>c4. CASE i = 4
      <3>1. today(old) = {r}
        BY <1>w, <2>c4 DEF If
      <3>2. today(new) = {r} /\ One(today(new))
        BY <1>1, <1>2, <3>1, <1>o
      <3>3. now[4].rows = {r}
        BY <1>n, <3>2 DEF If
      <3> QED
        BY <1>k, <2>2, <2>4, <2>c4, <3>3
    <2>5. r \in today(new) => now[4].rows \in {{}, {r}}
      <3>1. CASE One(today(new))
        BY <1>n, <1>o, <3>1 DEF If
      <3>2. CASE ~ One(today(new))
        BY <1>n, <3>2 DEF If
      <3> QED
        BY <3>1, <3>2
    <2>c5. CASE i = 5
      <3>1. r \in Nearest(e, today(old)) /\ r \in today(old)
        BY <1>w, <2>c5 DEF Nearest
      <3>2. r \in today(new)
        BY <1>2, <3>1
      <3>3. r \in Nearest(e, today(new))
        BY <1>1, <3>1, <3>2, NearestOfFewer
      <3>4. now[5].rows = {r}
        BY <1>0, <1>4, <1>6, <1>n, <3>3, NearestIsOne
      <3> QED
        BY <1>k, <2>2, <2>4, <2>5, <2>c5, <3>2, <3>4
    <2>c6. CASE i = 6
      <3>1. One(today(old)) /\ today(old) # {}
        BY <1>w, <1>o, <2>c6
      <3>2. was[4].rows = {}
        BY <1>d, <2>c6
      <3> QED
        BY <1>w, <3>1, <3>2 DEF If
    <2>c7. CASE i = 7
      <3>1. was[6].rows = {} /\ r \in Nearest(e, numbered(old))
        BY <1>w, <1>d, <2>c7
      <3>2. today(new) = {}
        BY <1>1, <1>w, <3>1
      <3>3. now[4].rows = {} /\ now[5].rows = {} /\ now[6].rows = {}
        BY <1>n, <3>2 DEF If, Nearest
      <3>4. r \in Nearest(e, numbered(new))
        BY <1>1, <2>3, <3>1, NearestOfFewer
      <3>5. now[7].rows = {r}
        BY <1>0, <1>6, <1>n, <3>4, NearestIsOne
      <3> QED
        BY <1>k, <2>2, <2>4, <2>c7, <3>3, <3>5
    <2>c8. CASE i = 8
      <3>1. \A S : ~ (If(Several(S), S) = {r})
        BY <1>o DEF If, Several
      <3> QED
        BY <1>w, <2>c8, <3>1
    <2>c9. CASE i = 9
      <3>1. was[7].rows = {} /\ was[8].rows = {} /\ r \in Nearest(e, old)
        BY <1>w, <1>d, <2>c9
      <3>2. numbered(old) = {r}
        <4>1. ~ Several(numbered(old))
          BY <1>w, <2>3, <3>1 DEF If
        <4> QED
          BY <1>o, <2>3, <4>1 DEF Several
      <3>3. r \in Nearest(e, numbered(old))
        BY <1>5, <2>3, <3>1, NearestOfFewer
      <3> QED
        BY <1>w, <3>1, <3>3
    <2>c10. CASE i = 10
      BY <1>w, <2>c10
    <2>6. i \in 3..10
      BY <1>c
    <2> QED
      BY <2>6, <2>c3, <2>c4, <2>c5, <2>c6, <2>c7, <2>c8, <2>c9, <2>c10
  <1> QED
    BY <1>c1, <1>c2, <1>c

LEMMA OfferKeepsRows ==
    ASSUME NEW e, NEW rows, NEW auto
    PROVE  MatchOrOffer(e, rows, auto).rows = Match(e, rows, auto).rows
  BY DEF MatchOrOffer, Offer

LEMMA AttachesTo ==
    ASSUME NEW rung, NEW r
    PROVE  /\ AttachOrOffer(rung).rows = {r} =>
                rung.rows = {r} /\ AttachOrOffer(rung).quality = rung.quality
           /\ rung.rows = {r} =>
                AttachOrOffer(rung).rows = {r} /\ AttachOrOffer(rung).quality = rung.quality
  <1>1. CASE One(rung.rows)
    BY <1>1 DEF AttachOrOffer
  <1>2. CASE ~ One(rung.rows)
    <2>1. AttachOrOffer(rung).rows = {} /\ rung.rows # {r}
      BY <1>2 DEF AttachOrOffer, One
    <2> QED
      BY <2>1
  <1> QED
    BY <1>1, <1>2

LEMMA RankedIs ==
    ASSUME NEW e, NEW rows, NEW trusted \in BOOLEAN,
           NEW i \in 1..10, Decides(Ladder(e, Current(rows), trusted), i)
    PROVE  Ranked(e, rows, trusted) = AttachOrOffer(Ladder(e, Current(rows), trusted)[i])
  BY OneDecides DEF Ranked, Rung

AttachedTo(r, match) == match.rows = {r}
ByTime(match) == match.quality \in TimeBased

\* So a row that names an event keeps it, unless a new row names it too.
LEMMA RankedStays ==
    ASSUME NEW e, NEW old, NEW new, NEW r, Unrivalled(r, e, old, new), ~ r.newer,
           NEW trusted \in BOOLEAN, AttachedTo(r, Ranked(e, old, trusted))
    PROVE  /\ AttachedTo(r, Ranked(e, new, trusted))
           /\ ~ ByTime(Ranked(e, old, trusted)) => ~ ByTime(Ranked(e, new, trusted))
  <1> DEFINE before == Ranked(e, old, trusted)
             after == Ranked(e, new, trusted)
  <1>0. before.rows = {r}
    BY DEF AttachedTo
  <1>1. PICK was : was = Ladder(e, Current(old), trusted)
    OBVIOUS
  <1>2. PICK now : now = Ladder(e, Current(new), trusted)
    OBVIOUS
  <1>3. PICK i \in 1..10 : Decides(was, i)
    BY OneDecides
  <1>4. /\ \A S : r \in S => r \in Current(S) /\ Current(S) = {q \in S : ~ q.newer}
        /\ Current(old) \subseteq old /\ Current(new) \subseteq new
    BY DEF Current
  <1>5. Unrivalled(r, e, Current(old), Current(new))
    BY <1>4 DEF Unrivalled
  <1>6. was[i].rows = {r} /\ before.quality = was[i].quality
    <2>1. before = AttachOrOffer(was[i])
      BY <1>1, <1>3, RankedIs
    <2> HIDE DEF before
    <2> QED
      BY <1>0, <2>1, AttachesTo
  <1>7. \A k \in {5, 7, 9} : was[k].quality \in TimeBased
    BY <1>1, RungsOf
  <1>8. \A j \in 1..4 : now[j].quality \notin TimeBased
    BY <1>2, RungsOf
  <1>9. PICK k \in 1..10 : Decides(now, k) /\ now[k].rows = {r} /\ (i \notin {5, 7} => k <= 4)
    BY <1>1, <1>2, <1>3, <1>5, <1>6, RungStays
  <1>10. after.rows = {r} /\ after.quality = now[k].quality
    <2>1. after = AttachOrOffer(now[k])
      BY <1>2, <1>9, RankedIs
    <2> HIDE DEF after
    <2>2. now[k].rows = {r}
      BY <1>9
    <2> QED
      BY <2>1, <2>2, AttachesTo
  <1> QED
    BY <1>6, <1>7, <1>8, <1>9, <1>10 DEF AttachedTo, ByTime

LEMMA MatchStays ==
    ASSUME NEW e, NEW old, NEW new, NEW r, Unrivalled(r, e, old, new), ~ r.newer,
           NEW auto \in BOOLEAN, MatchOrOffer(e, old, auto).rows = {r}
    PROVE  MatchOrOffer(e, new, auto).rows = {r}
  <1>1. Match(e, old, auto).rows = {r}
    BY OfferKeepsRows
  <1>2. CASE auto = TRUE
    <2>1. Match(e, old, auto) = Ranked(e, old, FALSE) /\ Match(e, new, auto) = Ranked(e, new, FALSE)
      BY <1>2 DEF Match
    <2>2. AttachedTo(r, Ranked(e, old, FALSE))
      BY <1>1, <2>1 DEF AttachedTo
    <2>3. AttachedTo(r, Ranked(e, new, FALSE))
      BY <2>2, RankedStays
    <2> QED
      BY <2>1, <2>3, OfferKeepsRows DEF AttachedTo
  <1>3. CASE auto = FALSE
    <2> DEFINE before == Ranked(e, old, TRUE)
               after == Ranked(e, new, TRUE)
    <2>1. Match(e, old, auto) = Propose(before) /\ Match(e, new, auto) = Propose(after)
      BY <1>3 DEF Match
    <2>0. Propose(before).rows = {r}
      BY <1>1, <2>1
    <2>2. before.rows = {r} /\ before.quality \notin TimeBased
      <3> HIDE DEF before
      <3> QED
        BY <2>0 DEF Propose
    <2>3. after.rows = {r} /\ after.quality \notin TimeBased
      <3>1. AttachedTo(r, before) /\ ~ ByTime(before)
        BY <2>2 DEF AttachedTo, ByTime
      <3>2. AttachedTo(r, after) /\ ~ ByTime(after)
        BY <3>1, RankedStays
      <3> QED
        BY <3>2 DEF AttachedTo, ByTime
    <2>4. Propose(after) = after
      BY <2>3 DEF Propose
    <2> QED
      BY <2>1, <2>3, <2>4, OfferKeepsRows
  <1> QED
    BY <1>2, <1>3

\* Of an event's shots those of rows are of the one it was matched with.
LEMMA RowShotIsMatch ==
    ASSUME NEW E, NEW rows, RowsOK(rows), NEW c, NEW auto, NEW e \in E, NEW r \in rows,
           RowShot(c, r) \in Reconcile(E, rows, c, auto).verdicts[e].shots
    PROVE  MatchOrOffer(e, rows, auto).rows = {r}
  <1> DEFINE match == MatchOrOffer(e, rows, auto)
             founded == FoundedShots({f \in E : Matches(E, rows, auto)[f].rows = {}}, rows, c)
             joined == Joined(e, Matches(E, rows, auto)[e], founded, c)
  <1>1. Matches(E, rows, auto)[e] = match
    BY DEF Matches
  <1> DEFINE verdict == Reconcile(E, rows, c, auto).verdicts[e]
  <1>v. verdict = Verdict(Matches(E, rows, auto)[e], joined, c)
    BY VerdictOf
  <1>2. RowShot(c, r) \in {RowShot(c, q) : q \in match.rows} \cup joined
    BY <1>1, <1>v DEF Verdict
  <1>3. joined \subseteq {EventShot(c, e)}
    BY DEF Joined, If
  <1>4. RowShot(c, r).row # EventShot(c, e).row
    BY DEF RowShot, EventShot, RowsOK
  <1>5. PICK q \in match.rows : RowShot(c, r) = RowShot(c, q)
    BY <1>2, <1>3, <1>4
  <1>6. match.rows \subseteq rows /\ One(match.rows)
    BY <1>5, AttachesOne
  <1>7. q = r
    BY <1>5, <1>6 DEF RowShot, RowsOK
  <1> QED
    BY <1>5, <1>6, <1>7 DEF One
-----------------------------------------------------------------------------
(* Rows and events of a build.                                              *)

\* The current exports are the scene's rows, marked.
Marked(r, rows) ==
    [r EXCEPT !.newer = r.newer \/ (~r.active /\ \E q \in rows : SameShot(r, q) /\ q.active)]
ExportedOf(c) == {r \in exports : r.campaign = c}

LEMMA ExportIsMarked ==
    ASSUME TypeInv, NEW c
    PROVE  /\ ExportOf(c, exports) = {Marked(r, ExportedOf(c)) : r \in ExportedOf(c)}
           /\ \A r \in ExportedOf(c) : LET m == Marked(r, ExportedOf(c)) IN
                /\ m.record = r.record /\ m.campaign = c /\ m.time \in Int /\ m.newer \in BOOLEAN
                /\ m = [record |-> m.record, number |-> m.number, authority |-> m.authority,
                        day |-> m.day, time |-> m.time, eventId |-> m.eventId,
                        position |-> m.position, campaign |-> m.campaign,
                        active |-> m.active, newer |-> m.newer]
  <1>1. ExportOf(c, exports) = {Marked(r, ExportedOf(c)) : r \in ExportedOf(c)}
    BY DEF ExportOf, MarkSuperseded, Marked, ExportedOf
  <1>2. ASSUME NEW r \in ExportedOf(c), NEW m, m = Marked(r, ExportedOf(c))
        PROVE  /\ m.record = r.record /\ m.campaign = c /\ m.time \in Int /\ m.newer \in BOOLEAN
               /\ m = [record |-> m.record, number |-> m.number, authority |-> m.authority,
                       day |-> m.day, time |-> m.time, eventId |-> m.eventId,
                       position |-> m.position, campaign |-> m.campaign,
                       active |-> m.active, newer |-> m.newer]
    <2>1. r \in scene.rows /\ r.campaign = c /\ scene \in Scenes
      BY DEF ExportedOf, TypeInv
    <2>2. r \in [record : {r.record}, number : Int, authority : Int, day : Int, time : Int,
                 eventId : {r.eventId}, position : Int, campaign : Campaigns,
                 active : BOOLEAN, newer : BOOLEAN]
      BY <2>1, RowsAreRecords
    <2>3. PICK b \in BOOLEAN : m = [r EXCEPT !.newer = b]
      BY <1>2 DEF Marked
    <2> QED
      BY <2>1, <2>2, <2>3
  <1> QED
    BY <1>1, <1>2

LEMMA ExportsOK ==
    ASSUME TypeInv, NEW A
    PROVE  RowsOK(UNION {ExportOf(c, exports) : c \in A})
  <1>1. ASSUME NEW r \in UNION {ExportOf(c, exports) : c \in A}
        PROVE  \E s \in exports : s.campaign \in A /\ s.record = r.record
                                  /\ r = Marked(s, ExportedOf(s.campaign))
    <2>1. PICK c \in A : r \in ExportOf(c, exports)
      BY <1>1
    <2>2. PICK s \in ExportedOf(c) : r = Marked(s, ExportedOf(c))
      BY <2>1, ExportIsMarked
    <2>3. s.campaign = c /\ s \in exports /\ r.record = s.record
      BY <2>2, ExportIsMarked DEF ExportedOf
    <2> QED
      BY <2>2, <2>3
  <1>2. ASSUME NEW r \in UNION {ExportOf(c, exports) : c \in A},
               NEW q \in UNION {ExportOf(c, exports) : c \in A}, r.record = q.record
        PROVE  r = q
    <2>1. PICK s \in exports : s.record = r.record /\ r = Marked(s, ExportedOf(s.campaign))
      BY <1>1
    <2>2. PICK t \in exports : t.record = q.record /\ q = Marked(t, ExportedOf(t.campaign))
      BY <1>1
    <2>3. s = t
      BY <1>2, <2>1, <2>2, RowsAreRecords DEF TypeInv
    <2> QED
      BY <2>1, <2>2, <2>3
  <1>3. ASSUME NEW r \in UNION {ExportOf(c, exports) : c \in A}
        PROVE  r.record # "-" /\ r.time \in Int /\ r.newer \in BOOLEAN /\
               r = [record |-> r.record, number |-> r.number, authority |-> r.authority,
                    day |-> r.day, time |-> r.time, eventId |-> r.eventId,
                    position |-> r.position, campaign |-> r.campaign, active |-> r.active,
                    newer |-> r.newer]
    <2>1. PICK s \in exports : s.record = r.record /\ r = Marked(s, ExportedOf(s.campaign))
      BY <1>1
    <2>2. s \in ExportedOf(s.campaign) /\ s.record # "-"
      BY <2>1, RowsAreRecords DEF ExportedOf, TypeInv
    <2> QED
      BY <2>1, <2>2, ExportIsMarked
  <1> QED
    BY <1>2, <1>3 DEF RowsOK

LEMMA FewerRowsOK ==
    ASSUME NEW rows, RowsOK(rows), NEW few \in SUBSET rows
    PROVE  RowsOK(few)
  BY DEF RowsOK

LEMMA RowsOfOK ==
    ASSUME TypeInv, NEW c
    PROVE  RowsOK(RowsOf(c))
  <1>1. RowsOK({})
    BY DEF RowsOK
  <1>2. RowsOK({r \in run.exports : r.campaign = c})
    BY FewerRowsOK DEF TypeInv
  <1>3. RowsOK(ExportOf(c, exports))
    <2>1. UNION {ExportOf(d, exports) : d \in {c}} = ExportOf(c, exports)
      OBVIOUS
    <2>2. RowsOK(UNION {ExportOf(d, exports) : d \in {c}})
      BY ExportsOK
    <2> QED
      BY <2>1, <2>2
  <1> QED
    BY <1>1, <1>2, <1>3 DEF RowsOf

\* What a build takes was spooled, and its run routes it to the campaign.
LEMMA TakenAreRouted ==
    ASSUME NEW c, NEW e \in Taken(c)
    PROVE  CampaignOf(e) = c /\ \E x \in spool : x.event = e
  BY DEF Taken, Deduplicated

LEMMA TakesACopy ==
    ASSUME NEW c, NEW x \in spool, CampaignOf(x.event) = c,
           x.event.campaign = Unassigned \/ (x.event.campaign = c /\ c \in run.spooled)
    PROVE  \E e \in Taken(c) : e.id = x.event.id
  <1> DEFINE mine == {y \in spool : /\ \/ y.event.campaign = Unassigned
                                       \/ y.event.campaign = c /\ c \in run.spooled
                                    /\ CampaignOf(y.event) = c}
             copies == {[rank |-> RankOf(y.file, y.event), event |-> y.event] : y \in mine}
             copy == [rank |-> RankOf(x.file, x.event), event |-> x.event]
  <1>1. copy \in copies /\ copy.event = x.event
    OBVIOUS
  <1>2. \A z \in copies : z.rank \in 0..3
    BY DEF RankOf
  <1>3. Taken(c) = Deduplicated(copies)
    BY DEF Taken
  <1> HIDE DEF copies, copy
  <1> QED
    BY <1>1, <1>2, <1>3, OneCopyIsKept
-----------------------------------------------------------------------------
(* Types.                                                                   *)

LEMMA TypeInit == Init => TypeInv
  BY DEF Init, TypeInv, NoRun, RowsOK

LEMMA SceneStays == [Next]_vars => scene' = scene
  BY DEF Next, Arrive, Work, BeginLine, Spool, Export, Rule, StartRun, RunDies,
         BuildCampaign, EndRun, CampaignFails, vars

LEMMA TypeStep == TypeInv /\ [Next]_vars => TypeInv'
  <1> SUFFICES ASSUME TypeInv, [Next]_vars PROVE TypeInv'
    OBVIOUS
  <1>0. scene' = scene
    BY SceneStays
  <1>s. scene \in Scenes /\ scene.failures \in Nat
    BY BuildsConstants DEF TypeInv
  <1>r. ASSUME run' = run PROVE RowsOK(run'.exports)
    BY <1>r DEF TypeInv
  <1>1. ASSUME NEW x \in scene.events, BeginLine(x) \/ Spool(x) PROVE TypeInv'
    <2>1. spool' \in {spool, spool \cup {x}} /\ exports' = exports /\ run' = run
          /\ runs' = runs /\ failures' = failures
      BY <1>1 DEF BeginLine, Spool
    <2> QED
      BY <1>0, <1>1, <2>1 DEF TypeInv
  <1>2. ASSUME NEW r \in scene.rows, Export(r) PROVE TypeInv'
    BY <1>0, <1>2 DEF Export, TypeInv
  <1>3. ASSUME NEW ruling \in scene.rulings, Rule(ruling) PROVE TypeInv'
    BY <1>0, <1>3 DEF Rule, TypeInv
  <1>4. CASE StartRun
    <2> DEFINE active == scene.configured \cup Spooled
               records == UNION {ExportOf(c, exports) : c \in active}
    <2>1. RowsOK(records)
      BY ExportsOK
    <2>2. PICK winning, todo :
             run' = [at |-> "building", spooled |-> Spooled, active |-> active, exports |-> records,
                     rulings |-> winning, todo |-> todo, failed |-> {}]
      BY <1>4 DEF StartRun
    <2>3. runs' = runs + 1 /\ spool' = spool /\ exports' = exports /\ failures' = failures
      BY <1>4 DEF StartRun, inputs
    <2>4. run'.at = "building" /\ run'.exports = records
          /\ run' = [at |-> run'.at, spooled |-> run'.spooled, active |-> run'.active,
                     exports |-> run'.exports, rulings |-> run'.rulings, todo |-> run'.todo,
                     failed |-> run'.failed]
      <3> HIDE DEF records, active
      <3> QED
        BY <2>2
    <2> HIDE DEF records, active
    <2> QED
      BY <1>0, <2>1, <2>3, <2>4 DEF TypeInv
  <1>5. CASE RunDies
    <2>1. PICK failed : run' = [NoRun EXCEPT !.failed = failed]
      BY <1>5 DEF RunDies
    <2>2. run' = [at |-> "none", spooled |-> {}, active |-> {}, exports |-> {}, rulings |-> <<>>,
                  todo |-> {}, failed |-> failed]
      BY <2>1 DEF NoRun
    <2>3. RowsOK({})
      BY DEF RowsOK
    <2>4. /\ runs' = runs + 1 /\ spool' = spool /\ exports' = exports
          /\ failures' = failures \/ (failures < scene.failures /\ failures' = failures + 1)
      BY <1>5 DEF RunDies, inputs
    <2> QED
      BY <1>0, <1>s, <2>2, <2>3, <2>4 DEF TypeInv
  <1>6. ASSUME NEW c \in Campaigns \cup {Bucket}, BuildCampaign(c) PROVE TypeInv'
    <2>1. /\ run' = [run EXCEPT !.todo = @ \ {c}] /\ run.at = "building"
          /\ runs' = runs /\ spool' = spool /\ exports' = exports /\ failures' = failures
      BY <1>6 DEF BuildCampaign, inputs
    <2> QED
      BY <1>0, <2>1 DEF TypeInv
  <1>7. CASE EndRun
    BY <1>0, <1>7 DEF EndRun, TypeInv, NoRun, inputs, RowsOK
  <1>8. ASSUME NEW c \in Campaigns \cup {Bucket}, CampaignFails(c) PROVE TypeInv'
    <2>1. /\ run' = [run EXCEPT !.todo = @ \ {c}, !.failed = @ \cup {c}] /\ run.at = "building"
          /\ runs' = runs /\ spool' = spool /\ exports' = exports
          /\ failures' \in {failures, failures + 1}
      BY <1>8 DEF CampaignFails, inputs
    <2>2. /\ run' = [at |-> run'.at, spooled |-> run'.spooled, active |-> run'.active,
                     exports |-> run'.exports, rulings |-> run'.rulings, todo |-> run'.todo,
                     failed |-> run'.failed]
          /\ run'.at = run.at /\ run'.exports = run.exports
      BY <2>1 DEF TypeInv
    <2>3. failures' \in Nat
      BY <2>1 DEF TypeInv
    <2> QED
      BY <1>0, <2>1, <2>2, <2>3 DEF TypeInv
  <1>9. CASE UNCHANGED vars
    BY <1>9 DEF TypeInv, vars, inputs
  <1> QED
    BY <1>1, <1>2, <1>3, <1>4, <1>5, <1>6, <1>7, <1>8, <1>9 DEF Next, Arrive, Work
-----------------------------------------------------------------------------
(* The entries of the catalog.                                              *)

LEMMA EntriesInit == Init => EntriesHonest
  BY DEF Init, EntriesHonest

\* Only a build changes an entry, its campaign's; the others of the run start
\* and end it.
LEMMA CatalogMoves ==
    ASSUME [Next]_vars
    PROVE  \/ catalog' = catalog /\ runs' \in {runs, runs + 1}
           \/ \E c \in Campaigns \cup {Bucket} : BuildCampaign(c)
  BY DEF Next, Arrive, Work, BeginLine, Spool, Export, Rule, StartRun, RunDies,
         EndRun, CampaignFails, vars

\* What a build puts in its campaign's place.
LEMMA NewEntry ==
    ASSUME NEW c, BuildCampaign(c)
    PROVE  /\ DOMAIN catalog' = DOMAIN catalog \cup {c} /\ runs' = runs
           /\ \A d \in DOMAIN catalog : d # c => catalog'[d] = catalog[d]
           /\ catalog'[c].run = runs /\ catalog'[c].rows = RowsOf(c)
           /\ catalog'[c].result = Reconcile(Taken(c), RowsOf(c), c, scene.autoassign)
           /\ DOMAIN catalog'[c].result.verdicts = Taken(c)
  <1>1. catalog' = [d \in DOMAIN catalog \cup {c} |->
                      IF d = c THEN [run |-> runs, rows |-> RowsOf(c),
                                     result |-> Reconcile(Taken(c), RowsOf(c), c, scene.autoassign)]
                      ELSE catalog[d]]
    BY DEF BuildCampaign
  <1>2. runs' = runs
    BY DEF BuildCampaign
  <1>3. /\ DOMAIN catalog' = DOMAIN catalog \cup {c}
        /\ \A d \in DOMAIN catalog : d # c => catalog'[d] = catalog[d]
        /\ catalog'[c].run = runs /\ catalog'[c].rows = RowsOf(c)
        /\ catalog'[c].result = Reconcile(Taken(c), RowsOf(c), c, scene.autoassign)
    BY <1>1
  <1>4. DOMAIN catalog'[c].result.verdicts = Taken(c)
    BY <1>3, VerdictOf
  <1> QED
    BY <1>2, <1>3, <1>4

LEMMA EntriesStep == TypeInv /\ EntriesHonest /\ [Next]_vars => EntriesHonest'
  <1> SUFFICES ASSUME TypeInv, EntriesHonest, [Next]_vars PROVE EntriesHonest'
    OBVIOUS
  <1>0. scene' = scene /\ runs \in Nat
    BY SceneStays DEF TypeInv
  <1>1. CASE catalog' = catalog /\ runs' \in {runs, runs + 1}
    <2>1. ASSUME NEW d \in DOMAIN catalog PROVE Honest(d)'
      <3>1. Honest(d)
        BY DEF EntriesHonest
      <3>2. 0..runs \subseteq 0..runs'
        BY <1>0, <1>1
      <3> QED
        BY <1>0, <1>1, <3>1, <3>2 DEF Honest
    <2> QED
      BY <1>1, <2>1 DEF EntriesHonest
  <1>2. ASSUME NEW c \in Campaigns \cup {Bucket}, BuildCampaign(c) PROVE EntriesHonest'
    <2>1. ASSUME NEW d \in DOMAIN catalog, d # c PROVE Honest(d)'
      <3>1. Honest(d) /\ catalog'[d] = catalog[d] /\ runs' = runs
        BY <1>2, <2>1, NewEntry DEF EntriesHonest
      <3> QED
        BY <1>0, <3>1 DEF Honest
    <2>2. Honest(c)'
      <3>1. /\ runs' = runs /\ catalog'[c].run = runs /\ catalog'[c].rows = RowsOf(c)
            /\ catalog'[c].result = Reconcile(Taken(c), RowsOf(c), c, scene.autoassign)
            /\ DOMAIN catalog'[c].result.verdicts = Taken(c)
        BY <1>2, NewEntry
      <3>2. RowsOK(RowsOf(c))
        BY RowsOfOK
      <3>3. Taken(c) \subseteq Sources(scene.events)
        BY TakenAreRouted DEF TypeInv, Sources
      <3>4. runs \in 0..runs
        BY <1>0
      <3> QED
        BY <1>0, <3>1, <3>2, <3>3, <3>4 DEF Honest
    <2>3. DOMAIN catalog' = DOMAIN catalog \cup {c}
      BY <1>2, NewEntry
    <2> QED
      BY <2>1, <2>2, <2>3 DEF EntriesHonest
  <1> QED
    BY <1>1, <1>2, CatalogMoves
-----------------------------------------------------------------------------
(* RoutedOnce.                                                              *)

Routed == TypeInv /\ EntriesHonest /\ RoutedByTheRun /\ RoutedOnce

LEMMA RoutedInit == Init => Routed
  BY TypeInit, EntriesInit DEF Init, Routed, RoutedByTheRun, RoutedOnce, NoRun, Rebuilt

\* A step that leaves the run's inputs and the entries alone.
LEMMA RoutedStays ==
    ASSUME RoutedByTheRun, RoutedOnce, scene' = scene, catalog' = catalog, runs' = runs,
           run'.at = "building" => /\ run.at = "building"
                                   /\ run'.exports = run.exports /\ run'.rulings = run.rulings
    PROVE  RoutedByTheRun' /\ RoutedOnce'
  <1>1. Rebuilt' = Rebuilt /\ \A c : Events(c)' = Events(c)
    BY DEF Rebuilt, Events
  <1>2. run'.at = "building" => \A e : CampaignOf(e)' = CampaignOf(e)
    BY DEF CampaignOf
  <1> QED
    BY <1>1, <1>2 DEF RoutedByTheRun, RoutedOnce

LEMMA RoutedStep == Routed /\ [Next]_vars => Routed'
  <1> SUFFICES ASSUME Routed, [Next]_vars PROVE RoutedByTheRun' /\ RoutedOnce'
    BY TypeStep, EntriesStep DEF Routed
  <1>0. scene' = scene /\ RoutedByTheRun /\ RoutedOnce /\ TypeInv /\ EntriesHonest
    BY SceneStays DEF Routed
  \* No entry is of a run that has just begun.
  <1>f. ASSUME catalog' = catalog, runs' = runs + 1 PROVE RoutedByTheRun' /\ RoutedOnce'
    <2>1. \A c \in DOMAIN catalog : catalog[c].run \in 0..runs
      BY <1>0 DEF EntriesHonest, Honest
    <2>2. runs \in Nat
      BY <1>0 DEF TypeInv
    <2>3. Rebuilt' = {}
      BY <1>f, <2>1, <2>2 DEF Rebuilt
    <2> QED
      BY <2>3 DEF RoutedByTheRun, RoutedOnce
  <1>1. ASSUME NEW x \in scene.events, BeginLine(x) \/ Spool(x)
        PROVE  RoutedByTheRun' /\ RoutedOnce'
    BY <1>0, <1>1, RoutedStays DEF BeginLine, Spool
  <1>2. ASSUME NEW r \in scene.rows, Export(r) PROVE RoutedByTheRun' /\ RoutedOnce'
    BY <1>0, <1>2, RoutedStays DEF Export
  <1>3. ASSUME NEW ruling \in scene.rulings, Rule(ruling) PROVE RoutedByTheRun' /\ RoutedOnce'
    BY <1>0, <1>3, RoutedStays DEF Rule
  <1>4. CASE StartRun
    BY <1>4, <1>f DEF StartRun
  <1>5. CASE RunDies
    BY <1>5, <1>f DEF RunDies
  <1>6. ASSUME NEW c \in Campaigns \cup {Bucket}, BuildCampaign(c)
        PROVE  RoutedByTheRun' /\ RoutedOnce'
    <2>1. /\ DOMAIN catalog' = DOMAIN catalog \cup {c} /\ runs' = runs
          /\ \A d \in DOMAIN catalog : d # c => catalog'[d] = catalog[d]
          /\ catalog'[c].run = runs /\ DOMAIN catalog'[c].result.verdicts = Taken(c)
      BY <1>6, NewEntry
    <2>2. run.at = "building" /\ run'.exports = run.exports /\ run'.rulings = run.rulings
      BY <1>0, <1>6 DEF BuildCampaign, TypeInv
    <2>3. \A e : CampaignOf(e)' = CampaignOf(e)
      BY <1>0, <2>2 DEF CampaignOf
    <2>4. \A d \in Rebuilt' : d # c => /\ d \in Rebuilt /\ d \in DOMAIN catalog
                                       /\ catalog'[d] = catalog[d] /\ Events(d)' = Events(d)
      BY <2>1 DEF Rebuilt, Events
    <2>5. ASSUME NEW d \in Rebuilt', NEW e \in DOMAIN catalog'[d].result.verdicts
          PROVE  CampaignOf(e) = d /\ e \in Sources(scene.events)
      <3>1. CASE d = c
        BY <1>0, <2>1, <2>5, <3>1, TakenAreRouted DEF TypeInv, Sources
      <3>2. CASE d # c
        <4>1. d \in Rebuilt /\ e \in DOMAIN catalog[d].result.verdicts /\ d \in DOMAIN catalog
          BY <2>4, <2>5, <3>2
        <4> QED
          BY <1>0, <2>2, <4>1 DEF RoutedByTheRun, EntriesHonest, Honest
      <3> QED
        BY <3>1, <3>2
    <2>6. RoutedByTheRun'
      BY <2>3, <2>5 DEF RoutedByTheRun
    <2>7. ASSUME NEW a \in Rebuilt', NEW b \in Rebuilt', NEW id \in Events(a)' \cap Events(b)'
          PROVE  a = b
      <3>1. PICK e \in DOMAIN catalog'[a].result.verdicts : e.id = id
        BY <2>7 DEF Events
      <3>2. PICK f \in DOMAIN catalog'[b].result.verdicts : f.id = id
        BY <2>7 DEF Events
      <3>3. SameEnvelope(e, f)
        BY <1>0, <2>5, <3>1, <3>2, EventsAgree DEF Sources, TypeInv
      <3>4. CampaignOf(e) = CampaignOf(f)
        BY <3>3, CopiesResolveAlike DEF CampaignOf
      <3> QED
        BY <2>5, <3>4
    <2>8. RoutedOnce'
      BY <2>7 DEF RoutedOnce
    <2> QED
      BY <2>6, <2>8
  <1>7. CASE EndRun
    BY <1>0, <1>7, RoutedStays DEF EndRun, NoRun
  <1>8. ASSUME NEW c \in Campaigns \cup {Bucket}, CampaignFails(c)
        PROVE  RoutedByTheRun' /\ RoutedOnce'
    <2>1. /\ run' = [run EXCEPT !.todo = @ \ {c}, !.failed = @ \cup {c}] /\ run.at = "building"
          /\ runs' = runs /\ catalog' = catalog
      BY <1>8 DEF CampaignFails
    <2>2. run'.exports = run.exports /\ run'.rulings = run.rulings
      BY <1>0, <2>1 DEF TypeInv
    <2> QED
      BY <1>0, <2>1, <2>2, RoutedStays
  <1>9. CASE UNCHANGED vars
    BY <1>0, <1>9, RoutedStays DEF vars
  <1> QED
    BY <1>1, <1>2, <1>3, <1>4, <1>5, <1>6, <1>7, <1>8, <1>9 DEF Next, Arrive, Work

LEMMA RoutedAlways == Spec => []Routed
  BY RoutedInit, RoutedStep, PTL DEF Spec

\* Within one run no event goes to two campaigns, whatever arrives, is ruled or
\* exported while it runs, and whichever builds fail (build_all).
THEOREM EachEventOnce == Spec => []RoutedOnce
  <1>1. Routed => RoutedOnce
    BY DEF Routed
  <1> QED
    BY <1>1, RoutedAlways, PTL

\* In every entry, what attaches without auto-assignment is named by an identity
\* (ruling A7).
THEOREM OnlyIdentitiesAttach == Spec => []AttachedByIdentity
  <1>1. ASSUME EntriesHonest PROVE AttachedByIdentity
    <2> SUFFICES ASSUME ~scene.autoassign, NEW c \in DOMAIN catalog,
                        NEW e \in DOMAIN catalog[c].result.verdicts,
                        catalog[c].result.verdicts[e].quality # "event_identity"
                 PROVE  LET rows == catalog[c].rows
                        IN catalog[c].result.verdicts[e].shots =
                             {RowShot(c, r) : r \in If(One(Named(e, rows)), Named(e, rows))}
      BY DEF AttachedByIdentity
    <2> DEFINE rows == catalog[c].rows
               E == DOMAIN catalog[c].result.verdicts
               auto == scene.autoassign
               matches == Matches(E, rows, auto)
               joined == Joined(e, matches[e], FoundedShots({f \in E : matches[f].rows = {}}, rows, c), c)
               verdict == catalog[c].result.verdicts[e]
    <2>1. verdict = Verdict(matches[e], joined, c)
      <3>1. catalog[c].result = Reconcile(E, rows, c, auto)
        BY <1>1 DEF EntriesHonest, Honest
      <3> QED
        BY <3>1, VerdictOf
    <2>2. verdict.shots = {RowShot(c, r) : r \in matches[e].rows}
      <3> HIDE DEF joined
      <3>1. joined = {}
        BY <2>1 DEF Verdict
      <3> QED
        BY <2>1, <3>1 DEF Verdict
    <2>3. matches[e].rows = If(One(Named(e, rows)), Named(e, rows))
      <3>1. CASE rows = {}
        <4>1. matches[e].rows = {}
          BY <3>1 DEF Matches, NoMatch
        <4>2. Named(e, {}) = {}
          BY DEF Named, Current, ById, ByPosition, ByNumber, ByDay, Several, One
        <4> QED
          BY <3>1, <4>1, <4>2 DEF If
      <3>2. CASE rows # {}
        <4>1. matches[e] = MatchOrOffer(e, rows, auto)
          BY <3>2 DEF Matches
        <4>2. MatchOrOffer(e, rows, auto).rows = MatchOrOffer(e, rows, FALSE).rows
          BY DEF MatchOrOffer, Offer, Match
        <4> QED
          BY <4>1, <4>2, NamedAttaches
      <3> QED
        BY <3>1, <3>2
    <2> QED
      BY <2>2, <2>3
  <1> QED
    BY <1>1, RoutedAlways, PTL DEF Routed

\* An attached event keeps its row from build to build, in either mode, while the
\* row names it and no new row does.
THEOREM AttachmentsAlwaysStay == Spec => AttachmentsStay
  <1>1. ASSUME TypeInv, EntriesHonest, EntriesHonest', [Next]_vars, NEW c \in DOMAIN catalog,
               NEW e \in DOMAIN catalog[c].result.verdicts \cap DOMAIN catalog'[c].result.verdicts,
               NEW r \in catalog[c].rows \cap catalog'[c].rows,
               RowShot(c, r) \in catalog[c].result.verdicts[e].shots, Names(r, e), ~r.newer,
               ~\E s \in catalog'[c].rows \ catalog[c].rows : Names(s, e)
        PROVE  RowShot(c, r) \in catalog'[c].result.verdicts[e].shots
    <2>0. scene' = scene /\ c \in DOMAIN catalog'
      <3>1. CASE catalog' = catalog
        BY <1>1, <3>1, SceneStays
      <3>2. ASSUME NEW d \in Campaigns \cup {Bucket}, BuildCampaign(d) PROVE c \in DOMAIN catalog'
        BY <3>2, NewEntry
      <3> QED
        BY <1>1, <3>1, <3>2, SceneStays, CatalogMoves
    <2> DEFINE old == catalog[c].rows
               new == catalog'[c].rows
               before == DOMAIN catalog[c].result.verdicts
               after == DOMAIN catalog'[c].result.verdicts
               auto == scene.autoassign
    <2>1. /\ catalog[c].result = Reconcile(before, old, c, auto)
          /\ RowsOK(old) /\ before \subseteq Sources(scene.events)
      BY <1>1 DEF EntriesHonest, Honest
    <2>2. catalog'[c].result = Reconcile(after, new, c, auto) /\ RowsOK(new)
      BY <1>1, <2>0 DEF EntriesHonest, Honest
    <2>3. e.time \in Int /\ auto \in BOOLEAN
      BY <1>1, <2>1, EventsAgree, BuildsConstants DEF TypeInv, Sources
    <2>4. Unrivalled(r, e, old, new)
      BY <1>1, <2>1, <2>2, <2>3 DEF Unrivalled, RowsOK
    <2>5. MatchOrOffer(e, old, auto).rows = {r}
      <3>1. RowShot(c, r) \in Reconcile(before, old, c, auto).verdicts[e].shots
        BY <1>1, <2>1
      <3>2. e \in before /\ r \in old /\ RowsOK(old)
        BY <1>1, <2>1
      <3> HIDE DEF before, old, auto
      <3> QED
        BY <3>1, <3>2, RowShotIsMatch
    <2>6. MatchOrOffer(e, new, auto).rows = {r}
      BY <1>1, <2>3, <2>4, <2>5, MatchStays
    <2>7. Matches(after, new, auto)[e] = MatchOrOffer(e, new, auto)
      BY <1>1 DEF Matches
    <2>8. PICK joined : catalog'[c].result.verdicts[e] = Verdict(Matches(after, new, auto)[e], joined, c)
      <3>1. e \in after
        BY <1>1
      <3> HIDE DEF auto, after, new
      <3>2. \E joined : Reconcile(after, new, c, auto).verdicts[e] =
                          Verdict(Matches(after, new, auto)[e], joined, c)
        <4> DEFINE joined == Joined(e, Matches(after, new, auto)[e],
                                    FoundedShots({f \in after : Matches(after, new, auto)[f].rows = {}},
                                                 new, c), c)
        <4>1. Reconcile(after, new, c, auto).verdicts[e] = Verdict(Matches(after, new, auto)[e], joined, c)
          BY <3>1, VerdictOf
        <4> QED
          BY <4>1
      <3> QED
        BY <2>2, <3>2
    <2> HIDE DEF auto, after, new
    <2> QED
      BY <2>6, <2>7, <2>8 DEF Verdict
  <1>2. Routed /\ Routed' /\ [Next]_vars =>
          \A c \in DOMAIN catalog :
             LET old == catalog[c]
                 new == catalog'[c]
             IN \A e \in DOMAIN old.result.verdicts \cap DOMAIN new.result.verdicts :
                \A r \in old.rows \cap new.rows :
                  (/\ RowShot(c, r) \in old.result.verdicts[e].shots
                   /\ Names(r, e) /\ ~r.newer
                   /\ ~\E s \in new.rows \ old.rows : Names(s, e))
                  => RowShot(c, r) \in new.result.verdicts[e].shots
    BY <1>1 DEF Routed
  <1> QED
    BY <1>2, RoutedAlways, PTL DEF AttachmentsStay, Spec
-----------------------------------------------------------------------------
(* NothingDropped.                                                          *)

Kept == TypeInv /\ EntriesHonest /\ Covered /\ FailedForALine

LEMMA KeptInit == Init => Kept
  BY TypeInit, EntriesInit DEF Init, Kept, Covered, UpToDate, FailedForALine, NoRun

LEMMA FailedStep == TypeInv /\ FailedForALine /\ [Next]_vars => FailedForALine'
  <1> SUFFICES ASSUME TypeInv, FailedForALine, [Next]_vars PROVE FailedForALine'
    OBVIOUS
  <1>1. ASSUME NEW x \in scene.events, BeginLine(x) PROVE FailedForALine'
    BY <1>1 DEF BeginLine, FailedForALine
  <1>2. ASSUME asked' PROVE FailedForALine'
    BY <1>2 DEF FailedForALine
  <1>3. CASE StartRun
    BY <1>3 DEF StartRun, FailedForALine
  <1>4. CASE RunDies
    <2>1. CASE failures' = failures + 1
      BY <2>1 DEF TypeInv, FailedForALine
    <2>2. CASE ~Readable(Unassigned)
      BY <1>4, <2>2 DEF RunDies, FailedForALine, Readable, inputs
    <2> QED
      BY <1>4, <2>1, <2>2 DEF RunDies
  <1>5. ASSUME NEW c \in Campaigns \cup {Bucket}, BuildCampaign(c) PROVE FailedForALine'
    <2>1. run'.failed = run.failed
      BY <1>5 DEF BuildCampaign, TypeInv
    <2> QED
      BY <1>5, <2>1 DEF BuildCampaign, FailedForALine, inputs
  <1>6. CASE EndRun
    <2>1. run'.failed = run.failed
      BY <1>6 DEF EndRun, NoRun
    <2> QED
      BY <1>6, <2>1 DEF EndRun, FailedForALine, inputs
  <1>7. ASSUME NEW c \in Campaigns \cup {Bucket}, CampaignFails(c) PROVE FailedForALine'
    <2>1. CASE failures' = failures + 1
      BY <2>1 DEF TypeInv, FailedForALine
    <2>2. CASE ~Readable(Unassigned) \/ ~Readable(c)
      BY <1>7, <2>2 DEF CampaignFails, Readable, FailedForALine, inputs
    <2> QED
      BY <1>7, <2>1, <2>2 DEF CampaignFails
  <1>8. CASE UNCHANGED vars
    BY <1>8 DEF vars, inputs, FailedForALine
  <1> QED
    BY <1>1, <1>2, <1>3, <1>4, <1>5, <1>6, <1>7, <1>8
       DEF Next, Arrive, Work, Spool, Export, Rule

\* Where an event with a campaign of its own goes.
LEMMA OwnCampaign ==
    ASSUME NEW e, e.campaign # Unassigned, NEW rows, NEW windows, NEW rulings_
    PROVE  Resolve(e, rows, windows, rulings_) = e.campaign
  BY DEF Resolve

\* What Covered asks of one copy.
Placed(x) ==
    LET c == CampaignNow(x.event)
    IN c \in run.todo \/ (c \in Rebuilt /\ x.event.id \in Events(c))

\* What CampaignNow and Placed speak of, but for the entries, stays.
LEMMA NowStays ==
    ASSUME scene' = scene, spool' = spool, exports' = exports, rulings' = rulings
    PROVE  /\ Spooled' = Spooled /\ RecordsNow' = RecordsNow
           /\ \A e : CampaignNow(e)' = CampaignNow(e)
  BY DEF Spooled, RecordsNow, ActiveNow, CampaignNow

LEMMA CoveredStays ==
    ASSUME Covered, scene' = scene, spool' = spool, exports' = exports, rulings' = rulings,
           asked' = asked, runs' = runs, catalog' = catalog, run' = run
    PROVE  Covered'
  <1>1. Rebuilt' = Rebuilt /\ \A c : Events(c)' = Events(c)
    BY DEF Rebuilt, Events
  <1>2. UpToDate' = UpToDate /\ InTime' = InTime
    BY NowStays DEF UpToDate, InTime
  <1> QED
    BY <1>1, <1>2, NowStays DEF Covered

\* A run lists the campaign of every event there is when it begins.
LEMMA AllAreListed ==
    ASSUME StartRun
    PROVE  run'.at = "building" /\ InTime' /\ \A x \in spool : Placed(x)'
  <1> DEFINE active == ActiveNow
             records == RecordsNow
             winning == Winning(rulings)
             resolved == {Resolve(x.event, records, Windows(scene.schedule), winning) : x \in Shared}
  <1>1. /\ run' = [at |-> "building", spooled |-> Spooled, active |-> active, exports |-> records,
                   rulings |-> winning, todo |-> active \cup resolved \cup {Bucket},
                   failed |-> {}]
        /\ scene' = scene /\ spool' = spool /\ exports' = exports /\ rulings' = rulings
    BY DEF StartRun, inputs, ActiveNow, RecordsNow
  <1>2. /\ run'.at = "building" /\ run'.spooled = Spooled /\ run'.exports = records
        /\ run'.rulings = winning /\ run'.todo = active \cup resolved \cup {Bucket}
    <2> HIDE DEF active, records, winning, resolved
    <2> QED
      BY <1>1
  <1>3. InTime'
    BY <1>1, <1>2, NowStays DEF InTime
  <1>4. ASSUME NEW x \in spool PROVE CampaignNow(x.event)' \in run'.todo
    <2>1. CampaignNow(x.event)' = CampaignNow(x.event)
      BY <1>1, NowStays
    <2>2. CASE x.event.campaign = Unassigned
      BY <1>2, <2>1, <2>2 DEF CampaignNow, Shared
    <2>3. CASE x.event.campaign # Unassigned
      <3>1. CampaignNow(x.event) = x.event.campaign
        BY <2>3, OwnCampaign DEF CampaignNow
      <3>2. x.event.campaign \in Spooled
        BY <2>3 DEF Spooled
      <3> QED
        BY <1>2, <2>1, <3>1, <3>2 DEF ActiveNow
    <2> QED
      BY <2>2, <2>3
  <1> QED
    BY <1>2, <1>3, <1>4 DEF Placed

\* A build that has all there is finds the events of its campaign.
LEMMA BuildPlaces ==
    ASSUME TypeInv, InTime, NEW c, BuildCampaign(c), NEW x \in spool, Placed(x)
    PROVE  Placed(x)'
  <1>1. /\ scene' = scene /\ spool' = spool /\ exports' = exports /\ rulings' = rulings
        /\ run'.todo = run.todo \ {c}
    BY DEF BuildCampaign, inputs, TypeInv
  <1>2. CampaignNow(x.event)' = CampaignNow(x.event)
    BY <1>1, NowStays
  <1>3. CASE CampaignNow(x.event) = c
    <2>1. CampaignOf(x.event) = c
      BY <1>3 DEF InTime, CampaignNow, CampaignOf
    <2>2. x.event.campaign # Unassigned => x.event.campaign = c /\ c \in run.spooled
      BY <1>3, OwnCampaign DEF CampaignNow, InTime, Spooled
    <2>3. PICK e \in Taken(c) : e.id = x.event.id
      BY <2>1, <2>2, TakesACopy
    <2>4. c \in Rebuilt' /\ e.id \in Events(c)'
      BY <2>3, NewEntry DEF Rebuilt, Events
    <2> QED
      BY <1>2, <1>3, <2>3, <2>4 DEF Placed
  <1>4. CASE CampaignNow(x.event) # c
    <2>0. PICK d : d = CampaignNow(x.event) /\ d # c
      BY <1>4
    <2>1. d \in run.todo => d \in run'.todo
      BY <1>1, <2>0
    <2>2. d \in Rebuilt => d \in Rebuilt' /\ Events(d)' = Events(d)
      <3>1. /\ DOMAIN catalog' = DOMAIN catalog \cup {c} /\ runs' = runs
            /\ \A b \in DOMAIN catalog : b # c => catalog'[b] = catalog[b]
        BY NewEntry
      <3> SUFFICES ASSUME d \in Rebuilt PROVE d \in Rebuilt' /\ Events(d)' = Events(d)
        OBVIOUS
      <3>3. catalog'[d] = catalog[d] /\ d \in DOMAIN catalog'
        BY <2>0, <3>1 DEF Rebuilt
      <3>4. Events(d)' = Events(d)
        BY <3>3 DEF Events
      <3> QED
        BY <3>1, <3>3, <3>4 DEF Rebuilt
    <2> QED
      BY <1>2, <2>0, <2>1, <2>2 DEF Placed
  <1> QED
    BY <1>3, <1>4

LEMMA CoveredStep == TypeInv /\ Covered /\ [Next]_vars => Covered'
  <1> SUFFICES ASSUME TypeInv, Covered, [Next]_vars PROVE Covered'
    OBVIOUS
  <1>1. ASSUME NEW x \in scene.events, BeginLine(x) PROVE Covered'
    BY <1>1, CoveredStays DEF BeginLine
  <1>2. ASSUME asked' PROVE Covered'
    BY <1>2 DEF Covered, UpToDate
  <1>3. CASE StartRun
    <2>1. spool' = spool
      BY <1>3 DEF StartRun, inputs
    <2> QED
      BY <1>3, <2>1, AllAreListed DEF Covered, Placed
  <1>4. ASSUME run'.failed # {} PROVE Covered'
    BY <1>4 DEF Covered, UpToDate
  <1>5. ASSUME NEW c \in Campaigns \cup {Bucket}, BuildCampaign(c) PROVE Covered'
    <2> SUFFICES ASSUME UpToDate' PROVE InTime' /\ \A x \in spool' : Placed(x)'
      BY DEF Covered, Placed
    <2>1. /\ scene' = scene /\ spool' = spool /\ exports' = exports /\ rulings' = rulings
          /\ asked' = asked /\ runs' = runs /\ run.at = "building"
      BY <1>5 DEF BuildCampaign, inputs
    <2>2. /\ run'.spooled = run.spooled /\ run'.exports = run.exports
          /\ run'.rulings = run.rulings /\ run'.failed = run.failed
      BY <1>5 DEF BuildCampaign, TypeInv
    <2>3. UpToDate
      BY <2>1, <2>2 DEF UpToDate
    <2>4. InTime /\ \A x \in spool : Placed(x)
      BY <2>1, <2>3 DEF Covered, Placed
    <2>5. InTime'
      BY <2>1, <2>2, <2>4, NowStays DEF InTime
    <2> QED
      BY <1>5, <2>1, <2>4, <2>5, BuildPlaces
  <1>6. CASE EndRun
    <2>1. /\ scene' = scene /\ spool' = spool /\ exports' = exports /\ rulings' = rulings
          /\ asked' = asked /\ runs' = runs /\ catalog' = catalog
          /\ run'.at = "none" /\ run'.failed = run.failed /\ run'.todo = {} /\ run.todo = {}
      BY <1>6 DEF EndRun, inputs, NoRun
    <2>2. UpToDate' = UpToDate /\ Rebuilt' = Rebuilt /\ \A c : Events(c)' = Events(c)
      BY <2>1 DEF UpToDate, Rebuilt, Events
    <2> QED
      BY <2>1, <2>2, NowStays DEF Covered
  <1>7. ASSUME NEW c \in Campaigns \cup {Bucket}, CampaignFails(c) PROVE run'.failed # {}
    BY <1>7 DEF CampaignFails, TypeInv
  <1>8. CASE UNCHANGED vars
    BY <1>8, CoveredStays DEF vars, inputs
  <1>9. RunDies => run'.failed # {}
    BY DEF RunDies, NoRun
  <1> QED
    BY <1>1, <1>2, <1>3, <1>4, <1>5, <1>6, <1>7, <1>8, <1>9
       DEF Next, Arrive, Work, Spool, Export, Rule

LEMMA KeptAlways == Spec => []Kept
  <1>1. Kept /\ [Next]_vars => Kept'
    BY TypeStep, EntriesStep, CoveredStep, FailedStep DEF Kept
  <1> QED
    BY <1>1, KeptInit, PTL DEF Spec

\* Once things have settled every spooled event is in the entry of the campaign
\* it resolves to, attached or up for review, or without a number there.
THEOREM NoEventIsDropped == Spec => []NothingDropped
  <1>1. ASSUME Kept PROVE NothingDropped
    <2> SUFFICES ASSUME Settled, runs > 0, NEW x \in spool
                 PROVE  \E c \in Rebuilt : x.event.id \in Visible(c) \cup Numberless(c)
      BY DEF NothingDropped
    <2> DEFINE c == CampaignNow(x.event)
    <2>1. run.failed = {} /\ run.todo = {}
      BY <1>1 DEF Kept, FailedForALine, Settled, TypeInv
    <2>2. c \in Rebuilt /\ x.event.id \in Events(c)
      BY <1>1, <2>1 DEF Kept, Covered, UpToDate, Settled
    <2> HIDE DEF c
    <2> DEFINE it == catalog[c]
               E == DOMAIN it.result.verdicts
               verdict(e) == it.result.verdicts[e]
    <2>3. PICK e \in E : e.id = x.event.id
      BY <2>2 DEF Events
    <2>4. it.result = Reconcile(E, it.rows, c, scene.autoassign)
      BY <1>1, <2>2 DEF Kept, EntriesHonest, Honest, Rebuilt
    <2>5. CASE EventNumber(e) # Unknown \/ it.rows # {}
      <3>1. verdict(e).shots # {} \/ verdict(e).quality \in {"ambiguous", "unmatched"}
        BY <2>4, <2>5, EventsShow
      <3>2. e.id \in Visible(c)
        BY <3>1 DEF Visible
      <3> QED
        BY <2>2, <2>3, <3>2
    <2>6. CASE EventNumber(e) = Unknown /\ it.rows = {}
      <3>1. e.id \in Numberless(c)
        BY <2>6 DEF Numberless
      <3> QED
        BY <2>2, <2>3, <3>1
    <2> QED
      BY <2>5, <2>6
  <1> QED
    BY <1>1, KeptAlways, PTL
-----------------------------------------------------------------------------
(* The gate.                                                                *)

GateTypeInv ==
    /\ gates \in Nat /\ misses \in Nat
    /\ gate = [at |-> gate.at, since |-> gate.since, base |-> gate.base, todo |-> gate.todo,
               campaign |-> gate.campaign, first |-> gate.first, failed |-> gate.failed]
    /\ gate.at \in {"none", "list", "load", "next", "open"} /\ gate.failed \in BOOLEAN
    /\ \A c \in DOMAIN reports :
          reports[c].stamp \in 0..gates /\ reports[c].read \subseteq Nat

\* A gate carries the stamp of its start and the versions there were; it checks
\* masters, and no master goes back to an older run.
GateLooks ==
    gate.at # "none" =>
      /\ gate.since = gates
      /\ \A c \in DOMAIN gate.base :
            c \in DOMAIN catalog /\ gate.base[c] \in Nat /\ gate.base[c] <= Version(c)
      /\ gate.at \in {"load", "next", "open"} => gate.todo \subseteq Masters
      /\ gate.at = "open" =>
            /\ gate.campaign \in gate.todo /\ gate.first \in Nat
            /\ gate.campaign \in DOMAIN gate.base => gate.first >= gate.base[gate.campaign]

\* A report with the stamp of the gate going on is of a master of its start, or
\* of a later one.
ReportsOfTheGate ==
    gate.at # "none" =>
      \A c \in DOMAIN reports :
         reports[c].ran /\ reports[c].stamp = gates /\ c \in DOMAIN gate.base
           => \A version \in reports[c].read : version >= gate.base[c]

\* The last run ended well, and no gate failed by itself.
Quiet == scene.gated /\ runs > 0 /\ misses = 0 /\ run.at = "none" /\ run.failed = {}
Checked(c) ==
    /\ c \in DOMAIN reports
    /\ reports[c].read = {Version(c)}
    /\ reports[c].passed = Passes(c, Version(c), Version(c))
Progress ==
    /\ gate.at \in {"list", "load"} => ~gate.failed
    /\ gate.at = "load" => gate.todo = Masters
    /\ gate.at \in {"next", "open"} =>
          /\ \A c \in Masters \ gate.todo : Checked(c)
          /\ gate.failed <=> \E c \in Masters \ gate.todo : ~reports[c].passed
    /\ gate.at = "open" => gate.first = Version(gate.campaign)
Concluded ==
    /\ \A c \in Masters : Checked(c)
    /\ exit = IF \A c \in Masters : reports[c].passed THEN "passed" ELSE "failed"

\* Then a gate that goes on looks at what is there, and one that ended has, unless
\* another is to follow.
GateKeepsUp ==
    Quiet => /\ gate.at # "none" /\ ~again => Progress
             /\ gate.at = "none" => Concluded

GateInv == GateTypeInv /\ GateLooks /\ ReportsOfTheGate /\ LoggedIsOfTheGate /\ GateKeepsUp
-----------------------------------------------------------------------------
(* ResultsAreCurrent: the gate.                                             *)

\* A step of the gate leaves the builder alone, so what holds of the builder
\* holds with the gate beside it.
LEMMA GateLooksOn == GatedSpec => Spec
  <1>1. GateInit => Init
    BY DEF GateInit
  <1>2. [GatedNext]_gatedVars => [Next]_vars
    <2>1. Gate => UNCHANGED vars
      BY DEF Gate, ListMasters, LoadValidator, CheckStructure, CheckDefinition, GateEnds
    <2>2. GateFails => UNCHANGED vars
      BY DEF GateFails, CheckRaises, CannotRun, GateDies
    <2>3. UNCHANGED gatedVars => UNCHANGED vars
      BY DEF gatedVars
    <2> QED
      BY <2>1, <2>2, <2>3 DEF GatedNext, Build
  <1> QED
    BY <1>1, <1>2, PTL DEF GatedSpec, Spec

\* Versions only go up.
LEMMA MastersStay ==
    ASSUME TypeInv, EntriesHonest, [Next]_vars
    PROVE  /\ DOMAIN catalog \subseteq DOMAIN catalog' /\ Masters \subseteq Masters'
           /\ \A c \in DOMAIN catalog :
                 Version(c) \in Nat /\ Version(c)' \in Nat /\ Version(c)' >= Version(c)
  <1>1. \A c \in DOMAIN catalog : catalog[c].run \in 0..runs /\ runs \in Nat
    BY DEF EntriesHonest, Honest, TypeInv
  <1>2. CASE catalog' = catalog
    BY <1>1, <1>2 DEF Masters, Version
  <1>3. ASSUME NEW c \in Campaigns \cup {Bucket}, BuildCampaign(c)
        PROVE  /\ DOMAIN catalog \subseteq DOMAIN catalog' /\ Masters \subseteq Masters'
               /\ \A d \in DOMAIN catalog :
                     Version(d) \in Nat /\ Version(d)' \in Nat /\ Version(d)' >= Version(d)
    <2>1. /\ DOMAIN catalog' = DOMAIN catalog \cup {c} /\ catalog'[c].run = runs
          /\ \A d \in DOMAIN catalog : d # c => catalog'[d] = catalog[d]
      BY <1>3, NewEntry
    <2>2. ASSUME NEW d \in DOMAIN catalog
          PROVE  /\ catalog[d].run \in Nat /\ catalog'[d].run \in Nat
                 /\ catalog'[d].run >= catalog[d].run
      BY <1>1, <2>1
    <2> QED
      BY <2>1, <2>2 DEF Masters, Version
  <1> QED
    BY <1>2, <1>3, CatalogMoves

\* The last run ended well: by the step that ended it, or before.
EndedWell == runs > 0 /\ run.at = "none" /\ run.failed = {}

LEMMA EndedWellBy ==
    ASSUME TypeInv, [Next]_vars, EndedWell'
    PROVE  catalog' = catalog /\ (EndedWell \/ RunEndsWell)
  <1>1. ASSUME NEW x \in scene.events, BeginLine(x) \/ Spool(x)
        PROVE  catalog' = catalog /\ EndedWell
    BY <1>1 DEF BeginLine, Spool, EndedWell
  <1>2. ASSUME NEW r \in scene.rows, Export(r) PROVE catalog' = catalog /\ EndedWell
    BY <1>2 DEF Export, EndedWell
  <1>3. ASSUME NEW ruling \in scene.rulings, Rule(ruling) PROVE catalog' = catalog /\ EndedWell
    BY <1>3 DEF Rule, EndedWell
  <1>4. CASE StartRun
    BY <1>4, AllAreListed DEF EndedWell
  <1>5. CASE RunDies
    BY <1>5 DEF RunDies, EndedWell, NoRun
  <1>6. ASSUME NEW c \in Campaigns \cup {Bucket}, BuildCampaign(c) \/ CampaignFails(c) PROVE FALSE
    BY <1>6 DEF BuildCampaign, CampaignFails, EndedWell, TypeInv
  <1>7. CASE EndRun
    BY <1>7 DEF EndRun, EndedWell, RunEndsWell, NoRun, TypeInv
  <1>8. CASE UNCHANGED vars
    BY <1>8 DEF vars, EndedWell
  <1> QED
    BY <1>1, <1>2, <1>3, <1>4, <1>5, <1>6, <1>7, <1>8 DEF Next, Arrive, Work

LEMMA OnlyEndRunEnds ==
    ASSUME TypeInv, [Next]_vars, run.at = "building", run'.at = "none"
    PROVE  EndRun
  <1>1. ASSUME NEW c \in Campaigns \cup {Bucket}, BuildCampaign(c) \/ CampaignFails(c) PROVE FALSE
    BY <1>1 DEF BuildCampaign, CampaignFails, TypeInv
  <1> QED
    BY <1>1 DEF Next, Arrive, Work, BeginLine, Spool, Export, Rule, StartRun, RunDies, vars

\* What a gate starts with.
LEMMA Started ==
    ASSUME Starts
    PROVE  /\ gates' = gates + 1
           /\ gate' = [at |-> gate'.at, since |-> gate'.since, base |-> gate'.base,
                       todo |-> gate'.todo, campaign |-> gate'.campaign,
                       first |-> gate'.first, failed |-> gate'.failed]
           /\ gate'.at = "list" /\ gate'.since = gates + 1 /\ gate'.failed = FALSE
           /\ gate'.base = [c \in DOMAIN catalog |-> Version(c)]
  BY DEF Starts, Idle

ReportsTyped(r, n) ==
    \A c \in DOMAIN r : r[c].stamp \in 0..n /\ r[c].read \subseteq Nat

LEMMA StartsWell ==
    ASSUME TypeInv, EntriesHonest, gates \in Nat, Starts, catalog' = catalog, misses' \in Nat,
           ReportsTyped(reports', gates)
    PROVE  GateTypeInv' /\ GateLooks' /\ ReportsOfTheGate' /\ Progress'
  <1>0. /\ gates' = gates + 1 /\ gate'.at = "list" /\ gate'.since = gates + 1
        /\ gate'.failed = FALSE /\ gate'.base = [c \in DOMAIN catalog |-> Version(c)]
    BY Started
  <1>1. \A c \in DOMAIN reports' : reports'[c].stamp \in 0..gates /\ reports'[c].read \subseteq Nat
    BY DEF ReportsTyped
  <1>2. GateTypeInv'
    <2>1. \A c \in DOMAIN reports' : reports'[c].stamp \in 0..gates'
      BY <1>0, <1>1
    <2>2. gate' = [at |-> gate'.at, since |-> gate'.since, base |-> gate'.base,
                   todo |-> gate'.todo, campaign |-> gate'.campaign,
                   first |-> gate'.first, failed |-> gate'.failed]
      BY Started
    <2>3. gates' \in Nat /\ misses' \in Nat
          /\ gate'.at \in {"none", "list", "load", "next", "open"}
      BY <1>0
    <2>5. gate'.failed \in BOOLEAN
      BY <1>0, Zenon
    <2>4. \A c \in DOMAIN reports' : reports'[c].read \subseteq Nat
      BY <1>1
    <2> QED
      BY <2>1, <2>2, <2>3, <2>4, <2>5 DEF GateTypeInv
  <1>3. \A c \in DOMAIN catalog : Version(c) \in Nat /\ Version(c)' = Version(c)
    BY DEF EntriesHonest, Honest, Version, TypeInv
  <1>4. GateLooks'
    BY <1>0, <1>3 DEF GateLooks
  <1>5. ReportsOfTheGate'
    <2>1. \A c \in DOMAIN reports' : reports'[c].stamp # gates'
      BY <1>0, <1>1
    <2> QED
      BY <2>1 DEF ReportsOfTheGate
  <1> QED
    BY <1>0, <1>2, <1>4, <1>5 DEF Progress

\* The end of a gate: the next starts, or there is none.
LEMMA EndsWell ==
    ASSUME TypeInv, EntriesHonest, gates \in Nat, NEW status, NEW results, Ends(status, results),
           catalog' = catalog, misses' \in Nat, ReportsTyped(reports', gates)
    PROVE  /\ GateTypeInv' /\ GateLooks' /\ ReportsOfTheGate'
           /\ exit' = status /\ logged' = results
           /\ gate'.at # "none" => Progress'
           /\ gate'.at = "none" => ~again
  <1>1. CASE again
    BY <1>1, StartsWell, Started DEF Ends
  <1>2. CASE ~again
    <2>1. gate' = Idle /\ gates' = gates /\ exit' = status /\ logged' = results
      BY <1>2 DEF Ends
    <2>2. GateTypeInv' /\ gate'.at = "none"
      BY <2>1 DEF GateTypeInv, Idle, ReportsTyped
    <2> QED
      BY <1>2, <2>1, <2>2 DEF GateLooks, ReportsOfTheGate
  <1> QED
    BY <1>1, <1>2

\* What the trigger logs when a gate ends is of that gate.
LEMMA ResultsOfTheGate ==
    ASSUME GateTypeInv, GateLooks, ReportsOfTheGate, gate.at # "none"
    PROVE  \A result \in Results : \A version \in result.read : version >= result.base
  <1> SUFFICES ASSUME NEW c \in DOMAIN reports, reports[c].ran, reports[c].stamp >= gate.since,
                      NEW version \in reports[c].read
               PROVE  version >= (IF c \in DOMAIN gate.base THEN gate.base[c] ELSE 0)
    BY DEF Results, Result
  <1>1. reports[c].stamp = gates
    <2>1. gate.since = gates /\ gates \in Nat /\ reports[c].stamp \in 0..gates
      BY DEF GateTypeInv, GateLooks
    <2> QED
      BY <2>1
  <1>2. version \in Nat
    BY DEF GateTypeInv
  <1> QED
    BY <1>1, <1>2 DEF ReportsOfTheGate

LEMMA GateInvInit == GateInit => GateInv
  BY DEF GateInit, Init, GateInv, GateTypeInv, GateLooks, ReportsOfTheGate, LoggedIsOfTheGate,
         GateKeepsUp, Quiet, Idle

\* The builder's steps: only the end of a run touches the gate, and it asks for one.
LEMMA BuildKeepsGate ==
    ASSUME TypeInv, EntriesHonest, TypeInv', EntriesHonest', GateInv, Build
    PROVE  GateInv'
  <1>0. /\ GateTypeInv /\ GateLooks /\ ReportsOfTheGate /\ LoggedIsOfTheGate /\ GateKeepsUp
        /\ [Next]_vars /\ scene' = scene
    BY SceneStays DEF GateInv, Build
  <1>1. ReportsTyped(reports, gates)
    BY <1>0 DEF GateTypeInv, ReportsTyped
  <1>2. ASSUME UNCHANGED gateVars
        PROVE  GateTypeInv' /\ GateLooks' /\ ReportsOfTheGate' /\ LoggedIsOfTheGate'
    <2>1. GateTypeInv'
      BY <1>0, <1>2 DEF GateTypeInv, gateVars
    <2>2. GateLooks'
      <3>1. CASE gate.at = "none"
        BY <1>2, <3>1 DEF GateLooks, gateVars
      <3>2. CASE gate.at # "none"
        <4>1. ASSUME NEW c \in DOMAIN gate.base
              PROVE  c \in DOMAIN catalog' /\ gate.base[c] \in Nat /\ gate.base[c] <= Version(c)'
          <5>1. c \in DOMAIN catalog /\ gate.base[c] \in Nat /\ gate.base[c] <= Version(c)
            BY <1>0, <3>2, <4>1 DEF GateLooks
          <5>2. /\ c \in DOMAIN catalog' /\ Version(c) \in Nat /\ Version(c)' \in Nat
                /\ Version(c)' >= Version(c)
            BY <1>0, <5>1, MastersStay
          <5> QED
            BY <5>1, <5>2
        <4>2. Masters \subseteq Masters'
          BY <1>0, MastersStay
        <4> QED
          BY <1>0, <1>2, <3>2, <4>1, <4>2 DEF GateLooks, gateVars
      <3> QED
        BY <3>1, <3>2
    <2>4. ReportsOfTheGate' /\ LoggedIsOfTheGate'
      BY <1>0, <1>2 DEF ReportsOfTheGate, LoggedIsOfTheGate, gateVars
    <2> QED
      BY <2>1, <2>2, <2>4
  <1>3. CASE ~(RunEndsWell /\ scene.gated)
    <2>1. UNCHANGED gateVars
      BY <1>3 DEF Build
    <2>2. GateKeepsUp'
      <3> SUFFICES ASSUME Quiet'
                   PROVE  /\ gate'.at # "none" /\ ~again' => Progress'
                          /\ gate'.at = "none" => Concluded'
        BY DEF GateKeepsUp
      <3>1. catalog' = catalog /\ Quiet
        BY <1>0, <1>3, <2>1, EndedWellBy DEF Quiet, EndedWell, gateVars
      <3>2. /\ gate.at # "none" /\ ~again => Progress
            /\ gate.at = "none" => Concluded
        BY <1>0, <3>1 DEF GateKeepsUp
      <3>3. /\ Masters' = Masters /\ \A c : Version(c)' = Version(c)
            /\ \A c, first, second : Passes(c, first, second)' = Passes(c, first, second)
        BY <1>0, <3>1 DEF Masters, Version, Passes, ContainersPass
      <3>4. \A c : Checked(c)' = Checked(c)
        BY <2>1, <3>3 DEF Checked, gateVars
      <3>5. Progress' = Progress /\ Concluded' = Concluded
        BY <2>1, <3>3, <3>4 DEF Progress, Concluded, gateVars
      <3> QED
        BY <2>1, <3>2, <3>5 DEF gateVars
    <2> QED
      BY <1>2, <2>1, <2>2 DEF GateInv
  <1>4. CASE RunEndsWell /\ scene.gated
    <2>1. Ask /\ catalog' = catalog
      <3>1. EndRun
        BY <1>0, <1>4, OnlyEndRunEnds DEF RunEndsWell
      <3> QED
        BY <1>4, <3>1 DEF Build, EndRun
    <2>2. CASE gate.at = "none"
      <3>1. Starts /\ logged' = logged /\ reports' = reports /\ misses' = misses
        BY <2>1, <2>2 DEF Ask
      <3>2. GateTypeInv' /\ GateLooks' /\ ReportsOfTheGate' /\ Progress'
        BY <1>0, <1>1, <2>1, <3>1, StartsWell DEF GateTypeInv
      <3>3. gate'.at = "list"
        BY <3>1, Started
      <3> QED
        BY <1>0, <3>1, <3>2, <3>3 DEF GateInv, LoggedIsOfTheGate, GateKeepsUp
    <2>3. CASE gate.at # "none"
      <3>1. /\ again' = TRUE /\ gate' = gate /\ gates' = gates /\ reports' = reports
            /\ logged' = logged /\ exit' = exit /\ misses' = misses
        BY <2>1, <2>3 DEF Ask
      <3>2. Masters' = Masters /\ \A c : Version(c)' = Version(c)
        BY <2>1 DEF Masters, Version
      <3>3. GateTypeInv' /\ GateLooks' /\ ReportsOfTheGate' /\ LoggedIsOfTheGate'
        BY <1>0, <2>1, <3>1, <3>2
           DEF GateTypeInv, GateLooks, ReportsOfTheGate, LoggedIsOfTheGate
      <3> QED
        BY <2>3, <3>1, <3>3 DEF GateInv, GateKeepsUp
    <2> QED
      BY <2>2, <2>3
  <1> QED
    BY <1>3, <1>4

\* What a step of the gate cannot change.
LEMMA BuilderStays ==
    ASSUME UNCHANGED vars
    PROVE  /\ scene' = scene /\ catalog' = catalog /\ runs' = runs /\ run' = run
           /\ Masters' = Masters /\ \A c : Version(c)' = Version(c)
           /\ \A c, first, second : Passes(c, first, second)' = Passes(c, first, second)
  <1>1. scene' = scene /\ catalog' = catalog /\ runs' = runs /\ run' = run
    BY DEF vars
  <1> QED
    BY <1>1 DEF Masters, Version, Passes, ContainersPass

\* Steps of the gate between its reports.
LEMMA LookKeepsGate ==
    ASSUME TypeInv, EntriesHonest, GateInv,
           ListMasters \/ LoadValidator \/ \E c \in Campaigns : CheckStructure(c)
    PROVE  GateInv'
  <1>0. /\ GateTypeInv /\ GateLooks /\ ReportsOfTheGate /\ LoggedIsOfTheGate /\ GateKeepsUp
        /\ UNCHANGED vars /\ UNCHANGED <<again, gates, reports, logged, exit, misses>>
    BY DEF GateInv, ListMasters, LoadValidator, CheckStructure
  <1>1. /\ scene' = scene /\ catalog' = catalog /\ runs' = runs /\ run' = run
        /\ Masters' = Masters /\ \A c : Version(c)' = Version(c) /\ Checked(c)' = Checked(c)
    BY <1>0, BuilderStays DEF Checked
  <1>2. Quiet' = Quiet
    BY <1>0, <1>1 DEF Quiet
  <1>3. /\ gate.at # "none" /\ gate'.at # "none" /\ gate'.since = gate.since
        /\ gate'.base = gate.base /\ gate'.failed = gate.failed
    BY <1>0 DEF ListMasters, LoadValidator, CheckStructure, GateTypeInv
  <1>4. LoggedIsOfTheGate' /\ ReportsOfTheGate'
    BY <1>0, <1>3 DEF LoggedIsOfTheGate, ReportsOfTheGate
  <1>5. ASSUME GateLooks', Progress => Progress', GateTypeInv' PROVE GateInv'
    BY <1>0, <1>2, <1>3, <1>4, <1>5 DEF GateInv, GateKeepsUp
  <1>6. CASE ListMasters
    <2>1. /\ gate.at = "list" /\ gate'.at = "load" /\ gate'.todo = Masters
          /\ gate' = [gate EXCEPT !.at = "load", !.todo = Masters]
      BY <1>0, <1>6 DEF ListMasters, GateTypeInv
    <2>2. GateTypeInv'
      BY <1>0, <2>1 DEF GateTypeInv
    <2>3. GateLooks'
      BY <1>0, <1>1, <1>3, <2>1 DEF GateLooks
    <2>4. Progress => Progress'
      BY <1>1, <1>3, <2>1 DEF Progress
    <2> QED
      BY <1>5, <2>2, <2>3, <2>4
  <1>7. CASE LoadValidator
    <2>1. /\ gate.at = "load" /\ gate'.at = "next" /\ gate'.todo = gate.todo
          /\ gate' = [gate EXCEPT !.at = "next"]
      BY <1>0, <1>7 DEF LoadValidator, GateTypeInv
    <2>2. GateTypeInv'
      BY <1>0, <2>1 DEF GateTypeInv
    <2>3. GateLooks'
      BY <1>0, <1>1, <1>3, <2>1 DEF GateLooks
    <2>4. Progress => Progress'
      BY <1>1, <1>3, <2>1 DEF Progress
    <2> QED
      BY <1>5, <2>2, <2>3, <2>4
  <1>8. ASSUME NEW c \in Campaigns, CheckStructure(c) PROVE GateInv'
    <2>1. /\ gate.at = "next" /\ c \in gate.todo /\ gate'.at = "open" /\ gate'.todo = gate.todo
          /\ gate'.campaign = c /\ gate'.first = Version(c)
          /\ gate' = [gate EXCEPT !.at = "open", !.campaign = c, !.first = Version(c)]
      BY <1>0, <1>8 DEF CheckStructure, GateTypeInv
    <2>2. GateTypeInv'
      BY <1>0, <2>1 DEF GateTypeInv
    <2>3. c \in Masters /\ Version(c) \in Nat
      <3>1. c \in Masters
        BY <1>0, <2>1 DEF GateLooks
      <3> QED
        BY <3>1, MastersStay, <1>0 DEF Masters
    <2>4. GateLooks'
      BY <1>0, <1>1, <1>3, <2>1, <2>3 DEF GateLooks
    <2>5. Progress => Progress'
      <3>1. reports' = reports
        BY <1>0
      <3> QED
        BY <1>1, <1>3, <2>1, <3>1 DEF Progress
    <2> QED
      BY <1>5, <2>2, <2>4, <2>5
  <1> QED
    BY <1>6, <1>7, <1>8

\* A report is of the versions that its gate read.
LEMMA ReportKeepsGate ==
    ASSUME TypeInv, EntriesHonest, GateInv, CheckDefinition
    PROVE  GateInv'
  <1>0. /\ GateTypeInv /\ GateLooks /\ ReportsOfTheGate /\ LoggedIsOfTheGate /\ GateKeepsUp
        /\ UNCHANGED vars /\ UNCHANGED <<again, gates, logged, exit, misses>> /\ gate.at = "open"
    BY DEF GateInv, CheckDefinition
  <1>1. /\ scene' = scene /\ catalog' = catalog /\ runs' = runs /\ run' = run
        /\ Masters' = Masters /\ \A c : Version(c)' = Version(c)
        /\ \A c, first, second : Passes(c, first, second)' = Passes(c, first, second)
    BY <1>0, BuilderStays
  <1>2. PICK c : c = gate.campaign
    OBVIOUS
  <1>3. PICK passed : passed = Passes(c, gate.first, Version(c))
    OBVIOUS
  <1>4. PICK report : report = [ran |-> TRUE, passed |-> passed, stamp |-> gate.since,
                                read |-> {gate.first, Version(c)}]
    OBVIOUS
  <1>5. /\ reports' = [d \in DOMAIN reports \cup {c} |-> IF d = c THEN report ELSE reports[d]]
        /\ gate' = [gate EXCEPT !.at = "next", !.todo = @ \ {c}, !.failed = gate.failed \/ ~passed]
    BY <1>2, <1>3, <1>4 DEF CheckDefinition, WithReport
  <1>6. /\ DOMAIN reports' = DOMAIN reports \cup {c} /\ reports'[c] = report
        /\ \A d \in DOMAIN reports : d # c => reports'[d] = reports[d]
    BY <1>5
  <1>7. /\ gate'.at = "next" /\ gate'.todo = gate.todo \ {c} /\ gate'.since = gate.since
        /\ gate'.base = gate.base /\ gate'.failed = (gate.failed \/ ~passed)
        /\ gate' = [at |-> gate'.at, since |-> gate'.since, base |-> gate'.base,
                    todo |-> gate'.todo, campaign |-> gate'.campaign, first |-> gate'.first,
                    failed |-> gate'.failed]
    BY <1>0, <1>5 DEF GateTypeInv
  <1>8. /\ c \in gate.todo /\ c \in Masters /\ c \in DOMAIN catalog /\ Version(c) \in Nat
        /\ gate.first \in Nat /\ gate.since = gates
    <2>1. c \in gate.todo /\ c \in Masters /\ gate.first \in Nat /\ gate.since = gates
      BY <1>0, <1>2 DEF GateLooks
    <2> QED
      BY <1>0, <2>1, MastersStay DEF Masters
  <1>9. GateTypeInv'
    <2>1. \A d \in DOMAIN reports' : reports'[d].stamp \in 0..gates' /\ reports'[d].read \subseteq Nat
      BY <1>0, <1>4, <1>6, <1>8 DEF GateTypeInv
    <2>2. gate'.failed \in BOOLEAN
      <3>1. passed \in BOOLEAN
        BY <1>3 DEF Passes
      <3> QED
        BY <1>0, <1>7, <3>1 DEF GateTypeInv
    <2> QED
      BY <1>0, <1>7, <2>1, <2>2 DEF GateTypeInv
  <1>10. GateLooks'
    BY <1>0, <1>1, <1>7 DEF GateLooks
  <1>11. ReportsOfTheGate'
    <2>1. c \in DOMAIN gate.base => gate.first >= gate.base[c] /\ Version(c) >= gate.base[c]
      BY <1>0, <1>2, <1>8 DEF GateLooks
    <2> QED
      BY <1>0, <1>4, <1>6, <1>7, <2>1 DEF ReportsOfTheGate
  <1>12. LoggedIsOfTheGate'
    BY <1>0 DEF LoggedIsOfTheGate
  <1>13. GateKeepsUp'
    <2> SUFFICES ASSUME Quiet', ~again' PROVE Progress'
      BY <1>7 DEF GateKeepsUp
    <2>1. Progress
      BY <1>0, <1>1 DEF GateKeepsUp, Quiet
    <2>2. gate.first = Version(c)
      BY <1>0, <1>2, <2>1 DEF Progress
    <2>3. report.read = {Version(c)} /\ report.passed = Passes(c, Version(c), Version(c))
          /\ report.passed = passed
      BY <1>3, <1>4, <2>2
    <2>4. Checked(c)'
      BY <1>1, <1>6, <2>3 DEF Checked
    <2>5. Masters' \ gate'.todo = (Masters \ gate.todo) \cup {c} /\ c \notin Masters \ gate.todo
      BY <1>1, <1>7, <1>8
    <2>6. ASSUME NEW d \in Masters \ gate.todo
          PROVE  Checked(d)' /\ reports'[d] = reports[d]
      <3>1. Checked(d) /\ d # c
        BY <1>0, <2>1, <2>5 DEF Progress
      <3> QED
        BY <1>1, <1>6, <3>1 DEF Checked
    <2>7. gate'.failed <=> \E d \in Masters' \ gate'.todo : ~reports'[d].passed
      <3>1. gate.failed <=> \E d \in Masters \ gate.todo : ~reports[d].passed
        BY <1>0, <2>1 DEF Progress
      <3>2. reports'[c].passed = passed
        BY <1>6, <2>3
      <3> QED
        BY <1>7, <2>5, <2>6, <3>1, <3>2
    <2> QED
      BY <1>7, <2>4, <2>5, <2>6, <2>7 DEF Progress
  <1> QED
    BY <1>9, <1>10, <1>11, <1>12, <1>13 DEF GateInv

\* A gate that ends has checked every master, or failed by itself.
LEMMA EndKeepsGate ==
    ASSUME TypeInv, EntriesHonest, GateInv, GateEnds \/ GateFails
    PROVE  GateInv'
  <1>0. /\ GateTypeInv /\ GateLooks /\ ReportsOfTheGate /\ LoggedIsOfTheGate /\ GateKeepsUp
        /\ UNCHANGED vars /\ gates \in Nat /\ misses \in Nat
    BY DEF GateInv, GateTypeInv, GateEnds, GateFails, CheckRaises, CannotRun, GateDies
  <1>1. /\ scene' = scene /\ catalog' = catalog /\ runs' = runs /\ run' = run
        /\ Masters' = Masters /\ \A c : Version(c)' = Version(c)
        /\ \A c, first, second : Passes(c, first, second)' = Passes(c, first, second)
    BY <1>0, BuilderStays
  <1>2. ReportsTyped(reports, gates)
    BY <1>0 DEF GateTypeInv, ReportsTyped
  <1>3. ASSUME Misses PROVE misses' \in Nat /\ GateKeepsUp'
    BY <1>0, <1>3 DEF Misses, GateKeepsUp, Quiet
  <1>4. CASE CheckRaises
    <2>1. /\ gate.at = "open" /\ gate'.at = "next" /\ gate'.todo = gate.todo \ {gate.campaign}
          /\ gate'.since = gate.since /\ gate'.base = gate.base /\ gate'.failed = TRUE
          /\ gate' = [gate EXCEPT !.at = "next", !.todo = @ \ {gate.campaign}, !.failed = TRUE]
          /\ UNCHANGED <<again, gates, reports, logged, exit>>
      BY <1>0, <1>4 DEF CheckRaises, GateTypeInv
    <2>2. GateTypeInv'
      BY <1>0, <1>3, <1>4, <2>1 DEF CheckRaises, GateTypeInv
    <2>3. GateLooks' /\ ReportsOfTheGate' /\ LoggedIsOfTheGate'
      BY <1>0, <1>1, <2>1 DEF GateLooks, ReportsOfTheGate, LoggedIsOfTheGate
    <2> QED
      BY <1>3, <1>4, <2>2, <2>3 DEF GateInv, CheckRaises
  <1>5. CASE CannotRun
    <2>1. ReportsTyped(reports', gates)
      <3>1. gate.since \in 0..gates
        <4>1. gate.since = gates
          BY <1>0, <1>5 DEF CannotRun, GateLooks
        <4> QED
          BY <1>0, <4>1
      <3>2. /\ DOMAIN reports' = DOMAIN reports \cup gate.todo
            /\ \A c \in DOMAIN reports' :
                  reports'[c] = IF c \in gate.todo THEN NotRun ELSE reports[c]
        BY <1>5 DEF CannotRun
      <3>3. NotRun.stamp = gate.since /\ NotRun.read = {}
        BY DEF NotRun
      <3> QED
        BY <1>2, <3>1, <3>2, <3>3 DEF ReportsTyped
    <2>2. Ends("not run", {}) /\ Misses
      BY <1>5 DEF CannotRun
    <2>3. GateTypeInv' /\ GateLooks' /\ ReportsOfTheGate' /\ logged' = {}
      BY <1>0, <1>1, <1>3, <2>1, <2>2, EndsWell
    <2> QED
      BY <1>3, <2>2, <2>3 DEF GateInv, LoggedIsOfTheGate
  <1>6. CASE GateDies
    <2>1. Ends("failed", Results) /\ Misses /\ reports' = reports /\ gate.at # "none"
      BY <1>6 DEF GateDies
    <2>2. GateTypeInv' /\ GateLooks' /\ ReportsOfTheGate' /\ logged' = Results
      BY <1>0, <1>1, <1>2, <1>3, <2>1, EndsWell
    <2> QED
      BY <1>0, <1>3, <2>1, <2>2, ResultsOfTheGate DEF GateInv, LoggedIsOfTheGate
  <1>7. CASE GateEnds
    <2> DEFINE status == IF gate.failed THEN "failed" ELSE "passed"
    <2>1. /\ Ends(status, Results) /\ reports' = reports /\ misses' = misses
          /\ gate.at = "next" /\ gate.todo = {}
      BY <1>7 DEF GateEnds
    <2>2. /\ GateTypeInv' /\ GateLooks' /\ ReportsOfTheGate' /\ logged' = Results
          /\ exit' = status
          /\ gate'.at # "none" => Progress'
          /\ gate'.at = "none" => ~again
      <3> HIDE DEF status
      <3> QED
        BY <1>0, <1>1, <1>2, <2>1, EndsWell
    <2>3. LoggedIsOfTheGate'
      BY <1>0, <2>1, <2>2, ResultsOfTheGate DEF LoggedIsOfTheGate
    <2>4. ASSUME Quiet', gate'.at = "none" PROVE Concluded'
      <3>1. Progress
        BY <1>0, <1>1, <2>1, <2>2, <2>4 DEF GateKeepsUp, Quiet
      <3>2. /\ \A c \in Masters : Checked(c)
            /\ gate.failed <=> \E c \in Masters : ~reports[c].passed
        BY <2>1, <3>1 DEF Progress
      <3>3. \A c : Checked(c)' = Checked(c)
        BY <1>1, <2>1 DEF Checked
      <3> QED
        BY <1>1, <2>1, <2>2, <3>2, <3>3 DEF Concluded
    <2> QED
      BY <2>2, <2>3, <2>4 DEF GateInv, GateKeepsUp
  <1> QED
    BY <1>4, <1>5, <1>6, <1>7 DEF GateFails

LEMMA GateInvAlways == GatedSpec => []GateInv
  <1>1. /\ Routed /\ Routed' /\ GateInv /\ [GatedNext]_gatedVars => GateInv'
    <2> SUFFICES ASSUME Routed, Routed', GateInv, [GatedNext]_gatedVars PROVE GateInv'
      OBVIOUS
    <2>0. TypeInv /\ EntriesHonest /\ TypeInv' /\ EntriesHonest'
      BY DEF Routed
    <2>1. CASE Build
      BY <2>0, <2>1, BuildKeepsGate
    <2>2. CASE Gate
      BY <2>0, <2>2, LookKeepsGate, ReportKeepsGate, EndKeepsGate DEF Gate
    <2>3. CASE GateFails
      BY <2>0, <2>3, EndKeepsGate
    <2>4. CASE UNCHANGED gatedVars
      <3>1. /\ UNCHANGED vars /\ gate' = gate /\ again' = again /\ gates' = gates
            /\ reports' = reports /\ logged' = logged /\ exit' = exit /\ misses' = misses
        BY <2>4 DEF gatedVars, gateVars
      <3>2. /\ scene' = scene /\ catalog' = catalog /\ runs' = runs /\ run' = run
            /\ Masters' = Masters /\ \A c : Version(c)' = Version(c)
            /\ \A c : Checked(c)' = Checked(c)
        BY <3>1, BuilderStays DEF Checked
      <3>3. Progress' = Progress /\ Concluded' = Concluded /\ Quiet' = Quiet
        BY <3>1, <3>2 DEF Progress, Concluded, Quiet
      <3> QED
        BY <3>1, <3>2, <3>3 DEF GateInv, GateTypeInv, GateLooks, ReportsOfTheGate,
                                LoggedIsOfTheGate, GateKeepsUp
    <2> QED
      BY <2>1, <2>2, <2>3, <2>4 DEF GatedNext
  <1> QED
    BY <1>1, GateInvInit, GateLooksOn, RoutedAlways, PTL DEF GatedSpec

\* What a gate logs it found itself; and once runs and gates are over, every
\* master has a report of it alone that says what a check of it would.
THEOREM ResultsAreOfWhatIsPublished == GatedSpec => []ResultsAreCurrent
  <1>1. GateInv => ResultsAreCurrent
    BY DEF GateInv, GateKeepsUp, Quiet, Concluded, Checked, ResultsAreCurrent
  <1> QED
    BY <1>1, GateInvAlways, PTL

\* The properties of the builder hold with the gate beside it as without.
THEOREM BuildsBesideTheGate ==
    GatedSpec => /\ [](RoutedOnce /\ NothingDropped /\ AttachedByIdentity)
                 /\ AttachmentsStay
  BY GateLooksOn, EachEventOnce, NoEventIsDropped, OnlyIdentitiesAttach,
     AttachmentsAlwaysStay, PTL
=============================================================================
