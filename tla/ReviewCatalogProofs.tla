------------------------ MODULE ReviewCatalogProofs ------------------------
(***************************************************************************)
(* For any number of processes, campaigns, events and faults, with any     *)
(* overlap: master and entry agree (EntryIsOfMaster), a decision that was  *)
(* loaded shows (DecisionsShown), and one that was answered is in the      *)
(* sidecar unless every load of it raises (AnsweredOrLoud).                *)
(*                                                                         *)
(* An entry is good or not for a master and a sidecar, wherever it is: in  *)
(* the catalog, in the page of a request, with a builder.  What requests   *)
(* and builders do to pages keeps them good, so that it does not matter    *)
(* which of them is written back.                                          *)
(*                                                                         *)
(* And while nothing overlaps or fails, the handlers make of an entry what *)
(* the builder would (LiveEqualsRebuilt).  That is not inductive: while a  *)
(* request is served, the page, the catalog and the sidecar agree only     *)
(* with the decision in hand counted in (OneByOne), and an event that the  *)
(* handlers have moved before must still be in one place (Whole).          *)
(***************************************************************************)
EXTENDS ReviewCatalog, SequenceTheorems, WellFoundedInduction, TLAPS

-----------------------------------------------------------------------------
(* The sidecar. *)

Lines == [key : Keys, event : Events, action : {"confirm", "dismiss"},
          shot : Shots \cup {"-"}, level : 0..2] \cup {Junk}
Sidecars == {s \in [lines : Seq(Lines), open : BOOLEAN] : s.open => Len(s.lines) > 0}

CorruptIn(s) == \E i \in DOMAIN s.lines : s.lines[i] = Junk
Recorded(d, s) == CorruptIn(s) \/ \E i \in DOMAIN s.lines : s.lines[i] = d

\* t is s after some writes: as long as it can be read, with lines added.
Grown(s, t) ==
    /\ CorruptIn(s) => CorruptIn(t)
    /\ Len(s.lines) <= Len(t.lines)
    /\ ~CorruptIn(t) => \A i \in 1..Len(s.lines) : t.lines[i] = s.lines[i]

\* A sidecar with a line can end with or without its newline.
LEMMA FullSidecar ==
    ASSUME NEW lines \in Seq(Lines), Len(lines) > 0, NEW flag \in BOOLEAN
    PROVE  [lines |-> lines, open |-> flag] \in Sidecars
<1> DEFINE t == [lines |-> lines, open |-> flag]
<1>1. t \in [lines : Seq(Lines), open : BOOLEAN]
    OBVIOUS
<1>2. Len(t.lines) > 0
    OBVIOUS
<1> QED BY <1>1, <1>2, Zenon DEF Sidecars

\* Only the mark of the missing newline changes.
LEMMA Reopened ==
    ASSUME NEW log, NEW lines, NEW open, log = [lines |-> lines, open |-> open], NEW flag
    PROVE  [log EXCEPT !.open = flag] = [lines |-> lines, open |-> flag]
OBVIOUS

\* An append, whole or without its newline, goes on with the sidecar.
LEMMA AppendedGrows ==
    ASSUME NEW s \in Sidecars, NEW d \in Lines,
           NEW t \in {Appended(s, d), [Appended(s, d) EXCEPT !.open = TRUE]}
    PROVE  /\ t \in Sidecars /\ Grown(s, t) /\ Recorded(d, t)
<1>1. s.lines \in Seq(Lines) /\ Junk \in Lines /\ Len(s.lines) \in Nat
    BY DEF Sidecars, Lines
<1>2. CASE s.open
  <2> DEFINE n == Len(s.lines)
             spoilt == [s.lines EXCEPT ![n] = Junk]
  <2>1. n > 0 /\ n \in DOMAIN s.lines
    BY <1>1, <1>2 DEF Sidecars
  <2>2. spoilt \in Seq(Lines) /\ Len(spoilt) = n /\ spoilt[n] = Junk /\ DOMAIN spoilt = 1..n
    BY <1>1, <2>1
  <2>3. PICK flag \in BOOLEAN : t = [lines |-> spoilt, open |-> flag]
    <3>1. Appended(s, d) = [lines |-> spoilt, open |-> FALSE]
      BY <1>2, Zenon DEF Appended
    <3> HIDE DEF spoilt
    <3>2. CASE t = Appended(s, d)
      BY <3>1, <3>2, Zenon
    <3>3. CASE t = [Appended(s, d) EXCEPT !.open = TRUE]
      <4>1. t = [lines |-> spoilt, open |-> TRUE]
        BY <3>1, <3>3, Reopened, Zenon
      <4> QED BY <4>1, Zenon
    <3> QED BY <3>2, <3>3
  <2>4. CorruptIn(t)
    BY <2>1, <2>2, <2>3 DEF CorruptIn
  <2>5. t \in Sidecars
    <3> HIDE DEF spoilt
    <3> QED BY <1>1, <2>1, <2>2, <2>3, FullSidecar
  <2>6. Len(t.lines) = Len(s.lines)
    BY <2>2, <2>3
  <2> QED BY <1>1, <2>4, <2>5, <2>6 DEF Grown, Recorded
<1>3. CASE ~s.open
  <2> DEFINE more == Append(s.lines, d)
  <2>1. /\ more \in Seq(Lines) /\ Len(more) = Len(s.lines) + 1 /\ more[Len(more)] = d
        /\ \A i \in 1..Len(s.lines) : more[i] = s.lines[i]
    BY <1>1
  <2>2. PICK flag \in BOOLEAN : t = [lines |-> more, open |-> flag]
    <3>1. Appended(s, d) = [lines |-> more, open |-> FALSE]
      BY <1>3, Zenon DEF Appended
    <3> HIDE DEF more
    <3>2. CASE t = Appended(s, d)
      BY <3>1, <3>2, Zenon
    <3>3. CASE t = [Appended(s, d) EXCEPT !.open = TRUE]
      <4>1. t = [lines |-> more, open |-> TRUE]
        BY <3>1, <3>3, Reopened, Zenon
      <4> QED BY <4>1, Zenon
    <3> QED BY <3>2, <3>3
  <2>3. DOMAIN more = 1..Len(more) /\ DOMAIN s.lines = 1..Len(s.lines)
    BY <1>1, <2>1
  <2>4. CorruptIn(s) => CorruptIn(t)
    BY <1>1, <2>1, <2>2, <2>3 DEF CorruptIn
  <2>5. t \in Sidecars
    <3> HIDE DEF more
    <3>1. more \in Seq(Lines) /\ Len(more) > 0
      BY <1>1, <2>1
    <3> QED BY <2>2, <3>1, FullSidecar
  <2>6. Grown(s, t)
    BY <1>1, <2>1, <2>2, <2>4 DEF Grown
  <2>7. Recorded(d, t)
    BY <1>1, <2>1, <2>2, <2>3 DEF Recorded
  <2> QED BY <2>5, <2>6, <2>7
<1> QED BY <1>2, <1>3

\* So does a failed one.
LEMMA CutShortGrows ==
    ASSUME NEW s \in Sidecars, NEW d \in Lines, NEW t \in CutShort(s, d)
    PROVE  t \in Sidecars /\ Grown(s, t)
<1>1. CASE t = s
    BY <1>1 DEF Grown, Sidecars
<1>2. ASSUME NEW r \in {Junk, d}, t = [Appended(s, r) EXCEPT !.open = TRUE]
      PROVE  t \in Sidecars /\ Grown(s, t)
    BY <1>2, AppendedGrows DEF Lines
<1> QED BY <1>1, <1>2 DEF CutShort

\* What is in it stays, or it can no longer be read.
LEMMA RecordedStays ==
    ASSUME NEW s \in Sidecars, NEW t \in Sidecars, Grown(s, t), NEW d, Recorded(d, s)
    PROVE  Recorded(d, t)
<1>1. /\ DOMAIN s.lines = 1..Len(s.lines) /\ DOMAIN t.lines = 1..Len(t.lines)
      /\ Len(s.lines) \in Nat /\ Len(t.lines) \in Nat
    BY DEF Sidecars
<1> QED BY <1>1 DEF Recorded, Grown

-----------------------------------------------------------------------------
(* The ruling that counts. *)

\* A set of numbers that is bounded and not empty has a greatest one.
LEMMA Greatest ==
    ASSUME NEW n \in Nat, NEW S \in SUBSET (0..n), S # {}
    PROVE  \E x \in S : \A y \in S : y <= x
<1> DEFINE T == {n - x : x \in S}
<1>1. T \in SUBSET Nat /\ T # {}
  <2>1. PICK x \in S : TRUE
    OBVIOUS
  <2> QED BY <2>1, n - x \in T
<1>2. PICK t \in T : \A u \in T : ~ (<<u, t>> \in OpToRel(<, Nat))
    BY <1>1, NatLessThanWellFounded, WFMin
<1>3. \A u \in T : ~(u < t)
    BY <1>1, <1>2, Zenon DEF OpToRel
<1>4. PICK x \in S : t = n - x
    BY <1>2
<1>5. \A y \in S : y <= x
  <2> TAKE y \in S
  <2>1. ~(n - y < t)
    BY <1>3
  <2> QED BY <1>4, <2>1
<1> QED BY <1>4, <1>5

\* Decisions of the sidecar: lines that can be read.
Decisions == Lines \ {Junk}

Wins(lines, k, e, i) ==
    \A j \in Rulings(lines, k, e) :
       \/ lines[j].level < lines[i].level
       \/ lines[j].level = lines[i].level /\ j <= i

\* One ruling wins ...
LEMMA OneWins ==
    ASSUME NEW lines \in Seq(Decisions), NEW k, NEW e, Rulings(lines, k, e) # {}
    PROVE  \E i \in Rulings(lines, k, e) : Wins(lines, k, e, i)
<1> DEFINE mine == Rulings(lines, k, e)
<1>1. /\ mine \subseteq 1..Len(lines) /\ Len(lines) \in Nat
      /\ \A i \in mine : lines[i].level \in 0..2
    BY DEF Rulings, Decisions, Lines
<1>2. PICK top \in {lines[i].level : i \in mine} : \A l \in {lines[i].level : i \in mine} : l <= top
  <2>1. {lines[i].level : i \in mine} \in SUBSET (0..2)
    BY <1>1
  <2>2. {lines[i].level : i \in mine} # {}
    OBVIOUS
  <2> QED BY <2>1, <2>2, Greatest
<1>3. PICK i \in mine : lines[i].level = top /\ \A j \in mine : lines[j].level = top => j <= i
  <2> DEFINE best == {j \in mine : lines[j].level = top}
  <2>1. best \in SUBSET (0..Len(lines)) /\ best # {}
    BY <1>1, <1>2
  <2> QED BY <1>1, <2>1, Greatest
<1>4. \A j \in mine : \/ lines[j].level < lines[i].level
                      \/ lines[j].level = lines[i].level /\ j <= i
  <2> TAKE j \in mine
  <2>1. lines[j].level <= lines[i].level
    BY <1>2, <1>3
  <2>2. lines[j].level \in 0..2 /\ lines[i].level \in 0..2
    BY <1>1
  <2>3. lines[j].level = lines[i].level => j <= i
    BY <1>3
  <2> QED BY <2>1, <2>2, <2>3
<1> QED BY <1>4 DEF Wins

\* ... and it is the winner.
LEMMA WinnerIs ==
    ASSUME NEW lines \in Seq(Decisions), NEW k, NEW e,
           NEW i \in Rulings(lines, k, e), Wins(lines, k, e, i)
    PROVE  Winner(lines, k, e) = lines[i]
<1> DEFINE mine == Rulings(lines, k, e)
           W(n) == \A j \in mine : \/ lines[j].level < lines[n].level
                                   \/ lines[j].level = lines[n].level /\ j <= n
           best == CHOOSE n \in mine : W(n)
<1>1. Winner(lines, k, e) = lines[best]
    BY Zenon DEF Winner
<1>2. \E n \in mine : W(n)
    BY DEF Wins
<1>3. best \in mine /\ W(best)
  <2> HIDE DEF W, mine
  <2> QED BY <1>2
<1>4. /\ mine \subseteq 1..Len(lines) /\ Len(lines) \in Nat
      /\ \A j \in mine : lines[j].level \in 0..2
    BY DEF Rulings, Decisions, Lines
<1>5. W(i) /\ i \in mine
    BY DEF Wins
<1>6. best = i
  <2>1. \/ lines[best].level < lines[i].level
        \/ lines[best].level = lines[i].level /\ best <= i
    BY <1>3, <1>5
  <2>2. \/ lines[i].level < lines[best].level
        \/ lines[i].level = lines[best].level /\ i <= best
    BY <1>3
  <2> HIDE DEF best, mine, W
  <2> QED BY <1>3, <1>4, <1>5, <2>1, <2>2
<1> QED BY <1>1, <1>6

\* It has a level that counts.
LEMMA WinnerIsARuling ==
    ASSUME NEW lines \in Seq(Decisions), NEW k, NEW e, Rulings(lines, k, e) # {}
    PROVE  Winner(lines, k, e).level \in 0..2
<1>1. PICK i \in Rulings(lines, k, e) : Wins(lines, k, e, i)
    BY OneWins
<1>2. Winner(lines, k, e) = lines[i]
    BY <1>1, WinnerIs
<1>3. lines[i].level \in 0..2
    BY DEF Rulings, Decisions, Lines
<1> QED BY <1>2, <1>3

-----------------------------------------------------------------------------
(* Entries and pages.  An entry is good for the number m of its key's       *)
(* master and the sidecar s.                                               *)

EntryFields == {"number", "from", "loaded", "scicat", "shots", "attached", "review", "marks",
                "summary"}
ItemFields == {"event", "status", "candidates", "ack"}

\* The decisions in lines show in entry (DecisionsShown).
ShownIn(entry, k, lines) ==
    \A e \in Events :
      LET toReview == e \in ToReview(Outcome[entry.from][k])
      IN /\ (toReview /\ Decided(lines, k, e, "confirm")
               /\ Winner(lines, k, e).shot \in Outcome[entry.from][k].shots) =>
              \E a \in entry.attached : /\ a.event = e /\ a.by = "operator"
                                        /\ a.shot = Winner(lines, k, e).shot
         /\ (toReview /\ Decided(lines, k, e, "dismiss")) =>
              \A r \in entry.review : r.event = e => r.ack # NotAcked

GoodEntry(entry, k, m, s) ==
    /\ EntryFields \subseteq DOMAIN entry
    /\ entry.number \in Nat /\ entry.number <= m
    /\ entry.scicat \in {entry.number, Unregistered}
    /\ entry.loaded \in Nat /\ entry.loaded <= Len(s.lines)
    /\ \A r \in entry.review : ItemFields \subseteq DOMAIN r /\ r.event \in Events
    /\ ~CorruptIn(s) => ShownIn(entry, k, SubSeq(s.lines, 1, entry.loaded))

GoodPage(page, m, s) ==
    DOMAIN page = Keys /\ \A k \in Keys : GoodEntry(page[k], k, m[k], s)

\* A good entry stays good while masters are published and decisions added.
LEMMA GoodStays ==
    ASSUME NEW s \in Sidecars, NEW t \in Sidecars, Grown(s, t),
           NEW m \in Nat, NEW n \in Nat, m <= n,
           NEW k, NEW entry, GoodEntry(entry, k, m, s)
    PROVE  GoodEntry(entry, k, n, t)
<1>1. /\ s.lines \in Seq(Lines) /\ t.lines \in Seq(Lines)
      /\ Len(s.lines) \in Nat /\ Len(t.lines) \in Nat /\ Len(s.lines) <= Len(t.lines)
    BY DEF Sidecars, Grown
<1>2. entry.loaded \in Nat /\ entry.loaded <= Len(s.lines)
    BY DEF GoodEntry
<1>3. ASSUME ~CorruptIn(t)
      PROVE  ShownIn(entry, k, SubSeq(t.lines, 1, entry.loaded))
  <2>1. ~CorruptIn(s) /\ \A i \in 1..Len(s.lines) : t.lines[i] = s.lines[i]
    BY <1>3 DEF Grown
  <2>2. SubSeq(t.lines, 1, entry.loaded) = SubSeq(s.lines, 1, entry.loaded)
    BY <1>1, <1>2, <2>1
  <2> QED BY <2>1, <2>2 DEF GoodEntry
<1> QED BY <1>1, <1>2, <1>3 DEF GoodEntry

\* So does a page of them.
LEMMA GoodPageStays ==
    ASSUME NEW s \in Sidecars, NEW t \in Sidecars, Grown(s, t),
           NEW m \in [Keys -> Nat], NEW n \in [Keys -> Nat], \A k \in Keys : m[k] <= n[k],
           NEW page, GoodPage(page, m, s)
    PROVE  GoodPage(page, n, t)
<1>1. ASSUME NEW k \in Keys PROVE GoodEntry(page[k], k, n[k], t)
  <2>1. m[k] \in Nat /\ n[k] \in Nat /\ m[k] <= n[k] /\ GoodEntry(page[k], k, m[k], s)
    BY DEF GoodPage
  <2> QED BY <2>1, GoodStays
<1> QED BY <1>1 DEF GoodPage

AsRegistered(entry, scicat) == [entry EXCEPT !.scicat = scicat]

\* What a builder makes of a sidecar that it can read is good.
LEMMA RebuiltGood ==
    ASSUME NEW s \in Sidecars, ~CorruptIn(s), NEW k \in Keys, NEW m \in Nat, NEW from,
           NEW scicat \in {m, Unregistered},
           NEW entry, entry = AsRegistered(Rebuilt(m, from, s.lines, k), scicat)
    PROVE  GoodEntry(entry, k, m, s) /\ entry.number = m
<1> DEFINE result == Outcome[from][k]
           attached == AppliedAttached(result, s.lines, k)
           review == AppliedReview(result, s.lines, k)
           summary == MatchSummary(attached, review)
<1>1. s.lines \in Seq(Decisions) /\ s.lines \in Seq(Lines)
  <2>1. s.lines \in Seq(Lines)
    BY DEF Sidecars
  <2>2. \A i \in 1..Len(s.lines) : s.lines[i] \in Decisions
    BY <2>1 DEF CorruptIn, Decisions
  <2> QED BY <2>1, <2>2
<1>2. entry = [number |-> m, from |-> from, loaded |-> Len(s.lines), scicat |-> scicat,
               shots |-> result.shots, attached |-> attached, review |-> review,
               marks |-> {}, summary |-> summary]
  <2>1. Rebuilt(m, from, s.lines, k) =
          [number |-> m, from |-> from, loaded |-> Len(s.lines), scicat |-> Unregistered,
           shots |-> result.shots, attached |-> attached, review |-> review,
           marks |-> {}, summary |-> summary]
    BY Zenon DEF Rebuilt
  <2>2. entry =
          [[number |-> m, from |-> from, loaded |-> Len(s.lines), scicat |-> Unregistered,
            shots |-> result.shots, attached |-> attached, review |-> review,
            marks |-> {}, summary |-> summary] EXCEPT !.scicat = scicat]
    BY <2>1, Zenon DEF AsRegistered
  <2> HIDE DEF result, attached, review, summary
  <2> QED BY <2>2
<1>3. SubSeq(s.lines, 1, Len(s.lines)) = s.lines
    BY <1>1
<1>4. \A r \in review : ItemFields \subseteq DOMAIN r /\ r.event \in Events
    BY DEF AppliedReview, ItemFields, ToReview
<1>5. ASSUME NEW e \in Events, e \in ToReview(result), Decided(s.lines, k, e, "confirm"),
             Winner(s.lines, k, e).shot \in result.shots
      PROVE  \E a \in attached : /\ a.event = e /\ a.by = "operator"
                                 /\ a.shot = Winner(s.lines, k, e).shot
  <2>1. e \in Confirmed(result, s.lines, k)
    BY <1>5 DEF Confirmed
  <2> DEFINE a == [event |-> e, shot |-> Winner(s.lines, k, e).shot, by |-> "operator",
                   level |-> Winner(s.lines, k, e).level]
  <2>2. a \in attached
    BY <2>1 DEF AppliedAttached
  <2>3. a.event = e /\ a.by = "operator" /\ a.shot = Winner(s.lines, k, e).shot
    OBVIOUS
  <2> HIDE DEF a, attached
  <2> QED BY <2>2, <2>3
<1>6. ASSUME NEW e \in Events, e \in ToReview(result), Decided(s.lines, k, e, "dismiss"),
             NEW r \in review, r.event = e
      PROVE  r.ack # NotAcked
  <2>1. r.ack = Winner(s.lines, k, e).level
    BY <1>6 DEF AppliedReview
  <2>2. Winner(s.lines, k, e).level \in 0..2
    BY <1>1, <1>6, WinnerIsARuling DEF Decided
  <2> QED BY <2>1, <2>2 DEF NotAcked
<1>7. /\ EntryFields \subseteq DOMAIN entry /\ entry.number = m /\ entry.from = from
      /\ entry.loaded = Len(s.lines) /\ entry.scicat = scicat
      /\ entry.attached = attached /\ entry.review = review
  <2> HIDE DEF result, attached, review, summary
  <2> QED BY <1>2 DEF EntryFields
<1>8. ShownIn(entry, k, s.lines)
  <2> HIDE DEF attached, review
  <2> QED BY <1>5, <1>6, <1>7 DEF ShownIn
<1>9. Len(s.lines) \in Nat /\ m <= m
    BY <1>1
<1>10. ShownIn(entry, k, SubSeq(s.lines, 1, entry.loaded))
    BY <1>3, <1>7, <1>8
<1> HIDE DEF result, attached, review, summary
<1> QED BY <1>4, <1>7, <1>9, <1>10 DEF GoodEntry

\* What a request does to an entry: it adds to what is attached, takes items
\* out of review or acknowledges them, and leaves what the build gave it.
Changed(old, new) ==
    /\ EntryFields \subseteq DOMAIN new
    /\ new.number = old.number /\ new.from = old.from /\ new.loaded = old.loaded
    /\ new.scicat = old.scicat /\ old.attached \subseteq new.attached
    /\ \A r \in new.review :
          r \in old.review
            \/ (ItemFields \subseteq DOMAIN r /\ r.event \in Events /\ r.ack # NotAcked)

\* A good entry stays good with any such change.
LEMMA ChangeKeeps ==
    ASSUME NEW s, NEW k, NEW m, NEW old, GoodEntry(old, k, m, s),
           NEW new, Changed(old, new)
    PROVE  GoodEntry(new, k, m, s)
<1>1. ASSUME ~CorruptIn(s)
      PROVE  ShownIn(new, k, SubSeq(s.lines, 1, new.loaded))
    BY <1>1 DEF GoodEntry, ShownIn, Changed
<1> QED BY <1>1 DEF GoodEntry, Changed

-----------------------------------------------------------------------------
(* The invariant. *)

Holding == {"register", "load", "lock", "merge"}

RequestOk(q, m, s) ==
    /\ {"at", "page", "decision"} \subseteq DOMAIN q
    /\ q.at \in {"idle", "write", "stage", "append", "truncate", "copy"}
    /\ q.at = "write" => /\ GoodPage(q.page, m, s)
                         /\ q.decision \in Lines \/ q.decision.action = "stage"
    /\ q.at \in {"append", "truncate", "copy"} => q.decision \in Lines
    /\ q.at \in {"truncate", "copy"} => Recorded(q.decision, s)

BuildOk(it, m, s) ==
    /\ {"at", "key", "from", "number", "entry", "scicat", "page"} \subseteq DOMAIN it
    /\ it.at \in {"idle", "publish"} \cup Holding
    /\ it.at # "idle" => it.key \in Keys
    /\ it.at \in Holding => it.number = m[it.key]
    /\ it.at = "load" => it.scicat \in {it.number, Unregistered}
    /\ it.at \in {"lock", "merge"} => /\ GoodEntry(it.entry, it.key, m[it.key], s)
                                      /\ it.entry.number = it.number
    /\ it.at = "merge" => GoodPage(it.page, m, s)

Typed ==
    /\ scene \in Scenes /\ sidecar \in Sidecars /\ master \in [Keys -> Nat]
    /\ DOMAIN requests = Workers /\ DOMAIN builds = Builders

\* single_writer_lock and catalog_write_lock keep builders apart ...
OneHolder ==
    \A b, c \in Builders :
        (builds[b].at \in Holding /\ builds[c].at \in Holding
           /\ builds[b].key = builds[c].key) => b = c
OneMerge ==
    \A b, c \in Builders : builds[b].at = "merge" /\ builds[c].at = "merge" => b = c

\* ... so that what is written under them is of the published masters.
NumbersCurrent(page) == \A k \in Keys \ (cut \cup reverted) : page[k].number = master[k]

IInv ==
    /\ Typed
    /\ GoodPage(catalog, master, sidecar) /\ NumbersCurrent(catalog)
    /\ \A w \in Workers : RequestOk(requests[w], master, sidecar)
    /\ \A b \in Builders : BuildOk(builds[b], master, sidecar)
    /\ OneHolder /\ OneMerge
    /\ \A b \in Builders : builds[b].at = "merge" => NumbersCurrent(builds[b].page)
    /\ \A d \in answered : Recorded(d, sidecar)

\* A sidecar nobody wrote to has grown, by nothing.
LEMMA GrownSame ==
    ASSUME NEW s \in Sidecars
    PROVE  Grown(s, s)
BY DEF Grown, Sidecars

\* A request that does nothing stays as good as it was, whatever the others do.
LEMMA RequestStays ==
    ASSUME NEW s \in Sidecars, NEW t \in Sidecars, Grown(s, t),
           NEW m \in [Keys -> Nat], NEW n \in [Keys -> Nat], \A k \in Keys : m[k] <= n[k],
           NEW q, RequestOk(q, m, s)
    PROVE  RequestOk(q, n, t)
<1>1. q.at = "write" => GoodPage(q.page, n, t)
    BY GoodPageStays DEF RequestOk
<1>2. q.at \in {"truncate", "copy"} => Recorded(q.decision, t)
    BY RecordedStays DEF RequestOk
<1> QED BY <1>1, <1>2 DEF RequestOk

\* So does a build whose master the others leave alone.
LEMMA BuildStays ==
    ASSUME NEW s \in Sidecars, NEW t \in Sidecars, Grown(s, t),
           NEW m \in [Keys -> Nat], NEW n \in [Keys -> Nat], \A k \in Keys : m[k] <= n[k],
           NEW it, BuildOk(it, m, s), it.at \in Holding => n[it.key] = m[it.key]
    PROVE  BuildOk(it, n, t)
<1>1. it.at = "merge" => GoodPage(it.page, n, t)
    BY GoodPageStays DEF BuildOk
<1>2. ASSUME it.at \in {"lock", "merge"}
      PROVE  GoodEntry(it.entry, it.key, n[it.key], t)
  <2>1. it.key \in Keys /\ GoodEntry(it.entry, it.key, m[it.key], s)
    BY <1>2 DEF BuildOk
  <2>2. m[it.key] \in Nat /\ n[it.key] \in Nat /\ m[it.key] <= n[it.key]
    BY <2>1
  <2> QED BY <2>1, <2>2, GoodStays
<1> QED BY <1>1, <1>2 DEF BuildOk, Holding

\* What holds after a step that only publishes masters and adds decisions.
LEMMA Frame ==
    ASSUME IInv, sidecar' \in Sidecars, Grown(sidecar, sidecar'),
           master' \in [Keys -> Nat], \A k \in Keys : master[k] <= master'[k]
    PROVE  /\ GoodPage(catalog, master', sidecar')
           /\ \A w \in Workers : RequestOk(requests[w], master', sidecar')
           /\ \A b \in Builders :
                (builds[b].at \in Holding => master'[builds[b].key] = master[builds[b].key]) =>
                   BuildOk(builds[b], master', sidecar')
           /\ \A d \in answered : Recorded(d, sidecar')
<1>1. sidecar \in Sidecars /\ master \in [Keys -> Nat]
    BY DEF IInv, Typed
<1>2. GoodPage(catalog, master', sidecar')
    BY <1>1, GoodPageStays DEF IInv
<1>3. ASSUME NEW w \in Workers PROVE RequestOk(requests[w], master', sidecar')
  <2>1. RequestOk(requests[w], master, sidecar)
    BY DEF IInv
  <2> QED BY <1>1, <2>1, RequestStays
<1>4. ASSUME NEW b \in Builders,
             builds[b].at \in Holding => master'[builds[b].key] = master[builds[b].key]
      PROVE  BuildOk(builds[b], master', sidecar')
  <2>1. BuildOk(builds[b], master, sidecar)
    BY DEF IInv
  <2> QED BY <1>1, <1>4, <2>1, BuildStays
<1>5. ASSUME NEW d \in answered PROVE Recorded(d, sidecar')
  <2>1. Recorded(d, sidecar)
    BY DEF IInv
  <2> QED BY <1>1, <2>1, RecordedStays
<1> QED BY <1>2, <1>3, <1>4, <1>5

\* A step of one request that leaves catalog and masters alone.
LEMMA RequestStep ==
    ASSUME IInv, UNCHANGED <<scene, master, catalog, builds, cut, reverted>>,
           sidecar' \in Sidecars, Grown(sidecar, sidecar'),
           NEW w \in Workers, DOMAIN requests' = Workers,
           \A v \in Workers \ {w} : requests'[v] = requests[v],
           RequestOk(requests'[w], master, sidecar'),
           \A d \in answered' : d \in answered \/ Recorded(d, sidecar')
    PROVE  IInv'
<1>1. /\ master \in [Keys -> Nat] /\ \A k \in Keys : master[k] <= master'[k]
      /\ master' \in [Keys -> Nat]
    BY DEF IInv, Typed
<1>2. /\ GoodPage(catalog, master', sidecar')
      /\ \A v \in Workers : RequestOk(requests[v], master', sidecar')
      /\ \A b \in Builders : BuildOk(builds[b], master', sidecar')
      /\ \A d \in answered : Recorded(d, sidecar')
    BY <1>1, Frame
<1>3. Typed'
    BY <1>1 DEF IInv, Typed
<1>4. GoodPage(catalog, master, sidecar)' /\ NumbersCurrent(catalog)'
    BY <1>2 DEF IInv, NumbersCurrent
<1>5. \A v \in Workers : RequestOk(requests[v], master, sidecar)'
    BY <1>2
<1>6. \A b \in Builders : BuildOk(builds[b], master, sidecar)'
    BY <1>2
<1>7. OneHolder' /\ OneMerge'
    BY DEF IInv, OneHolder, OneMerge
<1>8. \A b \in Builders : (builds[b].at = "merge" => NumbersCurrent(builds[b].page))'
    BY DEF IInv, NumbersCurrent
<1>9. \A d \in answered' : Recorded(d, sidecar')
    BY <1>2
<1> QED BY <1>3, <1>4, <1>5, <1>6, <1>7, <1>8, <1>9 DEF IInv

\* A step of one build that writes no file and takes no lock of a campaign.
LEMMA BuildStep ==
    ASSUME IInv, UNCHANGED <<scene, sidecar, master, catalog, requests, answered, cut, reverted>>,
           NEW b \in Builders, DOMAIN builds' = Builders,
           \A c \in Builders \ {b} : builds'[c] = builds[c],
           BuildOk(builds'[b], master, sidecar),
           builds'[b].at \in Holding =>
               builds[b].at \in Holding /\ builds'[b].key = builds[b].key,
           builds'[b].at = "merge" => /\ NumbersCurrent(builds'[b].page)
                                      /\ \A c \in Builders : builds[c].at # "merge"
    PROVE  IInv'
<1>1. Typed'
    BY DEF IInv, Typed
<1>2. GoodPage(catalog, master, sidecar)' /\ NumbersCurrent(catalog)'
    BY DEF IInv, NumbersCurrent
<1>3. \A w \in Workers : RequestOk(requests[w], master, sidecar)'
    BY DEF IInv
<1>4. \A c \in Builders : BuildOk(builds[c], master, sidecar)'
    BY DEF IInv
<1>5. OneHolder'
  <2>1. \A c \in Builders : builds'[c].at \in Holding =>
           builds[c].at \in Holding /\ builds'[c].key = builds[c].key
    OBVIOUS
  <2>2. ASSUME NEW x \in Builders, NEW y \in Builders, builds'[x].at \in Holding,
               builds'[y].at \in Holding, builds'[x].key = builds'[y].key
        PROVE  x = y
    <3>1. /\ builds[x].at \in Holding /\ builds[y].at \in Holding
          /\ builds[x].key = builds[y].key
      BY <2>1, <2>2
    <3> QED BY <3>1 DEF IInv, OneHolder
  <2> QED BY <2>2 DEF OneHolder
<1>6. OneMerge'
    BY DEF IInv, OneMerge
<1>7. \A c \in Builders : (builds[c].at = "merge" => NumbersCurrent(builds[c].page))'
    BY DEF IInv, NumbersCurrent
<1>8. \A d \in answered' : Recorded(d, sidecar')
    BY DEF IInv
<1> QED BY <1>1, <1>2, <1>3, <1>4, <1>5, <1>6, <1>7, <1>8 DEF IInv

-----------------------------------------------------------------------------
(* The requests. *)

\* WithReview changes what is attached, what is in review and the counts.
LEMMA WithReviewKeeps ==
    ASSUME NEW s, NEW k, NEW m, NEW old, GoodEntry(old, k, m, s),
           NEW attached, old.attached \subseteq attached,
           NEW review,
           \A r \in review :
              r \in old.review
                \/ (ItemFields \subseteq DOMAIN r /\ r.event \in Events /\ r.ack # NotAcked)
    PROVE  GoodEntry(WithReview(old, attached, review), k, m, s)
<1> DEFINE new == WithReview(old, attached, review)
<1>1. /\ EntryFields \subseteq DOMAIN new /\ new.number = old.number /\ new.from = old.from
      /\ new.loaded = old.loaded /\ new.scicat = old.scicat
      /\ new.attached = attached /\ new.review = review
    BY DEF GoodEntry, EntryFields, WithReview
<1> HIDE DEF new
<1>2. GoodEntry(new, k, m, s)
  <2>1. Changed(old, new)
    BY <1>1 DEF Changed
  <2> QED BY <2>1, ChangeKeeps
<1> QED BY <1>2 DEF new

\* A page with one good entry more is good, and so is the request that holds it.
LEMMA BeginOk ==
    ASSUME IInv, NEW w \in Workers, NEW k \in Keys, NEW entry, NEW d,
           GoodEntry(entry, k, master[k], sidecar), d \in Lines \/ d.action = "stage",
           Begin(w, k, entry, d)
    PROVE  IInv'
<1> DEFINE page == [catalog EXCEPT ![k] = entry]
           q == [at |-> "write", page |-> page, decision |-> d]
<1>1. GoodPage(page, master, sidecar)
    BY DEF IInv, GoodPage
<1>2. /\ q.at = "write" /\ q.page = page /\ q.decision = d
      /\ {"at", "page", "decision"} \subseteq DOMAIN q
  <2> HIDE DEF page
  <2> QED OBVIOUS
<1>3. requests' = [requests EXCEPT ![w] = q]
    BY Zenon DEF Begin
<1> HIDE DEF page, q
<1>4. RequestOk(q, master, sidecar)
    BY <1>1, <1>2 DEF RequestOk
<1>5. /\ UNCHANGED <<scene, master, catalog, builds, cut, reverted, answered>>
      /\ sidecar' = sidecar
    BY DEF Begin, files, history
<1>6. /\ DOMAIN requests' = Workers /\ requests'[w] = q
      /\ \A v \in Workers \ {w} : requests'[v] = requests[v]
    BY <1>3 DEF IInv, Typed
<1>7. sidecar' \in Sidecars /\ Grown(sidecar, sidecar')
    BY <1>5, GrownSame DEF IInv, Typed
<1> QED BY <1>4, <1>5, <1>6, <1>7, RequestStep

\* The edits leave what is attached and what is in review alone.
LEMMA EditOk ==
    ASSUME IInv, NEW w \in Workers, NEW k \in Keys, NEW kind, NEW then,
           then \in Lines \/ then.action = "stage", Edit(w, k, kind, then)
    PROVE  IInv'
<1> DEFINE old == catalog[k]
           new == [old EXCEPT !.marks = @ \cup {kind}]
<1>1. GoodEntry(old, k, master[k], sidecar)
    BY DEF IInv, GoodPage
<1>2. /\ EntryFields \subseteq DOMAIN new /\ new.number = old.number /\ new.from = old.from
      /\ new.loaded = old.loaded /\ new.scicat = old.scicat
      /\ new.attached = old.attached /\ new.review = old.review
    BY <1>1 DEF GoodEntry, EntryFields
<1>3. Begin(w, k, new, then)
    BY DEF Edit
<1> HIDE DEF new, old
<1>4. GoodEntry(new, k, master[k], sidecar)
  <2>1. Changed(old, new)
    BY <1>2 DEF Changed
  <2> QED BY <1>1, <2>1, ChangeKeeps
<1> QED BY <1>3, <1>4, BeginOk

\* A confirmed event leaves the review and is attached.
LEMMA ConfirmOk ==
    ASSUME IInv, NEW w \in Workers, NEW k \in Keys, NEW level \in scene.levels,
           NEW r \in catalog[k].review, NEW s \in Shots, Confirm(w, k, r, s, level)
    PROVE  IInv'
<1> DEFINE old == catalog[k]
           a == [event |-> r.event, shot |-> s, by |-> "operator", level |-> level]
           d == [key |-> k, event |-> r.event, action |-> "confirm", shot |-> s,
                 level |-> level]
           new == WithReview(old, old.attached \cup {a}, old.review \ {r})
<1>1. GoodEntry(old, k, master[k], sidecar)
    BY DEF IInv, GoodPage
<1>2. GoodEntry(new, k, master[k], sidecar)
  <2> DEFINE attached == old.attached \cup {a}
             review == old.review \ {r}
  <2>1. old.attached \subseteq attached
    OBVIOUS
  <2>2. \A i \in review : i \in old.review
    OBVIOUS
  <2> HIDE DEF old, a, attached, review
  <2>3. GoodEntry(WithReview(old, attached, review), k, master[k], sidecar)
    BY <1>1, <2>1, <2>2, WithReviewKeeps
  <2> QED BY <2>3 DEF attached, review
<1>3. d \in Lines
  <2>1. r.event \in Events
    BY <1>1 DEF GoodEntry
  <2>2. level \in 0..2
    BY ReviewConstants DEF IInv, Typed
  <2> QED BY <2>1, <2>2 DEF Lines
<1>4. Begin(w, k, new, d)
    BY Zenon DEF Confirm
<1> HIDE DEF new, d
<1> QED BY <1>2, <1>3, <1>4, BeginOk

\* A dismissed event stays in review, acknowledged.
LEMMA DismissOk ==
    ASSUME IInv, NEW w \in Workers, NEW k \in Keys, NEW level \in scene.levels,
           NEW r \in catalog[k].review, Dismiss(w, k, r, level)
    PROVE  IInv'
<1> DEFINE old == catalog[k]
           item == [r EXCEPT !.ack = level]
           d == [key |-> k, event |-> r.event, action |-> "dismiss", shot |-> "-",
                 level |-> level]
           new == WithReview(old, old.attached, (old.review \ {r}) \cup {item})
<1>1. GoodEntry(old, k, master[k], sidecar)
    BY DEF IInv, GoodPage
<1>2. ItemFields \subseteq DOMAIN r /\ r.event \in Events
    BY <1>1 DEF GoodEntry
<1>3. level \in 0..2
    BY ReviewConstants DEF IInv, Typed
<1>4. ItemFields \subseteq DOMAIN item /\ item.event \in Events /\ item.ack # NotAcked
    BY <1>2, <1>3 DEF ItemFields, NotAcked
<1>5. GoodEntry(new, k, master[k], sidecar)
  <2> DEFINE review == (old.review \ {r}) \cup {item}
  <2>1. \A i \in review : i \in old.review \/ i = item
    OBVIOUS
  <2> HIDE DEF old, item, review
  <2>2. GoodEntry(WithReview(old, old.attached, review), k, master[k], sidecar)
    BY <1>1, <1>4, <2>1, WithReviewKeeps
  <2> QED BY <2>2 DEF review
<1>6. d \in Lines
    BY <1>2, <1>3 DEF Lines
<1>7. Begin(w, k, new, d)
    BY Zenon DEF Dismiss
<1> HIDE DEF new, d
<1> QED BY <1>5, <1>6, <1>7, BeginOk

\* Every request keeps the invariant.
LEMMA RequestOfOperator ==
    ASSUME IInv, NEW w \in Workers, Request(w)
    PROVE  IInv'
<1>1. PICK k \in Keys :
         \/ \E level \in scene.levels, r \in catalog[k].review :
               \/ Dismiss(w, k, r, level)
               \/ \E s \in Shots : Confirm(w, k, r, s, level)
         \/ UpdateStatus(w, k) \/ UpdateMetadata(w, k)
         \/ AppendEmulatedShot(w, k) \/ EnrichLatestShot(w, k)
    BY DEF Request
<1>2. Junk \in Lines
    BY DEF Lines
<1>3. Staging(k).action = "stage"
    BY DEF Staging, Junk
<1>4. CASE UpdateStatus(w, k) \/ UpdateMetadata(w, k)
    BY <1>2, <1>4, EditOk DEF UpdateStatus, UpdateMetadata
<1>5. CASE AppendEmulatedShot(w, k) \/ EnrichLatestShot(w, k)
    BY <1>3, <1>5, EditOk DEF AppendEmulatedShot, EnrichLatestShot
<1> QED BY <1>1, <1>4, <1>5, ConfirmOk, DismissOk

\* The page replaces the catalog: whatever it reverts is noted.
LEMMA WriteCatalogOk ==
    ASSUME IInv, NEW w \in Workers, WriteCatalog(w)
    PROVE  IInv'
<1> DEFINE q == requests[w]
<1>1. /\ RequestOk(q, master, sidecar) /\ q.at = "write" /\ catalog' = q.page
      /\ UNCHANGED <<scene, master, sidecar, builds, answered, cut>>
      /\ reverted' = reverted \cup {k \in Keys : catalog'[k].number < catalog[k].number}
    BY DEF IInv, WriteCatalog
<1>2. GoodPage(catalog, master, sidecar)'
    BY <1>1 DEF RequestOk
<1>3. NumbersCurrent(catalog)'
  <2>1. SUFFICES ASSUME NEW k \in Keys, k \notin cut' \cup reverted'
                 PROVE  catalog'[k].number = master'[k]
    BY DEF NumbersCurrent
  <2>2. catalog[k].number = master[k] /\ master[k] \in Nat
    BY <1>1, <2>1 DEF IInv, NumbersCurrent, Typed
  <2>3. catalog'[k].number \in Nat /\ catalog'[k].number <= master[k]
    BY <1>1, <1>2 DEF GoodPage, GoodEntry
  <2>4. ~(catalog'[k].number < catalog[k].number)
    BY <1>1, <2>1
  <2> QED BY <1>1, <2>2, <2>3, <2>4
<1>4. \A b \in Builders : (builds[b].at = "merge" => NumbersCurrent(builds[b].page))'
    BY <1>1 DEF IInv, NumbersCurrent
<1>5. RequestOk(requests'[w], master, sidecar)
  <2>1. w \in DOMAIN requests /\ {"at", "page", "decision"} \subseteq DOMAIN q
    BY <1>1 DEF IInv, Typed, RequestOk
  <2>2. CASE q.decision = Junk
    <3>1. requests'[w] = NoRequest
      BY <2>1, <2>2 DEF WriteCatalog
    <3> QED BY <3>1 DEF RequestOk, NoRequest
  <2>3. CASE q.decision # Junk
    <3>1. requests'[w] = [q EXCEPT !.page = <<>>, !.at = NextOf(w)]
      BY <2>1, <2>3 DEF WriteCatalog
    <3>2. /\ {"at", "page", "decision"} \subseteq DOMAIN requests'[w]
          /\ requests'[w].at = NextOf(w) /\ requests'[w].decision = q.decision
      BY <2>1, <3>1
    <3>3. \/ NextOf(w) = "stage"
          \/ NextOf(w) = "append" /\ q.decision \in Lines
      BY <1>1 DEF NextOf, RequestOk
    <3> QED BY <3>2, <3>3 DEF RequestOk
  <2> QED BY <2>2, <2>3
<1>6. \A v \in Workers : RequestOk(requests[v], master, sidecar)'
  <2>1. \A v \in Workers \ {w} : requests'[v] = requests[v]
    BY DEF WriteCatalog, IInv, Typed
  <2> QED BY <1>1, <1>5, <2>1 DEF IInv
<1>7. Typed'
  <2>1. DOMAIN requests' = Workers
    BY DEF WriteCatalog, IInv, Typed
  <2> QED BY <1>1, <2>1 DEF IInv, Typed
<1>8. \A b \in Builders : BuildOk(builds[b], master, sidecar)'
    BY <1>1 DEF IInv
<1>9. OneHolder' /\ OneMerge'
    BY <1>1 DEF IInv, OneHolder, OneMerge
<1>10. \A d \in answered' : Recorded(d, sidecar')
    BY <1>1 DEF IInv
<1> QED BY <1>2, <1>3, <1>4, <1>6, <1>7, <1>8, <1>9, <1>10 DEF IInv

\* An API process without a request holds nothing that could go stale.
LEMMA IdleRequest ==
    ASSUME NEW m, NEW s
    PROVE  RequestOk(NoRequest, m, s)
BY DEF RequestOk, NoRequest

\* So does every step of serving one.
LEMMA ServeOk ==
    ASSUME IInv, NEW w \in Workers, Serve(w)
    PROVE  IInv'
<1> DEFINE d == requests[w].decision
<1>1. RequestOk(requests[w], master, sidecar) /\ sidecar \in Sidecars
    BY DEF IInv, Typed
<1>2. CASE StageEvent(w)
  <2>1. /\ UNCHANGED <<scene, master, catalog, builds, cut, reverted, answered>>
        /\ sidecar' = sidecar /\ requests' = [requests EXCEPT ![w] = NoRequest]
    BY <1>2 DEF StageEvent, history
  <2>2. /\ DOMAIN requests' = Workers /\ requests'[w] = NoRequest
        /\ \A v \in Workers \ {w} : requests'[v] = requests[v]
    BY <2>1 DEF IInv, Typed
  <2>3. RequestOk(requests'[w], master, sidecar')
    BY <2>2, IdleRequest
  <2>4. sidecar' \in Sidecars /\ Grown(sidecar, sidecar')
    BY <1>1, <2>1, GrownSame
  <2> QED BY <2>1, <2>2, <2>3, <2>4, RequestStep
<1>3. CASE AppendDecision(w)
  <2>1. /\ UNCHANGED <<scene, master, catalog, builds, cut, reverted, answered>>
        /\ sidecar' = Appended(sidecar, d) /\ requests[w].at = "append"
        /\ requests' = [requests EXCEPT ![w].at = "truncate"]
    BY <1>3 DEF AppendDecision, history
  <2>2. d \in Lines
    BY <1>1, <2>1 DEF RequestOk
  <2>4. sidecar' \in Sidecars /\ Grown(sidecar, sidecar') /\ Recorded(d, sidecar')
    BY <1>1, <2>1, <2>2, AppendedGrows
  <2>5. /\ DOMAIN requests' = Workers
        /\ \A v \in Workers \ {w} : requests'[v] = requests[v]
        /\ {"at", "page", "decision"} \subseteq DOMAIN requests'[w]
        /\ requests'[w].at = "truncate" /\ requests'[w].decision = d
    BY <2>1 DEF IInv, Typed, RequestOk
  <2>6. RequestOk(requests'[w], master, sidecar')
    BY <2>2, <2>4, <2>5 DEF RequestOk
  <2> QED BY <2>1, <2>4, <2>5, <2>6, RequestStep
<1>4. CASE TruncateBackup(w)
  <2>1. /\ UNCHANGED <<scene, master, catalog, builds, cut, reverted, answered>>
        /\ sidecar' = sidecar /\ requests[w].at = "truncate"
        /\ requests' = [requests EXCEPT ![w].at = "copy"]
    BY <1>4 DEF TruncateBackup, history
  <2>2. /\ DOMAIN requests' = Workers
        /\ \A v \in Workers \ {w} : requests'[v] = requests[v]
        /\ {"at", "page", "decision"} \subseteq DOMAIN requests'[w]
        /\ requests'[w].at = "copy" /\ requests'[w].decision = d
    BY <2>1 DEF IInv, Typed, RequestOk
  <2>3. RequestOk(requests'[w], master, sidecar')
    BY <1>1, <2>1, <2>2 DEF RequestOk
  <2>4. sidecar' \in Sidecars /\ Grown(sidecar, sidecar')
    BY <1>1, <2>1, GrownSame
  <2> QED BY <2>1, <2>2, <2>3, <2>4, RequestStep
<1>5. CASE CopyBackup(w)
  <2>1. /\ UNCHANGED <<scene, master, catalog, builds, cut, reverted>>
        /\ answered' = answered \cup {d} /\ sidecar' = sidecar /\ requests[w].at = "copy"
        /\ requests' = [requests EXCEPT ![w] = NoRequest]
    BY <1>5 DEF CopyBackup
  <2>2. /\ DOMAIN requests' = Workers /\ requests'[w] = NoRequest
        /\ \A v \in Workers \ {w} : requests'[v] = requests[v]
    BY <2>1 DEF IInv, Typed
  <2>3. RequestOk(requests'[w], master, sidecar')
    BY <2>2, IdleRequest
  <2>4. sidecar' \in Sidecars /\ Grown(sidecar, sidecar')
    BY <1>1, <2>1, GrownSame
  <2>5. \A x \in answered' : x \in answered \/ Recorded(x, sidecar')
    BY <1>1, <2>1 DEF RequestOk
  <2> QED BY <2>1, <2>2, <2>3, <2>4, <2>5, RequestStep
<1> QED BY <1>2, <1>3, <1>4, <1>5, WriteCatalogOk DEF Serve

\* A request that fails can leave the sidecar cut short.
LEMMA RequestDiesOk ==
    ASSUME IInv, NEW w \in Workers, RequestDies(w)
    PROVE  IInv'
<1> DEFINE d == requests[w].decision
<1>1. /\ UNCHANGED <<scene, master, catalog, builds, cut, reverted, answered>>
      /\ requests' = [requests EXCEPT ![w] = NoRequest]
    BY DEF RequestDies, history
<1>2. /\ DOMAIN requests' = Workers /\ requests'[w] = NoRequest
      /\ \A v \in Workers \ {w} : requests'[v] = requests[v]
    BY <1>1 DEF IInv, Typed
<1>3. RequestOk(requests'[w], master, sidecar')
    BY <1>2, IdleRequest
<1>4. sidecar' \in Sidecars /\ Grown(sidecar, sidecar')
  <2>1. RequestOk(requests[w], master, sidecar) /\ sidecar \in Sidecars
    BY DEF IInv, Typed
  <2>2. CASE requests[w].at = "append"
    <3>1. d \in Lines /\ sidecar' \in CutShort(sidecar, d)
      BY <2>1, <2>2 DEF RequestOk, RequestDies
    <3> QED BY <2>1, <3>1, CutShortGrows
  <2>3. CASE requests[w].at # "append"
    BY <2>1, <2>3, GrownSame DEF RequestDies
  <2> QED BY <2>2, <2>3
<1> QED BY <1>1, <1>2, <1>3, <1>4, RequestStep

-----------------------------------------------------------------------------
(* The builds. *)

\* A builder process without a build holds nothing either.
LEMMA IdleBuild ==
    ASSUME NEW m, NEW s
    PROVE  BuildOk(NoBuild, m, s) /\ NoBuild.at = "idle"
BY DEF BuildOk, NoBuild, Holding

\* The holder of both locks writes the entry of the master it published.
LEMMA MergeOk ==
    ASSUME IInv, NEW b \in Builders, Merge(b)
    PROVE  IInv'
<1> DEFINE it == builds[b]
<1>1. /\ BuildOk(it, master, sidecar) /\ it.at = "merge" /\ NumbersCurrent(it.page)
      /\ master \in [Keys -> Nat] /\ DOMAIN builds = Builders
    BY DEF IInv, Merge, Typed
<1>2. /\ catalog' = [it.page EXCEPT ![it.key] = it.entry]
      /\ cut' = cut \ {it.key} /\ reverted' = reverted \ {it.key}
      /\ builds' = [builds EXCEPT ![b] = NoBuild]
      /\ UNCHANGED <<scene, master, sidecar, requests, answered>>
    BY DEF Merge
<1>3. /\ it.key \in Keys /\ GoodEntry(it.entry, it.key, master[it.key], sidecar)
      /\ it.entry.number = master[it.key] /\ GoodPage(it.page, master, sidecar)
    BY <1>1 DEF BuildOk, Holding
<1>4. DOMAIN catalog' = Keys /\ catalog'[it.key] = it.entry
      /\ \A k \in Keys \ {it.key} : catalog'[k] = it.page[k]
    BY <1>2, <1>3 DEF GoodPage
<1>5. GoodPage(catalog, master, sidecar)'
    BY <1>2, <1>3, <1>4 DEF GoodPage
<1>6. NumbersCurrent(catalog)'
    BY <1>1, <1>2, <1>3, <1>4 DEF NumbersCurrent
<1>7. /\ DOMAIN builds' = Builders /\ builds'[b] = NoBuild /\ builds'[b].at = "idle"
      /\ \A c \in Builders \ {b} : builds'[c] = builds[c] /\ builds[c].at # "merge"
  <2>1. \A c \in Builders \ {b} : builds[c].at # "merge"
    BY <1>1 DEF IInv, OneMerge
  <2> QED BY <1>1, <1>2, <2>1, IdleBuild
<1>8. \A c \in Builders : BuildOk(builds[c], master, sidecar)'
    BY <1>2, <1>7, IdleBuild DEF IInv
<1>9. OneHolder' /\ OneMerge'
    BY <1>7 DEF IInv, OneHolder, OneMerge, Holding
<1>10. \A c \in Builders : (builds[c].at = "merge" => NumbersCurrent(builds[c].page))'
    BY <1>7
<1>11. Typed' /\ \A w \in Workers : RequestOk(requests[w], master, sidecar)'
    BY <1>2, <1>7 DEF IInv, Typed
<1>12. \A d \in answered' : Recorded(d, sidecar')
    BY <1>2 DEF IInv
<1> QED BY <1>5, <1>6, <1>8, <1>9, <1>10, <1>11, <1>12 DEF IInv

\* A new master leaves the entries behind, and notes it; no other build holds the key.
LEMMA PublishMasterOk ==
    ASSUME IInv, NEW b \in Builders, PublishMaster(b)
    PROVE  IInv'
<1> DEFINE k == builds[b].key
<1>1. /\ BuildOk(builds[b], master, sidecar) /\ builds[b].at = "publish" /\ ~Locked(k)
      /\ master \in [Keys -> Nat] /\ DOMAIN builds = Builders /\ sidecar \in Sidecars
    BY DEF IInv, PublishMaster, Typed
<1>2. k \in Keys
    BY <1>1 DEF BuildOk
<1>3. /\ master' = [master EXCEPT ![k] = @ + 1] /\ cut' = cut \cup {k}
      /\ builds' = [builds EXCEPT ![b].at = "register", ![b].number = master[k] + 1]
      /\ UNCHANGED <<scene, catalog, sidecar, requests, answered, reverted>>
    BY DEF PublishMaster
<1>4. /\ master' \in [Keys -> Nat] /\ master'[k] = master[k] + 1
      /\ \A j \in Keys : master[j] <= master'[j]
      /\ \A j \in Keys \ {k} : master'[j] = master[j]
    BY <1>1, <1>2, <1>3
<1>5. sidecar' \in Sidecars /\ Grown(sidecar, sidecar')
    BY <1>1, <1>3, GrownSame
<1>6. /\ GoodPage(catalog, master', sidecar')
      /\ \A w \in Workers : RequestOk(requests[w], master', sidecar')
      /\ \A c \in Builders :
           (builds[c].at \in Holding => master'[builds[c].key] = master[builds[c].key]) =>
              BuildOk(builds[c], master', sidecar')
      /\ \A d \in answered : Recorded(d, sidecar')
    BY <1>4, <1>5, Frame
<1>7. /\ DOMAIN builds' = Builders
      /\ \A c \in Builders \ {b} : builds'[c] = builds[c]
      /\ builds'[b] = [builds[b] EXCEPT !.at = "register", !.number = master[k] + 1]
    BY <1>1, <1>3
<1>8. /\ builds'[b].at = "register" /\ builds'[b].number = master[k] + 1
      /\ builds'[b].key = k
      /\ {"at", "key", "from", "number", "entry", "scicat", "page"} \subseteq DOMAIN builds'[b]
    BY <1>1, <1>7 DEF BuildOk
<1>9. \A c \in Builders : builds[c].at \in Holding => builds[c].key \in Keys \ {k}
    BY <1>1 DEF IInv, BuildOk, Locked, Holding
<1>10. ASSUME NEW c \in Builders PROVE BuildOk(builds[c], master, sidecar)'
  <2>1. CASE c = b
    BY <1>2, <1>4, <1>8, <2>1 DEF BuildOk, Holding
  <2>2. CASE c # b
    BY <1>4, <1>6, <1>7, <1>9, <2>2
  <2> QED BY <2>1, <2>2
<1>11. NumbersCurrent(catalog)'
    BY <1>3, <1>4 DEF IInv, NumbersCurrent
<1>12. \A c \in Builders : (builds[c].at = "merge" => NumbersCurrent(builds[c].page))'
    BY <1>3, <1>4, <1>7, <1>8 DEF IInv, NumbersCurrent
<1>13. OneHolder'
  <2>1. SUFFICES ASSUME NEW x \in Builders, NEW y \in Builders, builds'[x].at \in Holding,
                        builds'[y].at \in Holding, builds'[x].key = builds'[y].key
                 PROVE  x = y
    BY DEF OneHolder
  <2>2. CASE x # b /\ y # b
    <3>1. builds'[x] = builds[x] /\ builds'[y] = builds[y]
      BY <1>7, <2>2
    <3> QED BY <2>1, <3>1 DEF IInv, OneHolder
  <2>3. CASE x = b \/ y = b
    <3>1. \A c \in Builders \ {b} : builds'[c].at \in Holding => builds'[c].key # k
      BY <1>7, <1>9
    <3> QED BY <1>8, <2>1, <2>3, <3>1
  <2> QED BY <2>2, <2>3
<1>14. OneMerge'
    BY <1>7, <1>8 DEF IInv, OneMerge
<1>15. Typed' /\ GoodPage(catalog, master, sidecar)'
    BY <1>3, <1>4, <1>5, <1>6, <1>7 DEF IInv, Typed
<1>16. \A w \in Workers : RequestOk(requests[w], master, sidecar)'
    BY <1>3, <1>6
<1>17. \A d \in answered' : Recorded(d, sidecar')
    BY <1>3, <1>6
<1> QED BY <1>10, <1>11, <1>12, <1>13, <1>14, <1>15, <1>16, <1>17 DEF IInv

\* A build that ends, or is one no more.
LEMMA EndsOk ==
    ASSUME IInv, NEW b \in Builders, builds' = [builds EXCEPT ![b] = NoBuild],
           UNCHANGED <<scene, sidecar, master, catalog, requests, answered, cut, reverted>>
    PROVE  IInv'
<1>1. /\ DOMAIN builds' = Builders /\ builds'[b] = NoBuild
      /\ \A c \in Builders \ {b} : builds'[c] = builds[c]
    BY DEF IInv, Typed
<1>2. BuildOk(builds'[b], master, sidecar) /\ builds'[b].at = "idle"
    BY <1>1, IdleBuild
<1>3. builds'[b].at \notin Holding /\ builds'[b].at # "merge"
    BY <1>2 DEF Holding
<1> QED BY <1>1, <1>2, <1>3, BuildStep

\* A build that has begun holds no lock yet.
LEMMA StartBuildOk ==
    ASSUME IInv, NEW b \in Builders, NEW k \in Keys, StartBuild(b, k)
    PROVE  IInv'
<1> DEFINE it == [NoBuild EXCEPT !.at = "publish", !.key = k, !.from = input]
<1>1. /\ builds' = [builds EXCEPT ![b] = it]
      /\ UNCHANGED <<scene, sidecar, master, catalog, requests, answered, cut, reverted>>
    BY DEF StartBuild, files, history
<1>2. /\ it.at = "publish" /\ it.key = k
      /\ {"at", "key", "from", "number", "entry", "scicat", "page"} \subseteq DOMAIN it
    BY DEF NoBuild
<1> HIDE DEF it
<1>3. /\ DOMAIN builds' = Builders /\ builds'[b] = it
      /\ \A c \in Builders \ {b} : builds'[c] = builds[c]
    BY <1>1 DEF IInv, Typed
<1>4. BuildOk(builds'[b], master, sidecar) /\ builds'[b].at \notin Holding
    BY <1>2, <1>3 DEF BuildOk, Holding
<1>5. builds'[b].at # "merge"
    BY <1>2, <1>3
<1> QED BY <1>1, <1>3, <1>4, <1>5, BuildStep

\* What is registered, if anything, is the master just published.
LEMMA RegisterOk ==
    ASSUME IInv, NEW b \in Builders, RegisterScicat(b)
    PROVE  IInv'
<1> DEFINE it == builds[b]
<1>1. PICK registered \in Registrations(it, catalog[it.key].scicat) :
         builds' = [builds EXCEPT ![b].at = "load", ![b].scicat = registered]
    BY DEF RegisterScicat
<1>2. /\ it.at = "register" /\ BuildOk(it, master, sidecar) /\ DOMAIN builds = Builders
      /\ UNCHANGED <<scene, sidecar, master, catalog, requests, answered, cut, reverted>>
    BY DEF RegisterScicat, files, history, IInv, Typed
<1>3. registered \in {it.number, Unregistered}
    BY <1>1 DEF Registrations
<1>4. /\ DOMAIN builds' = Builders
      /\ builds'[b] = [it EXCEPT !.at = "load", !.scicat = registered]
      /\ \A c \in Builders \ {b} : builds'[c] = builds[c]
    BY <1>1, <1>2
<1>5. /\ builds'[b].at = "load" /\ builds'[b].scicat = registered
      /\ builds'[b].key = it.key /\ builds'[b].number = it.number
      /\ {"at", "key", "from", "number", "entry", "scicat", "page"} \subseteq DOMAIN builds'[b]
    BY <1>2, <1>4 DEF BuildOk
<1>6. BuildOk(builds'[b], master, sidecar)
    BY <1>2, <1>3, <1>5 DEF BuildOk, Holding
<1>7. it.at \in Holding /\ builds'[b].at # "merge"
    BY <1>2, <1>5 DEF Holding
<1> QED BY <1>2, <1>4, <1>5, <1>6, <1>7, BuildStep

\* The entry is made of decisions that could all be read, or the build ends.
LEMMA LoadOk ==
    ASSUME IInv, NEW b \in Builders, LoadDecisions(b)
    PROVE  IInv'
<1> DEFINE it == builds[b]
           entry == [Rebuilt(it.number, it.from, sidecar.lines, it.key)
                       EXCEPT !.scicat = it.scicat]
<1>1. /\ it.at = "load" /\ BuildOk(it, master, sidecar) /\ DOMAIN builds = Builders
      /\ master \in [Keys -> Nat] /\ sidecar \in Sidecars
      /\ UNCHANGED <<scene, sidecar, master, catalog, requests, answered, cut, reverted>>
    BY DEF LoadDecisions, files, history, IInv, Typed
<1>2. CASE Corrupt
    BY <1>1, <1>2, EndsOk DEF LoadDecisions
<1>3. CASE ~Corrupt
  <2>1. builds' = [builds EXCEPT ![b] = [it EXCEPT !.at = "lock", !.entry = entry]]
    BY <1>3, Zenon DEF LoadDecisions
  <2>2. /\ it.key \in Keys /\ it.number = master[it.key] /\ it.number \in Nat
        /\ it.scicat \in {it.number, Unregistered} /\ ~CorruptIn(sidecar)
    BY <1>1, <1>3 DEF BuildOk, Holding, Corrupt, CorruptIn
  <2>3. GoodEntry(entry, it.key, it.number, sidecar) /\ entry.number = it.number
    <3>1. entry = AsRegistered(Rebuilt(it.number, it.from, sidecar.lines, it.key), it.scicat)
      BY Zenon DEF AsRegistered
    <3>2. PICK key, number, from, scicat :
             key = it.key /\ number = it.number /\ from = it.from /\ scicat = it.scicat
      OBVIOUS
    <3>3. /\ sidecar \in Sidecars /\ ~CorruptIn(sidecar) /\ key \in Keys
          /\ number \in Nat /\ scicat \in {number, Unregistered}
      BY <1>1, <2>2, <3>2
    <3>4. entry = AsRegistered(Rebuilt(number, from, sidecar.lines, key), scicat)
      BY <3>1, <3>2, Zenon
    <3> HIDE DEF entry, it
    <3>5. GoodEntry(entry, key, number, sidecar) /\ entry.number = number
      BY <3>3, <3>4, RebuiltGood
    <3> QED BY <3>2, <3>5, Zenon
  <2> HIDE DEF entry
  <2>4. /\ DOMAIN builds' = Builders
        /\ builds'[b] = [it EXCEPT !.at = "lock", !.entry = entry]
        /\ \A c \in Builders \ {b} : builds'[c] = builds[c]
    BY <1>1, <2>1
  <2>5. /\ builds'[b].at = "lock" /\ builds'[b].entry = entry
        /\ builds'[b].key = it.key /\ builds'[b].number = it.number
        /\ {"at", "key", "from", "number", "entry", "scicat", "page"} \subseteq DOMAIN builds'[b]
    BY <1>1, <2>4 DEF BuildOk
  <2>6. BuildOk(builds'[b], master, sidecar)
    BY <2>2, <2>3, <2>5 DEF BuildOk, Holding
  <2>7. it.at \in Holding /\ builds'[b].at # "merge"
    BY <1>1, <2>5 DEF Holding
  <2> QED BY <1>1, <2>4, <2>5, <2>6, <2>7, BuildStep
<1> QED BY <1>2, <1>3

\* The page read under the catalog's lock is current.
LEMMA LockCatalogOk ==
    ASSUME IInv, NEW b \in Builders, LockCatalog(b)
    PROVE  IInv'
<1> DEFINE it == builds[b]
<1>1. /\ it.at = "lock" /\ BuildOk(it, master, sidecar) /\ DOMAIN builds = Builders
      /\ GoodPage(catalog, master, sidecar) /\ NumbersCurrent(catalog)
      /\ builds' = [builds EXCEPT ![b].at = "merge", ![b].page = catalog]
      /\ \A c \in Builders : builds[c].at # "merge"
      /\ UNCHANGED <<scene, sidecar, master, catalog, requests, answered, cut, reverted>>
    BY DEF LockCatalog, CatalogLocked, files, history, IInv, Typed
<1>2. /\ DOMAIN builds' = Builders
      /\ builds'[b] = [it EXCEPT !.at = "merge", !.page = catalog]
      /\ \A c \in Builders \ {b} : builds'[c] = builds[c]
    BY <1>1
<1>3. /\ builds'[b].at = "merge" /\ builds'[b].page = catalog
      /\ builds'[b].key = it.key /\ builds'[b].number = it.number
      /\ builds'[b].entry = it.entry
      /\ {"at", "key", "from", "number", "entry", "scicat", "page"} \subseteq DOMAIN builds'[b]
    BY <1>1, <1>2 DEF BuildOk
<1>4. BuildOk(builds'[b], master, sidecar)
    BY <1>1, <1>3 DEF BuildOk, Holding
<1>5. it.at \in Holding
    BY <1>1 DEF Holding
<1>6. NumbersCurrent(builds'[b].page)
    BY <1>1, <1>3
<1> QED BY <1>1, <1>2, <1>3, <1>4, <1>5, <1>6, BuildStep

\* Every step of a build keeps the invariant.
LEMMA WorkOk ==
    ASSUME IInv, NEW b \in Builders, Work(b)
    PROVE  IInv'
<1>1. CASE BuildRefused(b)
    BY <1>1, EndsOk DEF BuildRefused, files, history
<1> QED BY <1>1, PublishMasterOk, RegisterOk, LoadOk, LockCatalogOk, MergeOk DEF Work

-----------------------------------------------------------------------------
(* One thing at a time: what the request handlers make of an entry is what *)
(* a build of the same inputs would make of it.                            *)

Of(items, e) == {x \in items : x.event = e}
Item(result, e, ack) ==
    [event |-> e, status |-> result.status[e], candidates |-> result.places[e], ack |-> ack]
Place(e, s, level) == [event |-> e, shot |-> s, by |-> "operator", level |-> level]

LatestIn(lines, k, e) ==
    LET mine == Rulings(lines, k, e)
    IN lines[CHOOSE i \in mine : \A j \in mine : j <= i]
\* The latest decision on the event is the one that wins, or there is none.
Settled(lines, k, e) ==
    Rulings(lines, k, e) # {} => LatestIn(lines, k, e) = Winner(lines, k, e)

\* An entry of its inputs: its counts are of what it lists, and an event in
\* review is there once, as the inputs have it, and is not attached.
Whole(entry, k) ==
    LET result == Outcome[entry.from][k] IN
    /\ entry.shots = result.shots
    /\ entry.summary = MatchSummary(entry.attached, entry.review)
    /\ \A a \in entry.attached : a.event \in Events
    /\ \A r \in entry.review :
          /\ r.event \in ToReview(result) /\ \E ack : r = Item(result, r.event, ack)
          /\ Of(entry.review, r.event) = {r} /\ Of(entry.attached, r.event) = {}

\* ... and shows each settled event as a build with these decisions would.
ShowsAs(entry, k, lines, e) ==
    LET result == Outcome[entry.from][k] IN
    /\ Of(entry.attached, e) = Of(AppliedAttached(result, lines, k), e)
    /\ Of(entry.review, e) = Of(AppliedReview(result, lines, k), e)

Agrees(entry, k, lines) ==
    /\ EntryFields \subseteq DOMAIN entry
    /\ Whole(entry, k)
    /\ \A e \in Events : Settled(lines, k, e) => ShowsAs(entry, k, lines, e)

IsLast(lines, k, e, i) == \A j \in Rulings(lines, k, e) : j <= i

\* The latest is the one with the greatest number.
LEMMA LatestIs ==
    ASSUME NEW lines \in Seq(Decisions), NEW k, NEW e,
           NEW i \in Rulings(lines, k, e), IsLast(lines, k, e, i)
    PROVE  LatestIn(lines, k, e) = lines[i]
<1> DEFINE mine == Rulings(lines, k, e)
           last == CHOOSE n \in mine : \A j \in mine : j <= n
<1>1. LatestIn(lines, k, e) = lines[last]
    BY Zenon DEF LatestIn
<1>2. last \in mine /\ i \in mine /\ (\A j \in mine : j <= last) /\ \A j \in mine : j <= i
  <2>1. i \in mine /\ \A j \in mine : j <= i
    BY DEF IsLast
  <2> HIDE DEF mine
  <2> QED BY <2>1
<1>3. mine \subseteq 1..Len(lines) /\ Len(lines) \in Nat
    BY DEF Rulings
<1>4. last = i
  <2>1. last <= i /\ i <= last
    BY <1>2
  <2> HIDE DEF last, mine
  <2> QED BY <1>2, <1>3, <2>1
<1> QED BY <1>1, <1>4

\* There is one, if the event was decided on at all.
LEMMA OneIsLatest ==
    ASSUME NEW lines \in Seq(Decisions), NEW k, NEW e, Rulings(lines, k, e) # {}
    PROVE  \E i \in Rulings(lines, k, e) : IsLast(lines, k, e, i)
<1>1. Rulings(lines, k, e) \in SUBSET (0..Len(lines)) /\ Len(lines) \in Nat
    BY DEF Rulings
<1> QED BY <1>1, Greatest DEF IsLast

\* A decision on something else changes nothing of an event's rulings ...
LEMMA OthersRuling ==
    ASSUME NEW lines \in Seq(Decisions), NEW d \in Decisions, NEW k, NEW e,
           d.key # k \/ d.event # e
    PROVE  /\ Rulings(Append(lines, d), k, e) = Rulings(lines, k, e)
           /\ Rulings(lines, k, e) # {} =>
                 /\ Winner(Append(lines, d), k, e) = Winner(lines, k, e)
                 /\ LatestIn(Append(lines, d), k, e) = LatestIn(lines, k, e)
<1> DEFINE more == Append(lines, d)
<1>1. /\ more \in Seq(Decisions) /\ Len(more) = Len(lines) + 1 /\ more[Len(more)] = d
      /\ Len(lines) \in Nat /\ \A i \in 1..Len(lines) : more[i] = lines[i]
    OBVIOUS
<1>2. /\ Rulings(more, k, e) = Rulings(lines, k, e)
      /\ Rulings(lines, k, e) \subseteq 1..Len(lines)
    BY <1>1 DEF Rulings
<1> HIDE DEF more
<1>0. more \in Seq(Decisions)
    BY <1>1
<1>3. ASSUME Rulings(lines, k, e) # {}
      PROVE  Winner(more, k, e) = Winner(lines, k, e)
  <2>1. PICK i \in Rulings(lines, k, e) : Wins(lines, k, e, i)
    BY <1>3, OneWins
  <2>2. i \in Rulings(more, k, e) /\ Wins(more, k, e, i)
    BY <1>1, <1>2, <2>1 DEF Wins
  <2>3. Winner(lines, k, e) = lines[i]
    BY <2>1, WinnerIs
  <2>4. Winner(more, k, e) = more[i]
    BY <1>0, <2>2, WinnerIs, Zenon
  <2> QED BY <1>1, <1>2, <2>3, <2>4
<1>4. ASSUME Rulings(lines, k, e) # {}
      PROVE  LatestIn(more, k, e) = LatestIn(lines, k, e)
  <2>1. PICK i \in Rulings(lines, k, e) : IsLast(lines, k, e, i)
    BY <1>4, OneIsLatest
  <2>2. LatestIn(lines, k, e) = lines[i]
    BY <2>1, LatestIs
  <2>3. i \in Rulings(more, k, e) /\ IsLast(more, k, e, i)
    BY <1>2, <2>1 DEF IsLast
  <2>4. LatestIn(more, k, e) = more[i]
    BY <1>0, <2>3, LatestIs, Zenon
  <2> QED BY <1>1, <1>2, <2>2, <2>4
<1> QED BY <1>2, <1>3, <1>4 DEF more

\* ... and one on the event is its latest.
LEMMA OwnRuling ==
    ASSUME NEW lines \in Seq(Decisions), NEW d \in Decisions
    PROVE  /\ Rulings(Append(lines, d), d.key, d.event) # {}
           /\ LatestIn(Append(lines, d), d.key, d.event) = d
<1> DEFINE more == Append(lines, d)
<1>1. /\ more \in Seq(Decisions) /\ Len(more) = Len(lines) + 1 /\ more[Len(more)] = d
      /\ Len(lines) \in Nat /\ DOMAIN more = 1..Len(more)
    OBVIOUS
<1> HIDE DEF more
<1>2. /\ Len(more) \in Rulings(more, d.key, d.event)
      /\ IsLast(more, d.key, d.event, Len(more))
    BY <1>1 DEF Rulings, IsLast
<1>3. LatestIn(more, d.key, d.event) = more[Len(more)]
    BY <1>1, <1>2, LatestIs
<1> QED BY <1>1, <1>2, <1>3 DEF more

\* What decisions make of an event depends on the one that wins.
LEMMA SameRulingShows ==
    ASSUME NEW result, NEW k, NEW e, NEW lines, NEW more,
           Rulings(more, k, e) = {} <=> Rulings(lines, k, e) = {},
           Rulings(lines, k, e) # {} => Winner(more, k, e) = Winner(lines, k, e)
    PROVE  /\ Of(AppliedAttached(result, more, k), e) = Of(AppliedAttached(result, lines, k), e)
           /\ Of(AppliedReview(result, more, k), e) = Of(AppliedReview(result, lines, k), e)
<1>1. \A action : Decided(more, k, e, action) <=> Decided(lines, k, e, action)
    BY Zenon DEF Decided
<1>2. Decided(lines, k, e, "confirm") \/ Decided(lines, k, e, "dismiss") =>
         Winner(more, k, e) = Winner(lines, k, e)
    BY DEF Decided
<1>3. e \in Confirmed(result, more, k) <=> e \in Confirmed(result, lines, k)
    BY <1>1, <1>2 DEF Confirmed
<1>4. e \in Confirmed(result, lines, k) => Decided(lines, k, e, "confirm")
    BY DEF Confirmed
<1>5. AttachedBy(result, more, k) = AttachedBy(result, lines, k)
    BY DEF AttachedBy
<1>6. Of(AppliedAttached(result, more, k), e) = Of(AppliedAttached(result, lines, k), e)
    BY <1>2, <1>3, <1>4, <1>5 DEF AppliedAttached, Of
<1>7. Of(AppliedReview(result, more, k), e) = Of(AppliedReview(result, lines, k), e)
    BY <1>1, <1>2, <1>3 DEF AppliedReview, Of
<1> QED BY <1>6, <1>7

\* A decision on another event or of another campaign does not disturb.
LEMMA OthersShow ==
    ASSUME NEW lines \in Seq(Decisions), NEW d \in Decisions, NEW k, NEW e,
           d.key # k \/ d.event # e, Settled(Append(lines, d), k, e),
           NEW old, Settled(lines, k, e) => ShowsAs(old, k, lines, e),
           NEW new, new.from = old.from,
           Of(new.attached, e) = Of(old.attached, e), Of(new.review, e) = Of(old.review, e)
    PROVE  ShowsAs(new, k, Append(lines, d), e)
<1> DEFINE more == Append(lines, d)
           result == Outcome[old.from][k]
<1>1. /\ Rulings(more, k, e) = Rulings(lines, k, e)
      /\ Rulings(lines, k, e) # {} =>
            /\ Winner(more, k, e) = Winner(lines, k, e)
            /\ LatestIn(more, k, e) = LatestIn(lines, k, e)
    BY OthersRuling, Zenon
<1> HIDE DEF more
<1>2. Settled(lines, k, e)
  <2>1. Settled(more, k, e)
    BY DEF more
  <2> QED BY <1>1, <2>1 DEF Settled
<1>3. ShowsAs(old, k, lines, e)
    BY <1>2
<1>4. /\ Of(AppliedAttached(result, more, k), e) = Of(AppliedAttached(result, lines, k), e)
      /\ Of(AppliedReview(result, more, k), e) = Of(AppliedReview(result, lines, k), e)
  <2> HIDE DEF result
  <2>1. Rulings(more, k, e) = {} <=> Rulings(lines, k, e) = {}
    BY <1>1, Zenon
  <2>2. Rulings(lines, k, e) # {} => Winner(more, k, e) = Winner(lines, k, e)
    BY <1>1, Zenon
  <2> QED BY <2>1, <2>2, SameRulingShows, Zenon
<1>5. ShowsAs(new, k, more, e)
    BY <1>3, <1>4, Zenon DEF ShowsAs
<1> QED BY <1>5 DEF more

\* An entry of another campaign.
LEMMA OtherCampaignAgrees ==
    ASSUME NEW lines \in Seq(Decisions), NEW d \in Decisions, NEW k, d.key # k,
           NEW entry, Agrees(entry, k, lines)
    PROVE  Agrees(entry, k, Append(lines, d))
<1>1. ASSUME NEW e \in Events, Settled(Append(lines, d), k, e)
      PROVE  ShowsAs(entry, k, Append(lines, d), e)
  <2>1. Settled(lines, k, e) => ShowsAs(entry, k, lines, e)
    BY DEF Agrees
  <2> QED BY <1>1, <2>1, OthersShow, Zenon
<1> QED BY <1>1, Zenon DEF Agrees

\* What WithReview changes.
LEMMA WithReviewFields ==
    ASSUME NEW old, EntryFields \subseteq DOMAIN old, NEW attached, NEW review
    PROVE  /\ EntryFields \subseteq DOMAIN WithReview(old, attached, review)
           /\ WithReview(old, attached, review).from = old.from
           /\ WithReview(old, attached, review).shots = old.shots
           /\ WithReview(old, attached, review).attached = attached
           /\ WithReview(old, attached, review).review = review
           /\ WithReview(old, attached, review).summary = MatchSummary(attached, review)
<1> DEFINE new == WithReview(old, attached, review)
<1> DEFINE summary == MatchSummary(attached, review)
<1>1. new = [old EXCEPT !.attached = attached, !.review = review, !.summary = summary]
    BY Zenon DEF WithReview
<1> HIDE DEF summary, new
<1>2. /\ EntryFields \subseteq DOMAIN new /\ new.from = old.from /\ new.shots = old.shots
      /\ new.attached = attached /\ new.review = review
      /\ new.summary = summary
    BY <1>1 DEF EntryFields
<1> QED BY <1>2, Zenon DEF summary, new

\* Confirming: of the event, the review lists nothing and the shot has it, as
\* a build has it that finds this decision to win.
LEMMA ConfirmAgrees ==
    ASSUME NEW lines \in Seq(Decisions), NEW k, NEW old, Agrees(old, k, lines),
           NEW r \in old.review, NEW s \in old.shots, NEW level,
           NEW d \in Decisions,
           d = [key |-> k, event |-> r.event, action |-> "confirm", shot |-> s, level |-> level]
    PROVE  Agrees(WithReview(old, old.attached \cup {Place(r.event, s, level)},
                             old.review \ {r}), k, Append(lines, d))
<1> DEFINE attached == old.attached \cup {Place(r.event, s, level)}
           review == old.review \ {r}
           new == WithReview(old, attached, review)
           result == Outcome[old.from][k]
           more == Append(lines, d)
<1>1. /\ EntryFields \subseteq DOMAIN old /\ old.shots = result.shots
      /\ \A a \in old.attached : a.event \in Events
      /\ \A i \in old.review :
          /\ i.event \in ToReview(result) /\ \E ack : i = Item(result, i.event, ack)
          /\ Of(old.review, i.event) = {i} /\ Of(old.attached, i.event) = {}
    BY DEF Agrees, Whole
<1>2. /\ EntryFields \subseteq DOMAIN new /\ new.from = old.from /\ new.shots = old.shots
      /\ new.attached = attached /\ new.review = review
      /\ new.summary = MatchSummary(attached, review)
  <2>1. EntryFields \subseteq DOMAIN old
    BY <1>1, Zenon
  <2> HIDE DEF attached, review
  <2> QED BY <2>1, WithReviewFields
<1>3. Place(r.event, s, level).event = r.event
    BY DEF Place
<1> HIDE DEF new
<1>4. /\ Of(review, r.event) = {} /\ Of(attached, r.event) = {Place(r.event, s, level)}
      /\ \A e : e # r.event => /\ Of(attached, e) = Of(old.attached, e)
                               /\ Of(review, e) = Of(old.review, e)
  <2>1. Of(old.review, r.event) = {r} /\ Of(old.attached, r.event) = {}
    BY <1>1
  <2> DEFINE p == Place(r.event, s, level)
  <2> HIDE DEF p
  <2>2. p.event = r.event /\ attached = old.attached \cup {p}
    BY <1>3, Zenon DEF p
  <2>3. Of(attached, r.event) = {p} /\ Of(review, r.event) = {}
    <3> HIDE DEF attached
    <3> QED BY <2>1, <2>2 DEF Of
  <2>4. ASSUME NEW e, e # r.event
        PROVE  Of(attached, e) = Of(old.attached, e) /\ Of(review, e) = Of(old.review, e)
    <3> HIDE DEF attached
    <3> QED BY <2>2, <2>4 DEF Of
  <2> QED BY <2>3, <2>4, Zenon DEF p
<1>5. r.event \in Events /\ r.event \in ToReview(result)
    BY <1>1 DEF ToReview
<1>6. Whole(new, k)
  <2>1. \A a \in attached : a.event \in Events
    BY <1>1, <1>3, <1>5
  <2>2. ASSUME NEW i \in review
        PROVE  /\ i.event \in ToReview(result) /\ \E ack : i = Item(result, i.event, ack)
               /\ Of(review, i.event) = {i} /\ Of(attached, i.event) = {}
    <3>1. i \in old.review /\ i # r
      OBVIOUS
    <3>2. /\ i.event \in ToReview(result) /\ \E ack : i = Item(result, i.event, ack)
          /\ Of(old.review, i.event) = {i} /\ Of(old.attached, i.event) = {}
      BY <1>1, <3>1, Zenon
    <3>3. i.event # r.event
      <4>1. Of(old.review, r.event) = {r}
        BY <1>1
      <4> QED BY <3>1, <3>2, <4>1
    <3> HIDE DEF attached, review
    <3> QED BY <1>4, <3>2, <3>3, Zenon
  <2> HIDE DEF attached, review
  <2> QED BY <1>1, <1>2, <2>1, <2>2, Zenon DEF Whole
<1>7. ASSUME NEW e \in Events, Settled(more, k, e)
      PROVE  ShowsAs(new, k, more, e)
  <2>1. CASE e # r.event
    <3>1. Settled(lines, k, e) => ShowsAs(old, k, lines, e)
      BY DEF Agrees
    <3>2. Of(new.attached, e) = Of(old.attached, e) /\ Of(new.review, e) = Of(old.review, e)
      BY <1>2, <1>4, <2>1, Zenon
    <3>3. d.key # k \/ d.event # e
      BY <2>1
    <3> QED BY <1>2, <1>7, <3>1, <3>2, <3>3, OthersShow, Zenon
  <2>2. CASE e = r.event
    <3>1. d.key = k /\ d.event = e /\ d.action = "confirm" /\ d.shot = s /\ d.level = level
      BY <2>2
    <3>2. Rulings(more, k, e) # {} /\ LatestIn(more, k, e) = d
      BY <3>1, OwnRuling
    <3>3. Winner(more, k, e) = d
      BY <1>7, <3>2 DEF Settled
    <3> HIDE DEF more, result, attached, review
    <3>4. e \in Confirmed(result, more, k)
      BY <1>1, <1>5, <2>2, <3>1, <3>2, <3>3 DEF Confirmed, Decided
    <3>5. Of(AppliedReview(result, more, k), e) = {}
      BY <3>4 DEF AppliedReview, Of
    <3>6. Of(AppliedAttached(result, more, k), e) = {Place(e, s, level)}
      <4>1. ASSUME NEW x \in AttachedBy(result, more, k) PROVE x.event # e
        BY <1>5, <2>2 DEF AttachedBy, ToReview
      <4>2. Place(e, s, level) \in AppliedAttached(result, more, k)
        BY <3>1, <3>3, <3>4 DEF AppliedAttached, Place
      <4>3. ASSUME NEW x \in AppliedAttached(result, more, k), x.event = e
            PROVE  x = Place(e, s, level)
        <5>1. x \notin AttachedBy(result, more, k)
          BY <4>1, <4>3
        <5>2. PICK f \in Confirmed(result, more, k) :
                 x = [event |-> f, shot |-> Winner(more, k, f).shot, by |-> "operator",
                      level |-> Winner(more, k, f).level]
          BY <5>1 DEF AppliedAttached
        <5>3. f = e
          BY <4>3, <5>2
        <5> QED BY <3>1, <3>3, <5>2, <5>3 DEF Place
      <4>4. Place(e, s, level).event = e
        BY DEF Place
      <4> QED BY <4>2, <4>3, <4>4 DEF Of
    <3>7. Of(new.attached, e) = {Place(e, s, level)} /\ Of(new.review, e) = {}
      BY <1>2, <1>4, <2>2
    <3> QED BY <1>2, <3>5, <3>6, <3>7, Zenon DEF ShowsAs, result
  <2> QED BY <2>1, <2>2
<1>8. Agrees(new, k, more)
    BY <1>2, <1>6, <1>7, Zenon DEF Agrees
<1> QED BY <1>8, Zenon DEF new

\* Dismissing: the event stays in review, and its acknowledgement is the one a
\* build gives it that finds this decision to win.
LEMMA DismissAgrees ==
    ASSUME NEW lines \in Seq(Decisions), NEW k, NEW old, Agrees(old, k, lines),
           NEW r \in old.review, NEW level,
           NEW d \in Decisions,
           d = [key |-> k, event |-> r.event, action |-> "dismiss", shot |-> "-", level |-> level]
    PROVE  Agrees(WithReview(old, old.attached,
                             (old.review \ {r}) \cup {[r EXCEPT !.ack = level]}),
                  k, Append(lines, d))
<1> DEFINE attached == old.attached
           item == [r EXCEPT !.ack = level]
           review == (old.review \ {r}) \cup {item}
           new == WithReview(old, attached, review)
           result == Outcome[old.from][k]
           more == Append(lines, d)
<1>1. /\ EntryFields \subseteq DOMAIN old /\ old.shots = result.shots
      /\ \A a \in old.attached : a.event \in Events
      /\ \A i \in old.review :
          /\ i.event \in ToReview(result) /\ \E ack : i = Item(result, i.event, ack)
          /\ Of(old.review, i.event) = {i} /\ Of(old.attached, i.event) = {}
    BY DEF Agrees, Whole
<1>2. /\ EntryFields \subseteq DOMAIN new /\ new.from = old.from /\ new.shots = old.shots
      /\ new.attached = attached /\ new.review = review
      /\ new.summary = MatchSummary(attached, review)
  <2>1. EntryFields \subseteq DOMAIN old
    BY <1>1, Zenon
  <2> HIDE DEF attached, review
  <2> QED BY <2>1, WithReviewFields
<1>3. item = Item(result, r.event, level) /\ item.event = r.event
  <2>1. PICK ack : r = Item(result, r.event, ack)
    BY <1>1
  <2>2. PICK e : e = r.event
    OBVIOUS
  <2>3. r = [event |-> e, status |-> result.status[e], candidates |-> result.places[e],
             ack |-> ack]
    BY <2>1, <2>2, Zenon DEF Item
  <2>4. item = [event |-> e, status |-> result.status[e], candidates |-> result.places[e],
                ack |-> level]
    <3> HIDE DEF result
    <3> QED BY <2>3
  <2> QED BY <2>2, <2>4 DEF Item
<1> HIDE DEF new, item
<1>4. /\ Of(review, r.event) = {item} /\ Of(attached, r.event) = {}
      /\ \A e : e # r.event => Of(review, e) = Of(old.review, e)
  <2>1. Of(old.review, r.event) = {r} /\ Of(old.attached, r.event) = {}
    BY <1>1
  <2>2. Of(review, r.event) = {item}
    BY <1>3, <2>1 DEF Of
  <2>3. ASSUME NEW e, e # r.event PROVE Of(review, e) = Of(old.review, e)
    BY <1>3, <2>3 DEF Of
  <2> QED BY <2>1, <2>2, <2>3
<1>5. r.event \in Events /\ r.event \in ToReview(result)
    BY <1>1 DEF ToReview
<1>6. Whole(new, k)
  <2>1. \A a \in attached : a.event \in Events
    BY <1>1
  <2>2. ASSUME NEW i \in review
        PROVE  /\ i.event \in ToReview(result) /\ \E ack : i = Item(result, i.event, ack)
               /\ Of(review, i.event) = {i} /\ Of(attached, i.event) = {}
    <3>1. CASE i = item
      <4>1. i.event \in ToReview(result)
        BY <1>3, <1>5, <3>1
      <4>2. i = Item(result, i.event, level)
        BY <1>3, <3>1
      <4>3. Of(review, i.event) = {i} /\ Of(attached, i.event) = {}
        BY <1>3, <1>4, <3>1
      <4> QED BY <4>1, <4>2, <4>3
    <3>2. CASE i # item
      <4>1. i \in old.review /\ i # r
        BY <3>2
      <4>2. /\ i.event \in ToReview(result) /\ \E ack : i = Item(result, i.event, ack)
            /\ Of(old.review, i.event) = {i} /\ Of(old.attached, i.event) = {}
        BY <1>1, <4>1, Zenon
      <4>3. i.event # r.event
        <5>1. Of(old.review, r.event) = {r}
          BY <1>1
        <5> QED BY <4>1, <4>2, <5>1
      <4> HIDE DEF review
      <4> QED BY <1>4, <4>2, <4>3, Zenon
    <3> QED BY <3>1, <3>2
  <2> HIDE DEF attached, review
  <2> QED BY <1>1, <1>2, <2>1, <2>2, Zenon DEF Whole
<1>7. ASSUME NEW e \in Events, Settled(more, k, e)
      PROVE  ShowsAs(new, k, more, e)
  <2>1. CASE e # r.event
    <3>1. Settled(lines, k, e) => ShowsAs(old, k, lines, e)
      BY DEF Agrees
    <3>2. Of(new.attached, e) = Of(old.attached, e) /\ Of(new.review, e) = Of(old.review, e)
      BY <1>2, <1>4, <2>1, Zenon
    <3>3. d.key # k \/ d.event # e
      BY <2>1
    <3> QED BY <1>2, <1>7, <3>1, <3>2, <3>3, OthersShow, Zenon
  <2>2. CASE e = r.event
    <3>1. d.key = k /\ d.event = e /\ d.action = "dismiss" /\ d.level = level
      BY <2>2
    <3>2. Rulings(more, k, e) # {} /\ LatestIn(more, k, e) = d
      BY <3>1, OwnRuling
    <3>3. Winner(more, k, e) = d
      BY <1>7, <3>2 DEF Settled
    <3> HIDE DEF more, result, attached, review
    <3>4. e \notin Confirmed(result, more, k) /\ Decided(more, k, e, "dismiss")
      BY <3>1, <3>2, <3>3 DEF Confirmed, Decided
    <3>5. Of(AppliedReview(result, more, k), e) = {Item(result, e, level)}
      BY <1>5, <2>2, <3>1, <3>3, <3>4 DEF AppliedReview, Of, Item
    <3>6. Of(AppliedAttached(result, more, k), e) = {}
      <4>1. ASSUME NEW x \in AttachedBy(result, more, k) PROVE x.event # e
        BY <1>5, <2>2 DEF AttachedBy, ToReview
      <4> QED BY <3>4, <4>1 DEF AppliedAttached, Of
    <3>7. Of(new.attached, e) = {} /\ Of(new.review, e) = {Item(result, e, level)}
      BY <1>2, <1>3, <1>4, <2>2
    <3> QED BY <1>2, <3>5, <3>6, <3>7, Zenon DEF ShowsAs, result
  <2> QED BY <2>1, <2>2
<1>8. Agrees(new, k, more)
    BY <1>2, <1>6, <1>7, Zenon DEF Agrees
<1> QED BY <1>8, Zenon DEF new, item

\* The edits leave all of this alone.
LEMMA MarkedAgrees ==
    ASSUME NEW lines, NEW k, NEW old, Agrees(old, k, lines), NEW kind
    PROVE  Agrees([old EXCEPT !.marks = @ \cup {kind}], k, lines)
<1> DEFINE new == [old EXCEPT !.marks = @ \cup {kind}]
<1>1. /\ EntryFields \subseteq DOMAIN new /\ new.from = old.from /\ new.shots = old.shots
      /\ new.attached = old.attached /\ new.review = old.review
      /\ new.summary = old.summary
    BY DEF Agrees, EntryFields
<1> HIDE DEF new
<1>2. Whole(new, k)
    BY <1>1, Zenon DEF Agrees, Whole
<1>3. \A e \in Events : Settled(lines, k, e) => ShowsAs(new, k, lines, e)
    BY <1>1, Zenon DEF Agrees, ShowsAs
<1>4. Agrees(new, k, lines)
    BY <1>1, <1>2, <1>3 DEF Agrees
<1> QED BY <1>4 DEF new

\* An entry just built agrees with the decisions it was built with.
LEMMA RebuiltAgrees ==
    ASSUME NEW number, NEW from, NEW lines, NEW k, NEW scicat
    PROVE  Agrees(AsRegistered(Rebuilt(number, from, lines, k), scicat), k, lines)
<1> DEFINE result == Outcome[from][k]
           attached == AppliedAttached(result, lines, k)
           review == AppliedReview(result, lines, k)
           summary == MatchSummary(attached, review)
           old == Rebuilt(number, from, lines, k)
           entry == AsRegistered(old, scicat)
<1>1. /\ EntryFields \subseteq DOMAIN entry /\ entry.from = from /\ entry.shots = result.shots
      /\ entry.attached = attached /\ entry.review = review /\ entry.summary = summary
  <2>1. old = [number |-> number, from |-> from, loaded |-> Len(lines),
               scicat |-> Unregistered, shots |-> result.shots, attached |-> attached,
               review |-> review, marks |-> {}, summary |-> summary]
    BY Zenon DEF Rebuilt
  <2>2. entry = [old EXCEPT !.scicat = scicat]
    BY Zenon DEF AsRegistered
  <2> HIDE DEF result, attached, review, summary, old, entry
  <2> QED BY <2>1, <2>2 DEF EntryFields
<1> HIDE DEF entry, old
<1>2. \A a \in attached : a.event \in Events
    BY DEF AppliedAttached, AttachedBy, Confirmed, ToReview
<1>3. ASSUME NEW i \in review
      PROVE  /\ i.event \in ToReview(result) /\ \E ack : i = Item(result, i.event, ack)
             /\ Of(review, i.event) = {i} /\ Of(attached, i.event) = {}
  <2> HIDE DEF result
  <2> DEFINE Ack(e) == IF Decided(lines, k, e, "dismiss") THEN Winner(lines, k, e).level
                       ELSE NotAcked
  <2>1. review = {Item(result, e, Ack(e)) :
                     e \in ToReview(result) \ Confirmed(result, lines, k)}
    BY Zenon DEF AppliedReview, Item
  <2> HIDE DEF Ack, review
  <2>2. \A e, ack : Item(result, e, ack).event = e
    BY DEF Item
  <2>3. PICK e \in ToReview(result) \ Confirmed(result, lines, k) : i = Item(result, e, Ack(e))
    BY <2>1
  <2>4. i.event = e
    BY <2>2, <2>3
  <2>5. Of(review, e) = {i}
    BY <2>1, <2>2, <2>3, <2>4 DEF Of
  <2>6. Of(attached, e) = {}
    <3>1. ASSUME NEW x \in AttachedBy(result, lines, k) PROVE x.event # e
      BY <2>3 DEF AttachedBy, ToReview
    <3> QED BY <2>3, <3>1 DEF AppliedAttached, Of
  <2> HIDE DEF attached
  <2> QED BY <2>3, <2>4, <2>5, <2>6
<1>4. Whole(entry, k)
  <2> HIDE DEF attached, review
  <2> QED BY <1>1, <1>2, <1>3, Zenon DEF Whole, summary
<1>5. \A e \in Events : ShowsAs(entry, k, lines, e)
    BY <1>1, Zenon DEF ShowsAs
<1>6. Agrees(entry, k, lines)
    BY <1>1, <1>4, <1>5, Zenon DEF Agrees
<1> QED BY <1>6 DEF entry, old

-----------------------------------------------------------------------------
(* The same for what requests and builds hold between their steps. *)

\* The decisions in the sidecar once a request with decision d has been served.
Ruled(lines, d) == IF d = Junk \/ d.action = "stage" THEN lines ELSE Append(lines, d)

PageAgrees(page, lines) == \A k \in Keys : Agrees(page[k], k, lines)

Alone ==
    /\ \A v, w \in Workers : requests[v].at # "idle" /\ requests[w].at # "idle" => v = w
    /\ \A b, c \in Builders : builds[b].at # "idle" /\ builds[c].at # "idle" => b = c
    /\ \A w \in Workers, b \in Builders : requests[w].at = "idle" \/ builds[b].at = "idle"

\* What a request writes back agrees with the decision it will append, and the
\* catalog with the sidecar, but between the two.
OneByOne ==
    /\ Alone
    /\ ~sidecar.open /\ sidecar.lines \in Seq(Decisions)
    /\ \A w \in Workers :
          /\ requests[w].at = "write" =>
                PageAgrees(requests[w].page, Ruled(sidecar.lines, requests[w].decision))
          /\ requests[w].at = "append" =>
                /\ requests[w].decision \in Decisions
                /\ PageAgrees(catalog, Append(sidecar.lines, requests[w].decision))
    /\ (\A w \in Workers : requests[w].at # "append") => PageAgrees(catalog, sidecar.lines)
    /\ \A b \in Builders :
          /\ builds[b].at \in {"lock", "merge"} =>
                Agrees(builds[b].entry, builds[b].key, sidecar.lines)
          /\ builds[b].at = "merge" => PageAgrees(builds[b].page, sidecar.lines)

\* While nothing overlaps, until something fails.
LInv == faults \in Nat /\ (~scene.overlaps /\ faults = 0 => OneByOne)

\* Who begins finds nobody at work.
LEMMA BeginsAlone ==
    ASSUME IInv, OneByOne, ~scene.overlaps, MayBegin
    PROVE  /\ \A w \in Workers : requests[w].at = "idle"
           /\ \A b \in Builders : builds[b].at = "idle"
           /\ PageAgrees(catalog, sidecar.lines)
<1>1. /\ \A w \in Workers : requests[w].at = "idle"
      /\ \A b \in Builders : builds[b].at = "idle"
    BY DEF MayBegin, Serving, Building
<1> QED BY <1>1 DEF OneByOne

\* A request that begins.
LEMMA BeginAgrees ==
    ASSUME IInv, OneByOne, ~scene.overlaps, NEW w \in Workers, NEW k \in Keys, NEW entry, NEW d,
           d = Junk \/ d.action = "stage" \/ (d \in Decisions /\ d.key = k),
           Agrees(entry, k, Ruled(sidecar.lines, d)), Begin(w, k, entry, d)
    PROVE  OneByOne'
<1> DEFINE page == [catalog EXCEPT ![k] = entry]
           q == [at |-> "write", page |-> page, decision |-> d]
<1>1. /\ requests' = [requests EXCEPT ![w] = q]
      /\ UNCHANGED <<catalog, sidecar, builds>>
    BY Zenon DEF Begin, files
<1>2. /\ \A v \in Workers : requests[v].at = "idle"
      /\ \A b \in Builders : builds[b].at = "idle"
      /\ PageAgrees(catalog, sidecar.lines)
    BY BeginsAlone DEF Begin
<1>3. DOMAIN catalog = Keys /\ DOMAIN requests = Workers
    BY DEF IInv, GoodPage, Typed
<1>4. PageAgrees(page, Ruled(sidecar.lines, d))
  <2>1. SUFFICES ASSUME NEW j \in Keys PROVE Agrees(page[j], j, Ruled(sidecar.lines, d))
    BY DEF PageAgrees
  <2>2. CASE j = k
    BY <1>3, <2>2
  <2>3. CASE j # k
    <3>1. page[j] = catalog[j] /\ Agrees(catalog[j], j, sidecar.lines)
      BY <1>2, <1>3, <2>3 DEF PageAgrees
    <3>2. CASE d = Junk \/ d.action = "stage"
      BY <3>1, <3>2 DEF Ruled
    <3>3. CASE ~(d = Junk \/ d.action = "stage")
      <4>1. sidecar.lines \in Seq(Decisions) /\ d \in Decisions /\ d.key # j
        BY <2>3, <3>3 DEF OneByOne
      <4>2. Agrees(catalog[j], j, Append(sidecar.lines, d))
        BY <3>1, <4>1, OtherCampaignAgrees
      <4> QED BY <3>1, <3>3, <4>2, Zenon DEF Ruled
    <3> QED BY <3>2, <3>3
  <2> QED BY <2>2, <2>3
<1>5. q.at = "write" /\ q.page = page /\ q.decision = d
  <2> HIDE DEF page
  <2> QED OBVIOUS
<1> HIDE DEF page, q
<1>6. /\ requests'[w].at = "write" /\ requests'[w].page = page /\ requests'[w].decision = d
      /\ \A v \in Workers : v # w => requests'[v].at = "idle"
      /\ \A b \in Builders : builds'[b].at = "idle"
    BY <1>1, <1>2, <1>3, <1>5
<1>7. Alone'
    BY <1>6 DEF Alone
<1>8. ~sidecar'.open /\ sidecar'.lines \in Seq(Decisions)
    BY <1>1 DEF OneByOne
<1>9. \A v \in Workers :
          /\ requests'[v].at = "write" =>
                PageAgrees(requests'[v].page, Ruled(sidecar'.lines, requests'[v].decision))
          /\ requests'[v].at # "append"
    BY <1>1, <1>4, <1>6
<1>10. PageAgrees(catalog', sidecar'.lines)
    BY <1>1, <1>2
<1>11. \A b \in Builders : builds'[b].at \notin {"lock", "merge"}
    BY <1>6
<1>12. PageAgrees(catalog, sidecar.lines)'
    BY <1>10 DEF PageAgrees
<1>13. \A v \in Workers : (requests[v].at = "write" =>
                PageAgrees(requests[v].page, Ruled(sidecar.lines, requests[v].decision)))'
    BY <1>9 DEF PageAgrees
<1> QED BY <1>7, <1>8, <1>9, <1>11, <1>12, <1>13 DEF OneByOne

\* A request of the operator.
LEMMA RequestAgrees ==
    ASSUME IInv, OneByOne, ~scene.overlaps, NEW w \in Workers, Request(w)
    PROVE  OneByOne'
<1>1. PICK k \in Keys :
         \/ \E level \in scene.levels, r \in catalog[k].review :
               \/ Dismiss(w, k, r, level)
               \/ \E s \in Shots : Confirm(w, k, r, s, level)
         \/ UpdateStatus(w, k) \/ UpdateMetadata(w, k)
         \/ AppendEmulatedShot(w, k) \/ EnrichLatestShot(w, k)
    BY DEF Request
<1> DEFINE old == catalog[k]
<1>2. MayBegin
    BY <1>1 DEF Dismiss, Confirm, UpdateStatus, UpdateMetadata, AppendEmulatedShot,
               EnrichLatestShot, Edit, Begin
<1>3. sidecar.lines \in Seq(Decisions) /\ Agrees(old, k, sidecar.lines)
    BY <1>2, BeginsAlone DEF OneByOne, PageAgrees
<1>4. scene.levels \subseteq 0..2
    BY ReviewConstants DEF IInv, Typed
<1>5. ASSUME NEW kind, NEW then, then = Junk \/ then.action = "stage", Edit(w, k, kind, then)
      PROVE  OneByOne'
  <2> DEFINE new == [old EXCEPT !.marks = @ \cup {kind}]
  <2>1. Begin(w, k, new, then)
    BY <1>5 DEF Edit
  <2>2. Agrees(new, k, sidecar.lines)
    BY <1>3, MarkedAgrees
  <2> HIDE DEF new
  <2>3. Agrees(new, k, Ruled(sidecar.lines, then))
    BY <1>5, <2>2, Zenon DEF Ruled
  <2> QED BY <1>5, <2>1, <2>3, BeginAgrees
<1>6. ASSUME NEW level \in scene.levels, NEW r \in old.review, NEW s \in Shots,
             Confirm(w, k, r, s, level)
      PROVE  OneByOne'
  <2> DEFINE d == [key |-> k, event |-> r.event, action |-> "confirm", shot |-> s,
                   level |-> level]
             new == WithReview(old, old.attached \cup {Place(r.event, s, level)},
                               old.review \ {r})
  <2>1. Begin(w, k, new, d) /\ s \in old.shots
    BY <1>6, Zenon DEF Confirm, Place
  <2>2. r.event \in Events
    BY <1>3 DEF Agrees, Whole, ToReview
  <2>3. d \in Decisions /\ d.key = k /\ d # Junk /\ d.action # "stage"
    BY <1>4, <2>2 DEF Decisions, Lines, Junk
  <2>4. Agrees(new, k, Append(sidecar.lines, d))
    BY <1>3, <2>1, <2>3, ConfirmAgrees
  <2> HIDE DEF new, d
  <2>5. Agrees(new, k, Ruled(sidecar.lines, d))
    BY <2>3, <2>4, Zenon DEF Ruled
  <2> QED BY <2>1, <2>3, <2>5, BeginAgrees
<1>7. ASSUME NEW level \in scene.levels, NEW r \in old.review, Dismiss(w, k, r, level)
      PROVE  OneByOne'
  <2> DEFINE d == [key |-> k, event |-> r.event, action |-> "dismiss", shot |-> "-",
                   level |-> level]
             new == WithReview(old, old.attached,
                               (old.review \ {r}) \cup {[r EXCEPT !.ack = level]})
  <2>1. Begin(w, k, new, d)
    BY <1>7, Zenon DEF Dismiss
  <2>2. r.event \in Events
    BY <1>3 DEF Agrees, Whole, ToReview
  <2>3. d \in Decisions /\ d.key = k /\ d # Junk /\ d.action # "stage"
    BY <1>4, <2>2 DEF Decisions, Lines, Junk
  <2>4. Agrees(new, k, Append(sidecar.lines, d))
    BY <1>3, <2>3, DismissAgrees
  <2> HIDE DEF new, d
  <2>5. Agrees(new, k, Ruled(sidecar.lines, d))
    BY <2>3, <2>4, Zenon DEF Ruled
  <2> QED BY <2>1, <2>3, <2>5, BeginAgrees
<1>8. Staging(k).action = "stage"
    BY DEF Staging, Junk
<1> HIDE DEF old
<1>9. CASE UpdateStatus(w, k) \/ UpdateMetadata(w, k)
    BY <1>5, <1>9 DEF UpdateStatus, UpdateMetadata
<1>10. CASE AppendEmulatedShot(w, k) \/ EnrichLatestShot(w, k)
    BY <1>5, <1>8, <1>10 DEF AppendEmulatedShot, EnrichLatestShot
<1> QED BY <1>1, <1>6, <1>7, <1>9, <1>10 DEF old

\* A step of the one request there is, once it has written the catalog.
LEMMA ServingStep ==
    ASSUME IInv, OneByOne, NEW w \in Workers, requests[w].at # "idle",
           builds' = builds, DOMAIN requests' = Workers,
           \A v \in Workers \ {w} : requests'[v] = requests[v],
           ~sidecar'.open, sidecar'.lines \in Seq(Decisions),
           requests'[w].at # "write",
           requests'[w].at = "append" =>
               /\ requests'[w].decision \in Decisions
               /\ PageAgrees(catalog', Append(sidecar'.lines, requests'[w].decision)),
           requests'[w].at # "append" => PageAgrees(catalog', sidecar'.lines)
    PROVE  OneByOne'
<1>1. /\ \A v \in Workers \ {w} : requests'[v].at = "idle"
      /\ \A b \in Builders : builds'[b].at = "idle"
    BY DEF OneByOne, Alone
<1>2. Alone'
    BY <1>1 DEF Alone
<1>3. \A v \in Workers : requests'[v].at # "write"
    BY <1>1
<1>4. ASSUME NEW v \in Workers, requests'[v].at = "append"
      PROVE  /\ requests'[v].decision \in Decisions
             /\ PageAgrees(catalog, Append(sidecar.lines, requests[v].decision))'
  <2>1. v = w
    BY <1>1, <1>4
  <2> QED BY <1>4, <2>1 DEF PageAgrees
<1>5. (\A v \in Workers : requests'[v].at # "append") => PageAgrees(catalog, sidecar.lines)'
    BY DEF PageAgrees
<1>6. \A b \in Builders : builds'[b].at \notin {"lock", "merge"}
    BY <1>1
<1> QED BY <1>2, <1>3, <1>4, <1>5, <1>6 DEF OneByOne

\* Serving a request: the catalog takes the decision, then the sidecar does.
LEMMA ServeAgrees ==
    ASSUME IInv, OneByOne, NEW w \in Workers, Serve(w)
    PROVE  OneByOne'
<1> DEFINE q == requests[w]
           d == q.decision
<1>1. /\ DOMAIN requests = Workers /\ RequestOk(q, master, sidecar)
      /\ {"at", "page", "decision"} \subseteq DOMAIN q
      /\ ~sidecar.open /\ sidecar.lines \in Seq(Decisions) /\ sidecar \in Sidecars
    BY DEF IInv, Typed, RequestOk, OneByOne
<1>2. NoRequest.at = "idle"
    BY DEF NoRequest
<1>3. CASE WriteCatalog(w)
  <2>1. /\ q.at = "write" /\ catalog' = q.page /\ sidecar' = sidecar /\ builds' = builds
        /\ requests' = IF d = Junk THEN [requests EXCEPT ![w] = NoRequest]
                       ELSE [requests EXCEPT ![w].page = <<>>, ![w].at = NextOf(w)]
    BY <1>3 DEF WriteCatalog
  <2>2. PageAgrees(catalog', Ruled(sidecar.lines, d))
    BY <2>1 DEF OneByOne
  <2>3. DOMAIN requests' = Workers /\ \A v \in Workers \ {w} : requests'[v] = requests[v]
    BY <1>1, <2>1
  <2>4. CASE d = Junk
    <3>1. requests'[w].at = "idle"
      BY <1>1, <1>2, <2>1, <2>4
    <3>2. PageAgrees(catalog', sidecar'.lines)
      BY <2>1, <2>2, <2>4 DEF Ruled
    <3> QED BY <1>1, <2>1, <2>3, <3>1, <3>2, ServingStep
  <2>5. CASE d # Junk
    <3>1. requests'[w] = [q EXCEPT !.page = <<>>, !.at = NextOf(w)]
      BY <1>1, <2>1, <2>5
    <3>2. requests'[w].at = NextOf(w) /\ requests'[w].decision = d
      BY <1>1, <3>1
    <3>3. CASE d.action = "stage"
      <4>1. requests'[w].at = "stage"
        BY <3>2, <3>3 DEF NextOf
      <4>2. PageAgrees(catalog', sidecar'.lines)
        BY <2>1, <2>2, <3>3, Zenon DEF Ruled
      <4> QED BY <1>1, <2>1, <2>3, <4>1, <4>2, ServingStep
    <3>4. CASE d.action # "stage"
      <4>1. requests'[w].at = "append" /\ d \in Decisions
        BY <1>1, <2>1, <2>5, <3>2, <3>4 DEF NextOf, RequestOk, Decisions
      <4>2. PageAgrees(catalog', Append(sidecar'.lines, d))
        BY <2>1, <2>2, <2>5, <3>4, Zenon DEF Ruled
      <4> QED BY <1>1, <2>1, <2>3, <3>2, <4>1, <4>2, ServingStep
    <3> QED BY <3>3, <3>4
  <2> QED BY <2>4, <2>5
<1>4. ASSUME q.at \notin {"idle", "write", "append"}
      PROVE  PageAgrees(catalog, sidecar.lines)
    BY <1>4 DEF OneByOne, Alone
<1>5. CASE StageEvent(w) \/ CopyBackup(w)
  <2>1. /\ q.at \in {"stage", "copy"} /\ UNCHANGED <<catalog, sidecar, builds>>
        /\ requests' = [requests EXCEPT ![w] = NoRequest]
    BY <1>5 DEF StageEvent, CopyBackup
  <2>2. /\ DOMAIN requests' = Workers /\ \A v \in Workers \ {w} : requests'[v] = requests[v]
        /\ requests'[w].at = "idle"
    BY <1>1, <1>2, <2>1
  <2>3. PageAgrees(catalog', sidecar'.lines)
    BY <1>4, <2>1
  <2> QED BY <1>1, <2>1, <2>2, <2>3, ServingStep
<1>6. CASE TruncateBackup(w)
  <2>1. /\ q.at = "truncate" /\ UNCHANGED <<catalog, sidecar, builds>>
        /\ requests' = [requests EXCEPT ![w].at = "copy"]
    BY <1>6 DEF TruncateBackup
  <2>2. /\ DOMAIN requests' = Workers /\ \A v \in Workers \ {w} : requests'[v] = requests[v]
        /\ requests'[w].at = "copy"
    BY <1>1, <2>1
  <2>3. PageAgrees(catalog', sidecar'.lines)
    BY <1>4, <2>1
  <2> QED BY <1>1, <2>1, <2>2, <2>3, ServingStep
<1>7. CASE AppendDecision(w)
  <2>1. /\ q.at = "append" /\ UNCHANGED <<catalog, builds>> /\ sidecar' = Appended(sidecar, d)
        /\ requests' = [requests EXCEPT ![w].at = "truncate"]
    BY <1>7 DEF AppendDecision
  <2>2. d \in Decisions /\ PageAgrees(catalog, Append(sidecar.lines, d))
    BY <2>1 DEF OneByOne
  <2>3. sidecar' = [lines |-> Append(sidecar.lines, d), open |-> FALSE]
    BY <1>1, <2>1, Zenon DEF Appended
  <2>4. ~sidecar'.open /\ sidecar'.lines = Append(sidecar.lines, d)
    BY <2>3
  <2>5. sidecar'.lines \in Seq(Decisions)
    BY <1>1, <2>2, <2>4
  <2>6. /\ DOMAIN requests' = Workers /\ \A v \in Workers \ {w} : requests'[v] = requests[v]
        /\ requests'[w].at = "truncate"
    BY <1>1, <2>1
  <2>7. PageAgrees(catalog', sidecar'.lines)
    BY <2>1, <2>2, <2>4
  <2> QED BY <2>1, <2>4, <2>5, <2>6, <2>7, ServingStep
<1> QED BY <1>3, <1>5, <1>6, <1>7 DEF Serve

\* A step of the one build there is.
LEMMA BuildingStep ==
    ASSUME IInv, OneByOne, NEW b \in Builders,
           \A w \in Workers : requests[w].at = "idle",
           \A c \in Builders \ {b} : builds[c].at = "idle",
           UNCHANGED <<sidecar, requests>>, DOMAIN builds' = Builders,
           \A c \in Builders \ {b} : builds'[c] = builds[c],
           PageAgrees(catalog', sidecar.lines),
           builds'[b].at \in {"lock", "merge"} =>
               Agrees(builds'[b].entry, builds'[b].key, sidecar.lines),
           builds'[b].at = "merge" => PageAgrees(builds'[b].page, sidecar.lines)
    PROVE  OneByOne'
<1>1. Alone'
    BY DEF Alone
<1>2. PageAgrees(catalog, sidecar.lines)'
    BY DEF PageAgrees
<1>3. \A c \in Builders :
        /\ builds'[c].at \in {"lock", "merge"} =>
              Agrees(builds'[c].entry, builds'[c].key, sidecar'.lines)
        /\ (builds[c].at = "merge" => PageAgrees(builds[c].page, sidecar.lines))'
    BY DEF PageAgrees
<1>4. \A w \in Workers : requests'[w].at = "idle"
    OBVIOUS
<1>5. ~sidecar'.open /\ sidecar'.lines \in Seq(Decisions)
    BY DEF OneByOne
<1> QED BY <1>1, <1>2, <1>3, <1>4, <1>5 DEF OneByOne

\* What a build merges agrees with the decisions it loaded.
LEMMA WorkAgrees ==
    ASSUME IInv, OneByOne, NEW b \in Builders, Work(b)
    PROVE  OneByOne'
<1> DEFINE it == builds[b]
<1>1. /\ DOMAIN builds = Builders /\ BuildOk(it, master, sidecar)
      /\ {"at", "key", "from", "number", "entry", "scicat", "page"} \subseteq DOMAIN it
      /\ GoodPage(catalog, master, sidecar)
    BY DEF IInv, Typed, BuildOk
<1>2. it.at # "idle"
    BY DEF Work, PublishMaster, BuildRefused, RegisterScicat, LoadDecisions, LockCatalog, Merge
<1>3. /\ \A w \in Workers : requests[w].at = "idle"
      /\ \A c \in Builders \ {b} : builds[c].at = "idle"
      /\ PageAgrees(catalog, sidecar.lines)
    BY <1>2 DEF OneByOne, Alone
<1>4. NoBuild.at = "idle"
    BY DEF NoBuild
<1>5. CASE PublishMaster(b)
  <2>1. /\ UNCHANGED <<sidecar, catalog, requests>>
        /\ builds' = [builds EXCEPT ![b].at = "register", ![b].number = master[it.key] + 1]
    BY <1>5 DEF PublishMaster
  <2>2. /\ DOMAIN builds' = Builders /\ builds'[b].at = "register"
        /\ \A c \in Builders \ {b} : builds'[c] = builds[c]
    BY <1>1, <2>1
  <2> QED BY <1>3, <2>1, <2>2, BuildingStep
<1>6. ASSUME builds' = [builds EXCEPT ![b] = NoBuild], UNCHANGED <<sidecar, catalog, requests>>
      PROVE  OneByOne'
  <2>1. /\ DOMAIN builds' = Builders /\ builds'[b].at = "idle"
        /\ \A c \in Builders \ {b} : builds'[c] = builds[c]
    BY <1>1, <1>4, <1>6
  <2> QED BY <1>3, <1>6, <2>1, BuildingStep
<1>7. CASE BuildRefused(b)
    BY <1>6, <1>7 DEF BuildRefused, files
<1>8. CASE RegisterScicat(b)
  <2>1. PICK registered :
           builds' = [builds EXCEPT ![b].at = "load", ![b].scicat = registered]
    BY <1>8 DEF RegisterScicat
  <2>2. UNCHANGED <<sidecar, catalog, requests>>
    BY <1>8 DEF RegisterScicat, files
  <2>3. /\ DOMAIN builds' = Builders /\ builds'[b].at = "load"
        /\ \A c \in Builders \ {b} : builds'[c] = builds[c]
    BY <1>1, <2>1
  <2> QED BY <1>3, <2>2, <2>3, BuildingStep
<1>9. CASE LoadDecisions(b)
  <2>1. UNCHANGED <<sidecar, catalog, requests>>
    BY <1>9 DEF LoadDecisions, files
  <2>2. CASE Corrupt
    BY <1>6, <1>9, <2>1, <2>2 DEF LoadDecisions
  <2>3. CASE ~Corrupt
    <3> DEFINE entry == [Rebuilt(it.number, it.from, sidecar.lines, it.key)
                           EXCEPT !.scicat = it.scicat]
    <3>1. builds' = [builds EXCEPT ![b] = [it EXCEPT !.at = "lock", !.entry = entry]]
      BY <1>9, <2>3, Zenon DEF LoadDecisions
    <3>2. Agrees(entry, it.key, sidecar.lines)
      BY RebuiltAgrees, Zenon DEF AsRegistered
    <3> HIDE DEF entry
    <3>3. /\ DOMAIN builds' = Builders /\ \A c \in Builders \ {b} : builds'[c] = builds[c]
          /\ builds'[b] = [it EXCEPT !.at = "lock", !.entry = entry]
      BY <1>1, <3>1
    <3>4. builds'[b].at = "lock" /\ builds'[b].entry = entry /\ builds'[b].key = it.key
      BY <1>1, <3>3
    <3> QED BY <1>3, <2>1, <3>2, <3>3, <3>4, BuildingStep
  <2> QED BY <2>2, <2>3
<1>10. CASE LockCatalog(b)
  <2>1. /\ UNCHANGED <<sidecar, catalog, requests>> /\ it.at = "lock"
        /\ builds' = [builds EXCEPT ![b].at = "merge", ![b].page = catalog]
    BY <1>10 DEF LockCatalog, files
  <2>2. /\ DOMAIN builds' = Builders /\ \A c \in Builders \ {b} : builds'[c] = builds[c]
        /\ builds'[b] = [it EXCEPT !.at = "merge", !.page = catalog]
    BY <1>1, <2>1
  <2>3. /\ builds'[b].at = "merge" /\ builds'[b].entry = it.entry /\ builds'[b].key = it.key
        /\ builds'[b].page = catalog
    BY <1>1, <2>2
  <2>4. Agrees(it.entry, it.key, sidecar.lines)
    BY <2>1 DEF OneByOne
  <2> QED BY <1>3, <2>1, <2>2, <2>3, <2>4, BuildingStep
<1>11. CASE Merge(b)
  <2>1. /\ UNCHANGED <<sidecar, requests>> /\ it.at = "merge"
        /\ catalog' = [it.page EXCEPT ![it.key] = it.entry]
        /\ builds' = [builds EXCEPT ![b] = NoBuild]
    BY <1>11 DEF Merge
  <2>2. Agrees(it.entry, it.key, sidecar.lines) /\ PageAgrees(it.page, sidecar.lines)
    BY <2>1 DEF OneByOne
  <2>3. DOMAIN it.page = Keys
    BY <1>1, <2>1 DEF BuildOk, GoodPage
  <2>4. \A k \in Keys : catalog'[k] = IF k = it.key THEN it.entry ELSE it.page[k]
    BY <2>1, <2>3
  <2>5. PageAgrees(catalog', sidecar.lines)
    BY <2>2, <2>4 DEF PageAgrees
  <2>6. /\ DOMAIN builds' = Builders /\ builds'[b].at = "idle"
        /\ \A c \in Builders \ {b} : builds'[c] = builds[c]
    BY <1>1, <1>4, <2>1
  <2> QED BY <1>3, <2>1, <2>5, <2>6, BuildingStep
<1> QED BY <1>5, <1>7, <1>8, <1>9, <1>10, <1>11 DEF Work

\* A build begins when nobody is at work.
LEMMA StartAgrees ==
    ASSUME IInv, OneByOne, ~scene.overlaps, NEW b \in Builders, NEW k \in Keys, StartBuild(b, k)
    PROVE  OneByOne'
<1> DEFINE it == [NoBuild EXCEPT !.at = "publish", !.key = k, !.from = input]
<1>1. /\ \A w \in Workers : requests[w].at = "idle"
      /\ \A c \in Builders : builds[c].at = "idle"
      /\ PageAgrees(catalog, sidecar.lines)
    BY BeginsAlone DEF StartBuild
<1>2. builds' = [builds EXCEPT ![b] = it] /\ UNCHANGED <<sidecar, catalog, requests>>
    BY DEF StartBuild, files
<1>3. it.at = "publish"
    BY DEF NoBuild
<1> HIDE DEF it
<1>4. /\ DOMAIN builds' = Builders /\ builds'[b].at = "publish"
      /\ \A c \in Builders \ {b} : builds'[c] = builds[c]
    BY <1>2, <1>3 DEF IInv, Typed
<1> QED BY <1>1, <1>2, <1>4, BuildingStep

\* At first every entry is as built, of no decisions.
LEMMA InitAgrees == Init => LInv
<1> SUFFICES ASSUME Init PROVE OneByOne
    BY DEF LInv, Init
<1>1. sidecar.lines = <<>> /\ ~sidecar.open
    BY DEF Init, Empty
<1>2. ASSUME NEW k \in Keys PROVE Agrees(catalog[k], k, <<>>)
  <2> DEFINE entry == Rebuilt(0, 0, <<>>, k)
  <2>1. Agrees(AsRegistered(entry, Unregistered), k, <<>>)
    BY RebuiltAgrees, Zenon
  <2>2. entry = AsRegistered(entry, Unregistered)
    <3> DEFINE result == Outcome[0][k]
               attached == AppliedAttached(result, <<>>, k)
               review == AppliedReview(result, <<>>, k)
               summary == MatchSummary(attached, review)
    <3>1. entry = [number |-> 0, from |-> 0, loaded |-> Len(<<>>), scicat |-> Unregistered,
                   shots |-> result.shots, attached |-> attached, review |-> review,
                   marks |-> {}, summary |-> summary]
      BY Zenon DEF Rebuilt
    <3> HIDE DEF entry, result, attached, review, summary
    <3> QED BY <3>1 DEF AsRegistered
  <2>3. catalog[k] = entry
    BY DEF Init
  <2> HIDE DEF entry
  <2> QED BY <2>1, <2>2, <2>3, Zenon
<1>3. PageAgrees(catalog, sidecar.lines)
    BY <1>1, <1>2 DEF PageAgrees
<1>4. /\ \A w \in Workers : requests[w].at = "idle"
      /\ \A b \in Builders : builds[b].at = "idle"
    BY DEF Init, NoRequest, NoBuild
<1>5. Alone
    BY <1>4 DEF Alone
<1> QED BY <1>1, <1>3, <1>4, <1>5 DEF OneByOne

\* A step that leaves everything this is about alone.
LEMMA OtherStep ==
    ASSUME OneByOne, UNCHANGED <<sidecar, catalog, requests, builds>>
    PROVE  OneByOne'
BY DEF OneByOne, Alone, PageAgrees

\* The scene stays, and faults are only ever counted up.
LEMMA FaultsCount ==
    ASSUME [Next]_vars
    PROVE  scene' = scene /\ (faults' = faults \/ faults' = faults + 1)
<1> DEFINE Counted == scene' = scene /\ (faults' = faults \/ faults' = faults + 1)
<1>1. ASSUME NEW w, NEW k, NEW entry, NEW d, Begin(w, k, entry, d) PROVE Counted
    BY <1>1 DEF Begin
<1>2. ASSUME NEW w, Request(w) PROVE Counted
    BY <1>1, <1>2 DEF Request, Confirm, Dismiss, UpdateStatus, UpdateMetadata,
                      AppendEmulatedShot, EnrichLatestShot, Edit
<1>3. ASSUME NEW w, Serve(w) PROVE Counted
    BY <1>3 DEF Serve, WriteCatalog, StageEvent, AppendDecision, TruncateBackup, CopyBackup,
                counters
<1>4. ASSUME NEW w, RequestDies(w) PROVE Counted
    BY <1>4 DEF RequestDies, Fault
<1>5. ASSUME NEW b, Work(b) PROVE Counted
    BY <1>5 DEF Work, PublishMaster, BuildRefused, RegisterScicat, LoadDecisions, LockCatalog,
                Merge, counters
<1>6. ASSUME NEW b, BuildDies(b) \/ \E k \in Keys : StartBuild(b, k) PROVE Counted
    BY <1>6 DEF BuildDies, Fault, StartBuild
<1>7. CASE Land \/ UNCHANGED vars
    BY <1>7 DEF Land, vars, counters
<1> HIDE DEF Counted
<1>8. Counted
    BY <1>2, <1>3, <1>4, <1>5, <1>6, <1>7 DEF Next, Counted
<1> QED BY <1>8 DEF Counted

\* Every step keeps it.
LEMMA NextAgrees == IInv /\ LInv /\ [Next]_vars => LInv'
<1> SUFFICES ASSUME IInv, LInv, [Next]_vars PROVE LInv'
    OBVIOUS
<1>1. scene' = scene /\ (faults' = faults \/ faults' = faults + 1)
    BY FaultsCount
<1>2. faults' \in Nat /\ (faults' = 0 => faults = 0 /\ faults' = faults)
    BY <1>1 DEF LInv
<1>3. SUFFICES ASSUME ~scene.overlaps, faults' = 0 PROVE OneByOne'
    BY <1>1, <1>2 DEF LInv
<1>4. OneByOne /\ faults' = faults /\ faults = 0
    BY <1>2, <1>3 DEF LInv
<1>5. ASSUME NEW w \in Workers, RequestDies(w) PROVE FALSE
    BY <1>4, <1>5 DEF RequestDies, Fault
<1>6. ASSUME NEW b \in Builders, BuildDies(b) PROVE FALSE
    BY <1>4, <1>6 DEF BuildDies, Fault
<1>7. CASE Land
    BY <1>4, <1>7, OtherStep DEF Land
<1>8. CASE UNCHANGED vars
    BY <1>4, <1>8, OtherStep DEF vars, files
<1>9. CASE \E w \in Workers : Request(w) \/ Serve(w) \/ RequestDies(w)
    BY <1>3, <1>4, <1>5, <1>9, RequestAgrees, ServeAgrees
<1>10. CASE \E b \in Builders : Work(b) \/ BuildDies(b) \/ \E k \in Keys : StartBuild(b, k)
    BY <1>3, <1>4, <1>6, <1>10, WorkAgrees, StartAgrees
<1> QED BY <1>7, <1>8, <1>9, <1>10 DEF Next

\* What decisions make of the inputs is about events there are.
LEMMA AppliedEvents ==
    ASSUME NEW result, NEW lines, NEW k
    PROVE  /\ \A a \in AppliedAttached(result, lines, k) : a.event \in Events
           /\ \A r \in AppliedReview(result, lines, k) : r.event \in Events
BY DEF AppliedAttached, AppliedReview, AttachedBy, Confirmed, ToReview

-----------------------------------------------------------------------------
(* The theorems. *)

\* It holds at first: entries of nothing, masters of nothing, an empty sidecar.
LEMMA InitOk == Init => IInv
<1> SUFFICES ASSUME Init PROVE IInv
    OBVIOUS
<1>1. Empty \in Sidecars /\ ~CorruptIn(Empty) /\ Empty.lines = <<>>
    BY DEF Empty, Sidecars, CorruptIn
<1>2. sidecar = Empty /\ master = [k \in Keys |-> 0] /\ Typed
    BY <1>1 DEF Init, Typed
<1>3. ASSUME NEW k \in Keys
      PROVE  GoodEntry(catalog[k], k, master[k], sidecar) /\ catalog[k].number = master[k]
  <2> DEFINE entry == Rebuilt(0, 0, <<>>, k)
  <2>1. entry = [entry EXCEPT !.scicat = Unregistered]
    <3> DEFINE result == Outcome[0][k]
               attached == AppliedAttached(result, <<>>, k)
               review == AppliedReview(result, <<>>, k)
               summary == MatchSummary(attached, review)
    <3>1. entry = [number |-> 0, from |-> 0, loaded |-> Len(<<>>), scicat |-> Unregistered,
                   shots |-> result.shots, attached |-> attached, review |-> review,
                   marks |-> {}, summary |-> summary]
      BY Zenon DEF Rebuilt
    <3> HIDE DEF entry, result, attached, review, summary
    <3> QED BY <3>1
  <2>2. catalog[k] = entry /\ master[k] = 0
    BY DEF Init
  <2>3. entry = AsRegistered(Rebuilt(0, 0, Empty.lines, k), Unregistered)
    BY <1>1, <2>1, Zenon DEF AsRegistered
  <2> HIDE DEF entry
  <2>4. GoodEntry(entry, k, 0, Empty) /\ entry.number = 0
    <3>1. 0 \in Nat /\ Unregistered \in {0, Unregistered}
      OBVIOUS
    <3> QED BY <1>1, <2>3, <3>1, RebuiltGood
  <2> QED BY <1>2, <2>2, <2>4
<1>4. GoodPage(catalog, master, sidecar) /\ NumbersCurrent(catalog)
    BY <1>3 DEF Init, GoodPage, NumbersCurrent
<1>5. \A w \in Workers : RequestOk(requests[w], master, sidecar)
    BY IdleRequest DEF Init
<1>6. \A b \in Builders : BuildOk(builds[b], master, sidecar) /\ builds[b].at = "idle"
    BY IdleBuild DEF Init
<1>7. OneHolder /\ OneMerge /\ \A b \in Builders : builds[b].at # "merge"
    BY <1>6 DEF OneHolder, OneMerge, Holding
<1> QED BY <1>2, <1>4, <1>5, <1>6, <1>7 DEF IInv, Init

\* Every step keeps it.
LEMMA NextOk == IInv /\ [Next]_vars => IInv'
<1> SUFFICES ASSUME IInv, [Next]_vars PROVE IInv'
    OBVIOUS
<1>1. CASE Land
  <2>1. UNCHANGED <<scene, sidecar, master, catalog, requests, builds, answered, cut, reverted>>
    BY <1>1 DEF Land, history
  <2> QED BY <2>1 DEF IInv, Typed, NumbersCurrent, OneHolder, OneMerge
<1>2. CASE UNCHANGED vars
  <2>1. UNCHANGED <<scene, sidecar, master, catalog, requests, builds, answered, cut, reverted>>
    BY <1>2 DEF vars, files, history
  <2> QED BY <2>1 DEF IInv, Typed, NumbersCurrent, OneHolder, OneMerge
<1>3. CASE \E w \in Workers : Request(w) \/ Serve(w) \/ RequestDies(w)
    BY <1>3, RequestOfOperator, ServeOk, RequestDiesOk
<1>4. ASSUME NEW b \in Builders, BuildDies(b) PROVE IInv'
    BY <1>4, EndsOk DEF BuildDies, files, history
<1>5. CASE \E b \in Builders : Work(b) \/ BuildDies(b) \/ \E k \in Keys : StartBuild(b, k)
    BY <1>4, <1>5, WorkOk, StartBuildOk
<1> QED BY <1>1, <1>2, <1>3, <1>5 DEF Next

\* So it always holds.
LEMMA Invariance == Spec => []IInv
BY InitOk, NextOk, PTL DEF Spec

\* Whatever overlaps or is cut short, master and entry are of one build, and a
\* registration of that build, unless the key is noted as cut or reverted.
THEOREM MasterAndEntryAgree == Spec => []EntryIsOfMaster
<1>1. IInv => EntryIsOfMaster
    BY DEF IInv, GoodPage, GoodEntry, NumbersCurrent, EntryIsOfMaster
<1> QED BY <1>1, Invariance, PTL

\* A decision that a build has loaded shows in the entry from then on, whichever
\* of its pages requests and builders write back.
THEOREM LoadedDecisionsShow == Spec => []DecisionsShown
<1>1. IInv => DecisionsShown
  <2>1. SUFFICES ASSUME IInv, ~Corrupt, NEW k \in Keys
                 PROVE  ShownIn(catalog[k], k, SubSeq(sidecar.lines, 1, catalog[k].loaded))
    BY DEF DecisionsShown, ShownIn
  <2>2. ~CorruptIn(sidecar)
    BY <2>1 DEF Corrupt, CorruptIn
  <2> QED BY <2>1, <2>2 DEF IInv, GoodPage, GoodEntry
<1> QED BY <1>1, Invariance, PTL

\* An answered decision is never dropped in silence, for any number of appends
\* cut short.
THEOREM NoSilentLoss == Spec => []AnsweredOrLoud
<1>1. IInv => AnsweredOrLoud
    BY DEF IInv, AnsweredOrLoud, Recorded, Corrupt, CorruptIn
<1> QED BY <1>1, Invariance, PTL

\* The request handlers and a rebuild agree on every settled event, and on the
\* counts, for any number of decisions, edits, builds and changes of the inputs.
THEOREM HandlersAgreeWithBuilds == Spec => []LiveEqualsRebuilt
<1>1. IInv /\ LInv => LiveEqualsRebuilt
  <2> SUFFICES ASSUME IInv, LInv, ~scene.overlaps, faults = 0, Serving \cup Building = {},
                      NEW k \in Keys
               PROVE  LET live == catalog[k]
                          again == Rebuilt(live.number, live.from, sidecar.lines, k)
                          settled == {e \in Events : ~Outranked(k, e)}
                          OfThese(S) == {x \in S : x.event \in settled}
                      IN /\ OfThese(live.attached) = OfThese(again.attached)
                         /\ OfThese(live.review) = OfThese(again.review)
                         /\ settled = Events => live.summary = again.summary
    BY DEF LiveEqualsRebuilt
  <2> DEFINE live == catalog[k]
             lines == sidecar.lines
             result == Outcome[live.from][k]
             attached == AppliedAttached(result, lines, k)
             review == AppliedReview(result, lines, k)
             again == Rebuilt(live.number, live.from, lines, k)
             settled == {e \in Events : ~Outranked(k, e)}
  <2>1. Agrees(live, k, lines)
    <3>1. \A w \in Workers : requests[w].at = "idle"
      BY DEF Serving
    <3> QED BY <3>1 DEF LInv, OneByOne, PageAgrees
  <2>2. again.attached = attached /\ again.review = review
        /\ again.summary = MatchSummary(attached, review)
    <3> DEFINE summary == MatchSummary(attached, review)
    <3>1. again = [number |-> live.number, from |-> live.from, loaded |-> Len(lines),
                   scicat |-> Unregistered, shots |-> result.shots, attached |-> attached,
                   review |-> review, marks |-> {}, summary |-> summary]
      BY Zenon DEF Rebuilt
    <3>2. again.attached = attached /\ again.review = review /\ again.summary = summary
      <4> HIDE DEF again, live, lines, result, attached, review, summary
      <4> QED BY <3>1
    <3> QED BY <3>2
  <2>3. ASSUME NEW e \in settled
        PROVE  Of(live.attached, e) = Of(attached, e) /\ Of(live.review, e) = Of(review, e)
    <3>1. e \in Events /\ Settled(lines, k, e)
      BY DEF Outranked, Latest, Settled, LatestIn
    <3>2. ShowsAs(live, k, lines, e)
      BY <2>1, <3>1 DEF Agrees
    <3> QED BY <3>2, Zenon DEF ShowsAs
  <2>4. /\ \A a \in live.attached : a.event \in Events
        /\ \A r \in live.review : r.event \in Events
        /\ live.summary = MatchSummary(live.attached, live.review)
    BY <2>1 DEF Agrees, Whole, ToReview
  <2>5. /\ \A a \in attached : a.event \in Events
        /\ \A r \in review : r.event \in Events
    BY AppliedEvents
  <2> HIDE DEF live, attached, review, again, settled
  <2>6. ASSUME NEW S, NEW T, \A e \in settled : Of(S, e) = Of(T, e)
        PROVE  {x \in S : x.event \in settled} = {x \in T : x.event \in settled}
    BY <2>6 DEF Of
  <2>7. /\ {x \in live.attached : x.event \in settled} = {x \in attached : x.event \in settled}
        /\ {x \in live.review : x.event \in settled} = {x \in review : x.event \in settled}
    BY <2>3, <2>6
  <2>8. ASSUME settled = Events PROVE live.summary = MatchSummary(attached, review)
    <3>1. live.attached = attached /\ live.review = review
      BY <2>4, <2>5, <2>7, <2>8
    <3> QED BY <2>4, <3>1
  <2>9. /\ {x \in live.attached : x.event \in settled} = {x \in again.attached : x.event \in settled}
        /\ {x \in live.review : x.event \in settled} = {x \in again.review : x.event \in settled}
        /\ settled = Events => live.summary = again.summary
    BY <2>2, <2>7, <2>8
  <2> QED BY <2>9, Zenon DEF live, again, settled, lines
<1>2. Spec => [](IInv /\ LInv)
  <2>1. Init => IInv /\ LInv
    BY InitOk, InitAgrees
  <2>2. IInv /\ LInv /\ [Next]_vars => (IInv /\ LInv)'
    BY NextOk, NextAgrees
  <2> QED BY <2>1, <2>2, PTL DEF Spec
<1> QED BY <1>1, <1>2, PTL
=============================================================================
