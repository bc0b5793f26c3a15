--------------------------- MODULE MCReviewCatalog ---------------------------
(* A small instance of ReviewCatalog: campaign k1 has an event with two      *)
(* candidate shots and one without any; with the second version of its       *)
(* inputs one of the shots is gone, with the third it is back, and the first *)
(* event matches by itself.  k2 has one matched event.                       *)
EXTENDS ReviewCatalog, TLC

MCOutcome ==
    [v \in 0..2 |->
       [k1 |-> [status |-> "e1" :> (IF v = 2 THEN "matched" ELSE "ambiguous")
                           @@ "e2" :> (IF v = 1 THEN "ambiguous" ELSE "unmatched"),
                places |-> "e1" :> (IF v = 0 THEN {"s1", "s2"} ELSE {"s2"})
                           @@ "e2" :> (IF v = 1 THEN {"s2"} ELSE {}),
                shots |-> IF v = 1 THEN {"s2"} ELSE {"s1", "s2"}],
        k2 |-> [status |-> "e1" :> "absent" @@ "e2" :> "matched",
                places |-> "e1" :> {} @@ "e2" :> {"s1"},
                shots |-> {"s1"}]]]

MCScenes ==
    {\* one at a time: long sequences of decisions, edits, builds and changes
     [overlaps |-> FALSE, workers |-> {"w1"}, builders |-> {"b1"}, levels |-> {1, 2},
      edits |-> {"field"}, scicat |-> FALSE,
      requests |-> 3, builds |-> 2, versions |-> 2, faults |-> 0],
     \* two builders and a request interleave
     [overlaps |-> TRUE, workers |-> {"w1"}, builders |-> {"b1", "b2"}, levels |-> {1},
      edits |-> {"status"}, scicat |-> TRUE,
      requests |-> 2, builds |-> 2, versions |-> 0, faults |-> 1],
     \* two requests and a builder interleave
     [overlaps |-> TRUE, workers |-> {"w1", "w2"}, builders |-> {"b1"}, levels |-> {1},
      edits |-> {"emulated", "enriched"}, scicat |-> FALSE,
      requests |-> 2, builds |-> 1, versions |-> 1, faults |-> 1]}
==============================================================================
