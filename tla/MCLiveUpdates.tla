--------------------------- MODULE MCLiveUpdates ---------------------------
(* Small scenes for the subscription: two subscribers and a dropping one, *)
(* a lone one with failing polls, and a file that is created late.        *)
EXTENDS LiveUpdates, TLC

CONSTANTS c1, c2

Quiet == [what \in Limits |-> 0]
MCScenes ==
    { \* two subscribers, rows committed out of order, a tag edit
      [clients |-> {c1, c2}, table |-> TRUE, ordered |-> FALSE,
       limits |-> [Quiet EXCEPT !["rows"] = 2]],
      [clients |-> {c1, c2}, table |-> FALSE, ordered |-> TRUE,
       limits |-> [Quiet EXCEPT !["rows"] = 1, !["edits"] = 1]],
      \* one that drops, and one alone with polls that fail
      [clients |-> {c1}, table |-> TRUE, ordered |-> TRUE,
       limits |-> [Quiet EXCEPT !["rows"] = 1, !["edits"] = 1, !["drops"] = 1]],
      [clients |-> {c1}, table |-> FALSE, ordered |-> TRUE,
       limits |-> [Quiet EXCEPT !["rows"] = 2, !["edits"] = 1, !["failures"] = 2]] }
=============================================================================
