-------------------------- MODULE MCContainerWorker --------------------------
(***************************************************************************)
(* Small budgets for the container workers.  Each is one scenario: two     *)
(* changes of what the shots consist of, or one and a fault of one kind,   *)
(* or a raw file that changes or comes and goes.                           *)
(***************************************************************************)
EXTENDS ContainerWorker, TLC

NoBudget == [what \in Outside |-> 0]
Twice == [NoBudget EXCEPT !["land"] = 2]
Once(what) == [NoBudget EXCEPT !["land"] = 1, ![what] = 1]
Touched == [NoBudget EXCEPT !["touch"] = 3]

MCBudgets == {Twice, Once("crash"), Once("fail"), Once("overtake"), Touched}

Alike == Permutations(Shots) \cup Permutations(Workers)
=============================================================================
