-------------------------- MODULE MCBuilderTrigger --------------------------
(***************************************************************************)
(* The deployments: containers and validation on, with a gate that may     *)
(* fail to start; containers, with builds and workers that cannot be       *)
(* started and builds that fail, or with a restart; no containers, so that *)
(* each build is followed by the gate directly.                            *)
(***************************************************************************)
EXTENDS BuilderTrigger

Limits(kinds) == [k \in FaultKinds |-> IF k \in kinds THEN 1 ELSE 0]

MCScenes ==
    {[containers |-> TRUE, validates |-> TRUE, relinks |-> 1, workers |-> 3,
      limit |-> Limits({"gate"})],
     [containers |-> TRUE, validates |-> FALSE, relinks |-> 0, workers |-> 2,
      limit |-> Limits({"launch", "worker", "build"})],
     [containers |-> TRUE, validates |-> FALSE, relinks |-> 0, workers |-> 2,
      limit |-> Limits({"restart"})],
     [containers |-> FALSE, validates |-> TRUE, relinks |-> 0, workers |-> 2,
      limit |-> Limits({"gate", "build"})]}

=============================================================================
