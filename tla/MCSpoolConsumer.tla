-------------------------- MODULE MCSpoolConsumer --------------------------
(***************************************************************************)
(* Two events; the first is published for the configured campaign, the     *)
(* second once for a campaign of its own and once as unassigned, so that   *)
(* one identity can reach two spool files.  The scenes: each transport     *)
(* with what it survives, and HTTP and ASAPO with appends cut short and    *)
(* power losses, HTTP also with failing fsyncs and crashes among them, and *)
(* Kafka with a power loss.                                                *)
(***************************************************************************)
EXTENDS SpoolConsumer

CONSTANTS e1, e2, c1, c2, noName

MCRecords == {[id |-> e1, experiment |-> noName],
              [id |-> e2, experiment |-> c2],
              [id |-> e2, experiment |-> Unassigned]}

Scene(transport, kinds, n) ==
    [transport |-> transport, limit |-> [k \in FaultKinds |-> IF k \in kinds THEN n ELSE 0]]

MCScenes == {Scene("http", {"nospace", "fsync", "ack", "crash"}, 1),
             Scene("kafka", {"ack", "crash"}, 2),
             Scene("asapo", {"nospace", "ack", "crash"}, 1),
             Scene("http", {"torn", "power", "crash", "fsync"}, 1),
             Scene("kafka", {"power", "ack"}, 1),
             Scene("asapo", {"torn", "power"}, 1)}

MCFullDisk == {Scene("kafka", {"nospace"}, 1)}
=============================================================================
