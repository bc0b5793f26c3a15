---------------------------- MODULE DurableSpool ----------------------------
(***************************************************************************)
(* What the ingest side promises, with no broker, file or process in it:   *)
(* producers publish events, the spool accepts them, and a message is      *)
(* acknowledged only once its event is accepted (the invariant at the top  *)
(* of consumer/spool.py).  An accepted event is never lost again and an    *)
(* acknowledgement is never taken back; but where the deployment is not    *)
(* firm, the spool may lose what it accepted.                              *)
(***************************************************************************)
EXTENDS Naturals, Sequences

CONSTANTS
    Records,    \* messages a producer can publish: [id, experiment]
    Junk,       \* a broker record that is JSON but no object
    Garbled     \* a broker record that is no JSON: never acknowledged

VARIABLES
    firm,       \* whether the deployment keeps the promise
    log,        \* everything published, in broker order
    accepted,   \* identities of the events the spool holds
    acked       \* offsets of the acknowledged messages

Init ==
    /\ firm \in BOOLEAN
    /\ log = <<>>
    /\ accepted = {}
    /\ acked = {}

Publish(r) ==
    /\ log' = Append(log, r)
    /\ UNCHANGED <<firm, accepted, acked>>

\* Accepting the same event a second time changes nothing.
Accept(i) ==
    /\ log[i] \in Records
    /\ accepted' = accepted \cup {log[i].id}
    /\ UNCHANGED <<firm, log, acked>>

\* A record that is no object has nothing to accept and may be passed over.
Settled(i) == log[i] = Junk \/ (log[i] \in Records /\ log[i].id \in accepted)

Acknowledge(S) ==
    /\ firm => \A i \in S : Settled(i)
    /\ acked' = acked \cup S
    /\ UNCHANGED <<firm, log, accepted>>

Lose(S) ==
    /\ ~ firm
    /\ accepted' = S
    /\ UNCHANGED <<firm, log, acked>>

Next ==
    \/ \E r \in Records \cup {Junk, Garbled} : Publish(r)
    \/ \E i \in 1..Len(log) : Accept(i)
    \/ \E S \in SUBSET (1..Len(log)) : Acknowledge(S)
    \/ \E S \in SUBSET accepted : Lose(S)

Spec == Init /\ [][Next]_<<firm, log, accepted, acked>>
=============================================================================
