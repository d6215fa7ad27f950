---- MODULE SignalOutbox ----
(***************************************************************************)
(* What the durable system signals promise (docs/adr/0091): an operation   *)
(* gets one outcome, its notice is published in the very step that records *)
(* the outcome, and the notice stays pending until it has been saved with  *)
(* a turn or put aside as a dead letter. Neither is ever taken back; only  *)
(* a delivered notice may be forgotten. One transaction may move several   *)
(* operations, each along its own edge.                                    *)
(***************************************************************************)
CONSTANT Ops

VARIABLES
    outcome,  \* [Ops -> Outcomes]
    notice    \* [Ops -> Notices]

Concluded == {"completed", "failed", "outcome_unknown"}
Outcomes == {"none", "accepted"} \cup Concluded
Notices == {"none", "pending", "delivered", "dead"}

Init ==
    /\ outcome = [o \in Ops |-> "none"]
    /\ notice = [o \in Ops |-> "none"]

Rests(o) == outcome'[o] = outcome[o] /\ notice'[o] = notice[o]

Accept(o) ==
    /\ outcome[o] = "none" /\ outcome'[o] = "accepted"
    /\ notice'[o] = notice[o]

Conclude(o) ==
    /\ outcome[o] \in {"none", "accepted"} /\ outcome'[o] \in Concluded
    /\ notice[o] = "none" /\ notice'[o] = "pending"

Deliver(o) ==
    /\ outcome'[o] = outcome[o]
    /\ notice[o] = "pending" /\ notice'[o] = "delivered"

Bury(o) ==
    /\ outcome'[o] = outcome[o]
    /\ notice[o] = "pending" /\ notice'[o] = "dead"

Forget(o) ==
    /\ outcome'[o] = "none"
    /\ notice[o] = "delivered" /\ notice'[o] = "none"

Moves(o) == Accept(o) \/ Conclude(o) \/ Deliver(o) \/ Bury(o) \/ Forget(o)

Next ==
    /\ outcome' \in [Ops -> Outcomes]
    /\ notice' \in [Ops -> Notices]
    /\ \A o \in Ops : Rests(o) \/ Moves(o)

outboxVars == <<outcome, notice>>

Spec == Init /\ [][Next]_outboxVars

====
