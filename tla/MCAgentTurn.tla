---- MODULE MCAgentTurn ----
(* Two callers without a deadline and one with, and two steering messages: *)
(* MaxDepth 2 lets a continuation find the queue full.                     *)
EXTENDS AgentTurn

CONSTANTS j1, j2, e1, m1, m2

MCJobs == {j1, j2, e1}
MCExpiring == {e1}
MCMessages == {m1, m2}

\* Slots and requests are only names: of the free slots of callers without a
\* deadline j1 is opened first, of the requests not sent yet m1 is sent first.
MCInOrder ==
    /\ status[j2] \in Queue!Free /\ status'[j2] \notin Queue!Free
        => status[j1] \notin Queue!Free
    /\ fate[m2] = "unsent" /\ fate'[m2] # "unsent" => fate[m1] # "unsent"

====
