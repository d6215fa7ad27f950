---- MODULE SerialExecutor ----
(***************************************************************************)
(* What lib/agents/run-queue.ts promises its callers, without lanes,       *)
(* positions or deadlines: on every thread at most one job owns the        *)
(* conversation, a job is owned by one thread only, and a thread that has  *)
(* waiting jobs is never left without an owner.                            *)
(***************************************************************************)
CONSTANTS
    Threads,  \* conversation threads
    Jobs,     \* queued calls; a settled call may be submitted again
    NoJob     \* the thread has no owner

VARIABLES
    owner,    \* [Threads -> Jobs \cup {NoJob}]: the job that owns the thread
    pending   \* [Threads -> SUBSET Jobs]: the jobs that wait for it

vars == <<owner, pending>>

Busy(j) == \E t \in Threads : owner[t] = j \/ j \in pending[t]

Init ==
    /\ owner = [t \in Threads |-> NoJob]
    /\ pending = [t \in Threads |-> {}]

\* A free thread is given to the new job at once.
Take(t, j) ==
    /\ ~Busy(j)
    /\ owner[t] = NoJob
    /\ owner' = [owner EXCEPT ![t] = j]
    /\ UNCHANGED pending

\* The job waits behind the owner.
Wait(t, j) ==
    /\ ~Busy(j)
    /\ owner[t] # NoJob
    /\ pending' = [pending EXCEPT ![t] = @ \cup {j}]
    /\ UNCHANGED owner

\* The owner leaves and hands the thread to a waiting job in the same step.
HandOver(t, j) ==
    /\ owner[t] # NoJob
    /\ j \in pending[t]
    /\ owner' = [owner EXCEPT ![t] = j]
    /\ pending' = [pending EXCEPT ![t] = @ \ {j}]

\* The owner leaves and nobody waits.
Release(t) ==
    /\ owner[t] # NoJob
    /\ pending[t] = {}
    /\ owner' = [owner EXCEPT ![t] = NoJob]
    /\ UNCHANGED pending

Next ==
    \E t \in Threads :
        \/ Release(t)
        \/ \E j \in Jobs : Take(t, j) \/ Wait(t, j) \/ HandOver(t, j)

Spec == Init /\ [][Next]_vars

====
