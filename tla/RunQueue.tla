---- MODULE RunQueue ----
(***************************************************************************)
(* lib/agents/run-queue.ts: the per-thread priority queue every agent run  *)
(* goes through. JavaScript runs one callback at a time, so an action is   *)
(* one synchronous stretch: a call of enqueueThreadRun (with the drain it  *)
(* ends in), the microtask that checks the deadline and calls the runner,  *)
(* and the callback of the runner's promise (with finish and its drain).   *)
(*                                                                         *)
(* A member of Jobs is a caller's slot: once its promise has settled the   *)
(* slot may be used for another call, so that behaviours are unbounded.    *)
(***************************************************************************)
EXTENDS Integers, Sequences, Functions

CONSTANTS
    Threads,   \* conversation threads
    Jobs,      \* callers' slots
    NoJob,     \* queue.active = undefined
    MaxDepth,  \* options.maxDepth ?? DEFAULT_MAX_DEPTH
    Expiring   \* the slots whose calls pass options.expiresAt

ASSUME RunQueueAssumption ==
    /\ NoJob \notin Jobs
    /\ MaxDepth \in Nat \ {0}
    /\ Expiring \subseteq Jobs

Lanes == {"interactive", "background"}

sourceLanes ==
    [user      |-> "interactive", bridge  |-> "interactive",
     delegate  |-> "interactive", watcher |-> "background",
     scheduler |-> "background",  trigger |-> "background",
     extension |-> "background"]

\* options.lane ?? sourceLanes[source]: a caller's override, or the default.
lane(source, override) ==
    IF override \in Lanes THEN override ELSE sourceLanes[source]

VARIABLES
    registered,  \* the threads that have an entry in the `queues` map
    active,      \* [Threads -> Jobs \cup {NoJob}]: queue.active
    waiting,     \* [Threads -> [Lanes -> Seq(Jobs)]]: queue.interactive, .background
    status,      \* [Jobs -> Statuses]: how far the call has come
    deadline,    \* [Jobs -> Deadlines]: expiresAt against Date.now()
    position,    \* [Jobs -> Nat]: the position enqueueThreadRun returned
    served       \* history: owners that left since the call, up to MaxDepth
                 \* (position, deadline and served are reset when the call settles)

vars == <<registered, active, waiting, status, deadline, position, served>>

\* "queued": in a lane; "picked": queue.active, its microtask not yet run;
\* "running": the runner was called; "idle": no call, or its promise settled
\* with what the runner returned or threw; "expired": rejected unstarted.
Free == {"idle", "expired"}
Statuses == {"queued", "picked", "running"} \cup Free
Deadlines == {"none", "ahead", "passed"}

TypeOK ==
    /\ registered \in SUBSET Threads
    /\ active \in [Threads -> Jobs \cup {NoJob}]
    /\ waiting \in [Threads -> [Lanes -> Seq(Jobs)]]
    /\ status \in [Jobs -> Statuses]
    /\ deadline \in [Jobs -> Deadlines]
    /\ position \in [Jobs -> Nat]
    /\ served \in [Jobs -> 0..MaxDepth]

----------------------------------------------------------------------------
(* The operations.                                                         *)

Empty == [l \in Lanes |-> <<>>]

\* queues.get(thread_id) ?? {interactive: [], background: []}
entryActive(t) == IF t \in registered THEN active[t] ELSE NoJob
entryLanes(t) == IF t \in registered THEN waiting[t] ELSE Empty

\* Mutant of depth: the active job does not count.
depthOfLanes(t) ==
    Len(entryLanes(t)["interactive"]) + Len(entryLanes(t)["background"])

depth(t) ==
    (IF entryActive(t) = NoJob THEN 0 ELSE 1)
        + Len(entryLanes(t)["interactive"]) + Len(entryLanes(t)["background"])

\* Mutants of ahead: every lane counts for every job; one too few.
aheadInAllLanes(t, l) == depth(t)
aheadLessOne(t, l) == depth(t) - 1

\* Jobs ahead of a new one of lane l.
ahead(t, l) ==
    (IF entryActive(t) = NoJob THEN 0 ELSE 1)
        + Len(entryLanes(t)["interactive"])
        + (IF l = "background" THEN Len(entryLanes(t)["background"]) ELSE 0)

Init ==
    /\ registered = {}
    /\ active = [t \in Threads |-> NoJob]
    /\ waiting = [t \in Threads |-> Empty]
    /\ status = [j \in Jobs |-> "idle"]
    /\ deadline = [j \in Jobs |-> "none"]
    /\ position = [j \in Jobs |-> 0]
    /\ served = [j \in Jobs |-> 0]

\* Mutant of mayShift: background jobs first.
mayShiftBackground(w, l) == w[l] # <<>> /\ (l = "interactive" => w["background"] = <<>>)

\* queue.interactive.shift() ?? queue.background.shift()
mayShift(w, l) == w[l] # <<>> /\ (l = "background" => w["interactive"] = <<>>)

\* Mutant of shifted: the job is read but stays in its lane.
peeked(w, l) == w

shifted(w, l) == [w EXCEPT ![l] = Tail(w[l])]

\* queue[lane].push(job)
pushed(w, l, j) == [m \in Lanes |-> IF m = l THEN Append(w[m], j) ELSE w[m]]

\* drain of a queue without an active job, whose lanes hold w; st is status
\* with the caller's own change. The first waiting interactive job is taken,
\* else the first background job, else the map entry is deleted.
drain(t, w, st) ==
    \/ \E l \in Lanes :
        /\ mayShift(w, l)
        /\ active' = [active EXCEPT ![t] = Head(w[l])]
        /\ waiting' = [waiting EXCEPT ![t] = shifted(w, l)]
        /\ status' = [st EXCEPT ![Head(w[l])] = "picked"]
        /\ registered' = registered \cup {t}
    \/ /\ w = Empty
       /\ active' = [active EXCEPT ![t] = NoJob]
       /\ waiting' = [waiting EXCEPT ![t] = w]
       /\ status' = st
       /\ registered' = registered \ {t}

\* Mutant of drains: an interactive call does not wait for the active job.
drainsAtOnce(t, l) == entryActive(t) = NoJob \/ l = "interactive"

\* `if (queue.active) return`, read for a job of lane l that was just pushed.
drains(t, l) == entryActive(t) = NoJob

\* enqueueThreadRun: push, register, drain. At the depth limit it throws
\* QueueFullError before it has changed anything.
Enqueue(t, j, l) ==
    LET w == pushed(entryLanes(t), l, j)
        st == [status EXCEPT ![j] = "queued"]
    IN  /\ status[j] \in Free
        /\ depth(t) < MaxDepth
        /\ position' = [position EXCEPT ![j] = ahead(t, l)]
        /\ deadline' = [deadline EXCEPT ![j] = IF j \in Expiring THEN "ahead" ELSE "none"]
        /\ served' = [served EXCEPT ![j] = 0]
        /\ IF drains(t, l)
           THEN drain(t, w, st)
           ELSE /\ waiting' = [waiting EXCEPT ![t] = w]
                /\ status' = st
                /\ registered' = registered \cup {t}
                /\ UNCHANGED active

InLane(t, l) == Range(waiting[t][l])
Waiters(t) == InLane(t, "interactive") \cup InLane(t, "background")

\* Mutant of stillRegistered: finish takes the queue for a replaced one.
neverRegistered(t) == FALSE

\* queues.get(thread_id) === queue
stillRegistered(t) == t \in registered

\* finish: the owner leaves; the queue is drained if the map still holds it.
finish(t, outcome) ==
    LET st == [status EXCEPT ![active[t]] = outcome]
    IN  /\ served' = [j \in Jobs |->
                        IF j = active[t] THEN 0
                        ELSE IF j \in Waiters(t) /\ served[j] < MaxDepth
                        THEN served[j] + 1
                        ELSE served[j]]
        /\ deadline' = [deadline EXCEPT ![active[t]] = "none"]
        /\ position' = [position EXCEPT ![active[t]] = 0]
        /\ IF stillRegistered(t)
           THEN drain(t, waiting[t], st)
           ELSE /\ active' = [active EXCEPT ![t] = NoJob]
                /\ status' = st
                /\ UNCHANGED <<registered, waiting>>

\* The microtask of a picked job: its deadline has not passed.
Start(t) ==
    /\ active[t] # NoJob
    /\ status[active[t]] = "picked"
    /\ deadline[active[t]] # "passed"
    /\ status' = [status EXCEPT ![active[t]] = "running"]
    /\ deadline' = [deadline EXCEPT ![active[t]] = "none"]
    /\ UNCHANGED <<registered, active, waiting, position, served>>

\* The microtask of a picked job throws QueueExpiredError instead.
Expire(t) ==
    /\ active[t] # NoJob
    /\ status[active[t]] = "picked"
    /\ deadline[active[t]] = "passed"
    /\ finish(t, "expired")

\* The runner's promise settles; a rejection does to the queue what a value does.
Settle(t) ==
    /\ active[t] # NoJob
    /\ status[active[t]] = "running"
    /\ finish(t, "idle")

\* Date.now() reaches expiresAt; after Start nobody reads it any more.
PassDeadline(j) ==
    /\ deadline[j] = "ahead"
    /\ deadline' = [deadline EXCEPT ![j] = "passed"]
    /\ UNCHANGED <<registered, active, waiting, status, position, served>>

RequestedLanes ==
    {lane(source, override) : source \in DOMAIN sourceLanes,
                              override \in Lanes \cup {"default"}}

Next ==
    \/ \E t \in Threads :
        \/ \E j \in Jobs, l \in RequestedLanes : Enqueue(t, j, l)
        \/ Start(t)
        \/ Expire(t)
        \/ Settle(t)
    \/ \E j \in Jobs : PassDeadline(j)

\* Microtasks always run. That a runner's promise settles is assumed: the
\* run registry's watchdogs abort a run that makes no progress.
Fairness ==
    \A t \in Threads : WF_vars(Start(t) \/ Expire(t)) /\ WF_vars(Settle(t))

Spec == Init /\ [][Next]_vars
FairSpec == Spec /\ Fairness

----------------------------------------------------------------------------
(* The properties.                                                         *)

\* A call whose promise is open is in exactly one place: one index of one
\* lane of one thread, or the active slot of one thread; and a settled call
\* is nowhere. So no call is lost by deleting a map entry, run twice, or
\* run on two threads.
EveryCallHasOnePlace ==
    /\ \A j \in Jobs :
        /\ status[j] = "queued" <=> \E t \in Threads : j \in Waiters(t)
        /\ status[j] \in {"picked", "running"} <=> \E t \in Threads : active[t] = j
    /\ \A t, u \in Threads : \A l, m \in Lanes :
        \A i \in DOMAIN waiting[t][l], k \in DOMAIN waiting[u][m] :
            waiting[t][l][i] = waiting[u][m][k] => <<t, l, i>> = <<u, m, k>>
    /\ \A t, u \in Threads : active[t] = active[u] => t = u \/ active[t] = NoJob

\* A thread with waiting jobs always has an owner and a map entry: finish
\* and the deletion of an idle entry never strand a job.
NeverStalled ==
    \A t \in Threads :
        /\ Waiters(t) # {} => active[t] # NoJob
        /\ active[t] # NoJob <=> t \in registered

\* The depth limit counts the active job and both lanes.
DepthBounded ==
    \A t \in Threads :
        Len(waiting[t]["interactive"]) + Len(waiting[t]["background"])
            <= IF active[t] = NoJob THEN MaxDepth ELSE MaxDepth - 1

\* position is "the number of jobs ahead in the current priority ordering":
\* exactly that many owners leave before an interactive job is picked, and at
\* least that many before a background job, which later interactive calls
\* may overtake.
PositionHonoured ==
    \A j \in Jobs : \A t \in Threads :
        /\ active[t] = j => served[j] >= position[j]
        /\ \A i \in DOMAIN waiting[t]["interactive"] :
            waiting[t]["interactive"][i] = j => served[j] + i = position[j]

\* A waiting job's runner is called only while the job owns the thread, and
\* the owner changes only when it has settled: no preemption.
NoPreemption ==
    [][\A t \in Threads :
        active[t] # NoJob /\ active'[t] # active[t] => status'[active[t]] \in Free]_vars

\* An interactive job is never passed over: it is picked in the end whatever
\* the callers keep submitting.
InteractiveServed ==
    \A j \in Jobs :
        (\E t \in Threads : j \in InLane(t, "interactive")) ~> status[j] # "queued"

\* The queue implements the abstract executor.
Executor == INSTANCE SerialExecutor WITH
    owner <- active,
    pending <- [t \in Threads |-> Waiters(t)]

ImplementsExecutor == Executor!Spec

====
