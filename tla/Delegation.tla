---- MODULE Delegation ----
(***************************************************************************)
(* lib/tools/delegation/delegate.ts and lib/agents/delegation-budget.ts:   *)
(* a turn hands a task to another agent and waits for the reply in a tool  *)
(* call. The child is a turn of the other agent's thread, so it waits in   *)
(* that thread's run queue, may delegate itself, and spends from the       *)
(* budget of the root turn. The queue is the abstract SerialExecutor,      *)
(* which RunQueue implements, with its depth limit.                        *)
(*                                                                         *)
(* A handoff is its number in the order in which the handoffs were queued. *)
(* Roots are turns of a user; each is used once.                           *)
(***************************************************************************)
EXTENDS Integers, Sequences, FiniteSets, Functions

CONSTANTS
    Agents,                \* one thread each (getOrCreateAgentThread)
    Roots,                 \* turns nobody delegated
    Home,                  \* [Roots -> Agents]: the agent each runs on
    NoTurn,                \* the thread has no owner
    MAX_DELEGATION_DEPTH,
    MaxThreadDepth,        \* DEFAULT_MAX_DEPTH of the run queue
    Budgets,               \* the roots that take part and their budgets' limits
    Price,                 \* maxInferenceCostUsd: what one inference reserves
    MaxHandoffs            \* bound of the model: the handoffs of a behaviour

ASSUME DelegationAssumption ==
    /\ NoTurn \notin Roots \cup (1..MaxHandoffs)
    /\ Roots \cap (1..MaxHandoffs) = {}
    /\ Home \in [Roots -> Agents]
    /\ {Price, MaxHandoffs, MaxThreadDepth, MAX_DELEGATION_DEPTH} \subseteq Nat
    /\ \A limits \in Budgets :
         DOMAIN limits \subseteq Roots /\ limits \in [DOMAIN limits -> [maxCalls : Nat, maxCostUsd : Nat]]

VARIABLES
    owner, pending,  \* the threads' run queues
    root,            \* function on the roots that take part: turn and BudgetState
    handoff          \* sequence of the delegated turns

delegationVars == <<owner, pending, root, handoff>>

Queue == INSTANCE SerialExecutor WITH
    Threads <- Agents, Jobs <- Roots \cup (1..MaxHandoffs), NoJob <- NoTurn

Handoffs == 1..Len(handoff)

\* "authorizing" to "preparing" is where the timer and the abort listener are
\* installed.
HandoffPhases == {"queued", "authorizing", "preparing", "streaming", "settled"}
Armed == {"preparing", "streaming"}

RootRecords ==
    [phase : {"idle", "queued", "running", "done"},
     stopped : BOOLEAN, expired : BOOLEAN, maxCalls : Nat, maxCostUsd : Nat,
     calls : Nat, committed : Nat, reserved : Nat, exceeded : BOOLEAN, overran : BOOLEAN]

HandoffRecords ==
    [phase : HandoffPhases, root : Roots, parent : Roots \cup (1..MaxHandoffs), agent : Agents,
     chain : SUBSET (Roots \cup (1..MaxHandoffs)),
     told : {"open", "answered", "abandoned"}, aborted : BOOLEAN, reserved : {0, Price}]

DelegationTypeOK ==
    /\ owner \in [Agents -> Roots \cup (1..MaxHandoffs) \cup {NoTurn}]
    /\ pending \in [Agents -> SUBSET (Roots \cup (1..MaxHandoffs))]
    /\ root \in [DOMAIN root -> RootRecords] /\ DOMAIN root \subseteq Roots
    /\ handoff \in Seq(HandoffRecords) /\ Len(handoff) <= MaxHandoffs

DelegationInit ==
    /\ Queue!Init
    /\ \E limits \in Budgets :
        root = [r \in DOMAIN limits |->
                [phase |-> "idle", stopped |-> FALSE, expired |-> FALSE,
                 maxCalls |-> limits[r].maxCalls, maxCostUsd |-> limits[r].maxCostUsd,
                 calls |-> 0, committed |-> 0, reserved |-> 0, exceeded |-> FALSE, overran |-> FALSE]]
    /\ handoff = <<>>

----------------------------------------------------------------------------
(* Turns and what they are called with.                                    *)

agentOf(t) == IF t \in Roots THEN Home[t] ELSE handoff[t].agent
rootOf(t) == IF t \in Roots THEN t ELSE handoff[t].root

\* The turns above t; the code passes on their agents (delegation_ancestors)
\* and their number (delegation_depth).
chainOf(t) == IF t \in Roots THEN {} ELSE handoff[t].chain

\* The signal of a turn's stream, which its tools get as config.signal.
signalAborted(t) == IF t \in Roots THEN root[t].stopped ELSE handoff[t].aborted

openCalls(t) == {h \in Handoffs : handoff[h].parent = t /\ handoff[h].told = "open"}

\* Tools run when the model has answered with calls.
callsTools(t) ==
    IF t \in Roots THEN root[t].phase = "running"
                   ELSE handoff[t].phase = "streaming" /\ handoff[t].reserved > 0

threadDepth(a) == Cardinality(pending[a]) + (IF owner[a] = NoTurn THEN 0 ELSE 1)

\* Mutant of acyclic: only the delegating agent itself is excluded.
acyclicToParent(t, a) == a # agentOf(t)

\* agentId === ctx.parentAgentId || ctx.ancestors.includes(agentId)
acyclic(t, a) == \A u \in chainOf(t) \cup {t} : agentOf(u) # a

----------------------------------------------------------------------------
(* The budget.                                                             *)

\* claimDelegationCall answers ok.
claimable(r) ==
    /\ ~root[r].expired
    /\ ~root[r].exceeded /\ root[r].committed + root[r].reserved < root[r].maxCostUsd
    /\ root[r].calls < root[r].maxCalls

\* Mutant of reservable: what other inferences have reserved is not counted.
reservableAlone(r, b) == ~root[r].expired /\ ~b.exceeded /\ b.committed + Price <= b.maxCostUsd

\* reserveDelegationCost answers ok, in the state b of the budget of r.
reservable(r, b) ==
    /\ ~root[r].expired
    /\ ~b.exceeded /\ b.committed + b.reserved + Price <= b.maxCostUsd

\* What an inference may turn out to have cost. 0: its usage is unknown.
Actual == 0..(Price + 1)

\* settleDelegationCost of a reservation of `amount`; nothing is reserved for
\* a turn that has made no inference.
charged(amount, actual) == IF actual = 0 THEN amount ELSE actual

\* Mutant of settledBudget: an overrun is charged, but does not close the budget.
settledBudgetSilent(b, amount, actual) ==
    IF amount = 0 THEN b ELSE
    LET committed == b.committed + charged(amount, actual)
    IN [b EXCEPT !.reserved = IF @ > amount THEN @ - amount ELSE 0,
                 !.committed = committed,
                 !.exceeded = @ \/ committed > b.maxCostUsd,
                 !.overran = @ \/ actual > amount]

settledBudget(b, amount, actual) ==
    IF amount = 0 THEN b ELSE
    LET committed == b.committed + charged(amount, actual)
        overrun == actual > amount
    IN [b EXCEPT !.reserved = IF @ > amount THEN @ - amount ELSE 0,
                 !.committed = committed,
                 !.exceeded = IF overrun \/ committed >= b.maxCostUsd
                              THEN overrun \/ committed > b.maxCostUsd ELSE @,
                 !.overran = @ \/ overrun]

----------------------------------------------------------------------------
(* Root turns.                                                             *)

enqueued(a, t) == Queue!Take(a, t) \/ Queue!Wait(a, t)

\* The owner's promise has settled.
leaves(a) == Queue!Release(a) \/ \E t \in pending[a] : Queue!HandOver(a, t)

RootStarts(r) ==
    /\ root[r].phase = "idle"
    /\ threadDepth(Home[r]) < MaxThreadDepth
    /\ enqueued(Home[r], r)
    /\ root' = [root EXCEPT ![r].phase = "queued"]
    /\ UNCHANGED handoff

\* prepareThreadRun creates the budget.
RootRuns(r) ==
    /\ root[r].phase = "queued" /\ owner[Home[r]] = r
    /\ root' = [root EXCEPT ![r].phase = "running"]
    /\ UNCHANGED <<owner, pending, handoff>>

\* The promises nobody listens to any more once a turn has ended: the stream
\* of an aborted turn does not wait for its tools.
Unheard(t, calls) ==
    [h \in DOMAIN calls |-> IF h \in openCalls(t) THEN [calls[h] EXCEPT !.told = "abandoned"] ELSE calls[h]]

RootEnds(r) ==
    /\ root[r].phase = "running"
    /\ root[r].stopped \/ openCalls(r) = {}
    /\ leaves(Home[r])
    /\ root' = [root EXCEPT ![r].phase = "done"]
    /\ handoff' = Unheard(r, handoff)

\* childAbort.abort() of the handoffs in `hit`.
aborting(hit) ==
    handoff' = [h \in DOMAIN handoff |-> IF h \in hit THEN [handoff[h] EXCEPT !.aborted = TRUE] ELSE handoff[h]]

\* The user stops a root turn. The signal reaches a descendant through the
\* listeners of the turns between them.
Stop(r) ==
    /\ root[r].phase = "running" /\ ~root[r].stopped
    /\ root' = [root EXCEPT ![r].stopped = TRUE]
    /\ aborting({h \in Handoffs :
          r \in handoff[h].chain /\ \A u \in (handoff[h].chain \ {r}) \cup {h} : handoff[u].phase \in Armed})
    /\ UNCHANGED <<owner, pending>>

\* The budget's deadline passes, and the timers of its handoffs fire.
Deadline(r) ==
    /\ root[r].phase \in {"running", "done"} /\ ~root[r].expired
    /\ root' = [root EXCEPT ![r].expired = TRUE]
    /\ aborting({h \in Handoffs : handoff[h].root = r /\ handoff[h].phase \in Armed})
    /\ UNCHANGED <<owner, pending>>

----------------------------------------------------------------------------
(* The tool call.                                                          *)

newHandoff(t, a) ==
    [phase |-> "queued", root |-> rootOf(t), parent |-> t, agent |-> a, chain |-> chainOf(t) \cup {t},
     told |-> "open", aborted |-> FALSE, reserved |-> 0]

\* delegate_to_agent, from validateDelegationTarget to the queued job: the
\* call is claimed first, also when the queue then throws QueueFullError.
Delegate(t, a) ==
    /\ callsTools(t) /\ ~signalAborted(t)
    /\ acyclic(t, a) /\ Cardinality(chainOf(t)) < MAX_DELEGATION_DEPTH
    /\ claimable(rootOf(t))
    /\ Len(handoff) < MaxHandoffs
    /\ root' = [root EXCEPT ![rootOf(t)].calls = @ + 1]
    /\ \/ /\ threadDepth(a) < MaxThreadDepth
          /\ handoff' = Append(handoff, newHandoff(t, a))
          /\ enqueued(a, Len(handoff) + 1)
       \/ /\ threadDepth(a) >= MaxThreadDepth
          /\ UNCHANGED <<owner, pending, handoff>>

\* Mutant of abandonable: the clock of the call starts with the child's turn.
abandonableOnceStarted(h) == handoff[h].told = "open" /\ handoff[h].phase # "queued"

abandonable(h) == handoff[h].told = "open"

\* The wall clock of the tool: the calling turn goes on without the answer,
\* while the handoff keeps its place.
Abandon(h) ==
    /\ h \in Handoffs /\ abandonable(h)
    /\ handoff' = [handoff EXCEPT ![h].told = "abandoned"]
    /\ UNCHANGED <<owner, pending, root>>

----------------------------------------------------------------------------
(* The delegated turn, from its place in the queue to the settled promise. *)

at(h, phase) == h \in Handoffs /\ handoff[h].phase = phase

\* The job's promise settles; b is the budget of its root.
settles(h, b) ==
    /\ leaves(handoff[h].agent)
    /\ root' = [root EXCEPT ![handoff[h].root] = b]
    /\ handoff' = Unheard(h, [handoff EXCEPT ![h].phase = "settled", ![h].reserved = 0,
                                             ![h].told = "answered"])

budgetOf(h) == root[handoff[h].root]
becomes(h, phase, aborted) ==
    /\ handoff' = [handoff EXCEPT ![h].phase = phase, ![h].aborted = aborted]
    /\ UNCHANGED <<owner, pending, root>>

\* The microtask of the queue: the deadline, then the runner as far as its
\* first await.
Pick(h) ==
    /\ at(h, "queued") /\ owner[handoff[h].agent] = h
    /\ IF budgetOf(h).expired \/ signalAborted(handoff[h].parent)
       THEN settles(h, budgetOf(h))
       ELSE becomes(h, "authorizing", FALSE)

\* The roster and the permission are read again; then timer and listener.
Authorize(h) ==
    /\ at(h, "authorizing")
    /\ \/ settles(h, budgetOf(h))
       \/ /\ ~budgetOf(h).expired
          /\ becomes(h, "preparing", signalAborted(handoff[h].parent))

\* prepareThreadRun returns or throws.
Prepare(h) ==
    /\ at(h, "preparing")
    /\ \/ settles(h, budgetOf(h))
       \/ /\ ~handoff[h].aborted /\ ~budgetOf(h).expired
          /\ becomes(h, "streaming", FALSE)

overruns(h, actual) == handoff[h].reserved > 0 /\ actual > handoff[h].reserved

\* preModelHook before an inference: the last one is settled, the next one
\* reserved. An overrun or a refusal ends the stream.
Infer(h, actual) ==
    LET b == settledBudget(budgetOf(h), handoff[h].reserved, actual)
    IN /\ at(h, "streaming") /\ openCalls(h) = {} /\ ~handoff[h].aborted
       /\ IF overruns(h, actual) \/ ~reservable(handoff[h].root, b)
          THEN settles(h, b)
          ELSE /\ root' = [root EXCEPT ![handoff[h].root] = [b EXCEPT !.reserved = @ + Price]]
               /\ handoff' = [handoff EXCEPT ![h].reserved = Price]
               /\ UNCHANGED <<owner, pending>>

\* The model answered without calls.
StreamEnds(h, actual) ==
    /\ at(h, "streaming") /\ openCalls(h) = {} /\ handoff[h].reserved > 0
    /\ settles(h, settledBudget(budgetOf(h), handoff[h].reserved, actual))

\* The stream throws: aborted, or the provider failed. The whole reservation
\* is charged.
StreamFails(h) ==
    /\ at(h, "streaming") /\ (handoff[h].aborted \/ openCalls(h) = {})
    /\ settles(h, settledBudget(budgetOf(h), handoff[h].reserved, 0))

\* Whatever the program does by itself once a turn has begun.
DelegationProgress ==
    \/ \E r \in DOMAIN root : RootRuns(r) \/ RootEnds(r)
    \/ \E h \in Handoffs :
        \/ Abandon(h) \/ Pick(h) \/ Authorize(h) \/ Prepare(h) \/ StreamFails(h)
        \/ \E actual \in Actual : Infer(h, actual) \/ StreamEnds(h, actual)

DelegationNext ==
    \/ \E r \in DOMAIN root : RootStarts(r) \/ Stop(r) \/ Deadline(r)
    \/ \E t \in DOMAIN root \cup Handoffs, a \in Agents : Delegate(t, a)
    \/ DelegationProgress

DelegationSpec == DelegationInit /\ [][DelegationNext]_delegationVars

----------------------------------------------------------------------------
(* Properties.                                                             *)

\* What each handoff holds of the budget of r.
reservations(r) ==
    [h \in Handoffs |-> IF handoff[h].root = r THEN handoff[h].reserved ELSE 0]

\* A budget's reserved total is what its unfinished turns hold; until an
\* overrun was seen, spent and reserved money stay under the ceiling; after
\* one, no inference can be reserved again, although the code takes the flag
\* back when the ceiling is met exactly.
BudgetHolds ==
    \A r \in DOMAIN root :
        /\ root[r].reserved = SumFunction(reservations(r))
        /\ ~root[r].overran => root[r].committed + root[r].reserved <= root[r].maxCostUsd
        /\ root[r].overran => ~reservable(r, root[r])

\* A handoff never waits for a turn that waits for it: nobody above it owns
\* its thread or stands in the thread's queue.
NeverBehindItsChain ==
    \A h \in Handoffs : handoff[h].phase # "settled" =>
        \A u \in handoff[h].chain : owner[handoff[h].agent] # u /\ u \notin pending[handoff[h].agent]

\* Delegation neither overspends nor waits for itself.
DelegationSafety == BudgetHolds /\ NeverBehindItsChain

\* Two turns that delegate to each other's agents wait for each other. Yet
\* nobody is left waiting: a call gives up in time, its turn ends, and the
\* thread is handed on. (The handoffs of a behaviour are MaxHandoffs at most,
\* so this says that each of them settles.)
HandoffsSettle == []<>(\A h \in Handoffs : at(h, "settled"))

====
