---- MODULE SystemSignals ----
(***************************************************************************)
(* Durable system signals of one thread: lib/stores/system-signals.ts and  *)
(* lib/lifecycle/system-signals.ts over SQLite, with process restarts. The *)
(* store's calls are synchronous transactions, so each is one action. A    *)
(* turn claims signals while it is prepared and settles them when it ends  *)
(* (lib/agents/run-thread.ts); the run queue lets one turn run at a time.  *)
(*                                                                         *)
(* Time is abstract: the moment a delivery row waits for (available_at,    *)
(* lease_until, the retention limit) has passed or has not; renewing a     *)
(* lease is the freedom not to let it pass. No code changes the agent of a *)
(* thread, so quarantineChangedTargets finds nothing and is left out.      *)
(***************************************************************************)
EXTENDS Integers, Sequences, SequencesExt, FiniteSets, Subsequences

CONSTANTS
    Ops,           \* operation ids, each with one kind
    Restarts,      \* operations of kind "restart"
    Tools,         \* operations of kind "background_tool"
    Approvals,     \* operations of kind "approval"; the others are facts
                   \* that emitSystemSignal records with their outcome
    WakeEligible,  \* operations whose signal wakes the agent
    Tokens,        \* lease tokens (UUIDs), reused once no row carries them
    NoToken,       \* lease_token NULL; no turn holds a batch
    MaxAttempts,   \* MAX_ATTEMPTS
    MaxBacklog,    \* MAX_BACKLOG
    BatchLimit,    \* LIMIT 20 and the prompt budget of a claim
    MaxInstances   \* bound of the model: processes started

ASSUME SystemSignalsAssumption ==
    /\ Restarts \subseteq Ops /\ Tools \subseteq Ops /\ Approvals \subseteq Ops
    /\ Restarts \cap Tools = {} /\ Restarts \cap Approvals = {} /\ Tools \cap Approvals = {}
    /\ Restarts \subseteq WakeEligible /\ WakeEligible \subseteq Restarts \cup Tools
    /\ NoToken \notin Tokens /\ IsFiniteSet(Tokens) /\ Cardinality(Tokens) > MaxBacklog
    /\ MaxAttempts \in Nat \ {0} /\ MaxBacklog \in Nat \ {0}
    /\ BatchLimit \in Nat \ {0} /\ MaxInstances \in Nat \ {0}

Facts == Ops \ (Restarts \cup Tools \cup Approvals)

VARIABLES
    process,   \* "down", "booting", "reconciling" or "up"
    instance,  \* runtimeInstanceId, numbered
    op,        \* [Ops -> OpRows]: runtime_operations
    journal,   \* Seq(Ops): signal_events in the order of seq
    delivery,  \* [Ops -> Deliveries]: signal_deliveries
    turn,      \* lease token of the running turn's batch
    batch,     \* SUBSET Ops: the signals of that batch
    waking,    \* the thread's wake-up: "no", "queued" or "running"
    receipts   \* history: transcripts committed with the signal, up to 2

vars == <<process, instance, op, journal, delivery, turn, batch, waking, receipts>>
processVars == <<process, instance>>
storeVars == <<op, journal, delivery, receipts>>
turnVars == <<turn, batch, waking>>

Concluded == {"completed", "failed", "outcome_unknown"}
OpRows == [state : {"none", "accepted"} \cup Concluded, origin : 0..MaxInstances]
Deliveries == [state : {"none", "ready", "leased", "acknowledged", "dead_letter"},
               attempts : 0..MaxAttempts,
               passed : BOOLEAN,  \* available_at, lease_until or the retention
               token : Tokens \cup {NoToken},
               holder : 0..MaxInstances]

NoOp == [state |-> "none", origin |-> 0]
NoDelivery == [state |-> "none", attempts |-> 0, passed |-> FALSE,
               token |-> NoToken, holder |-> 0]

\* The shape of the tables and of the process's memory.
TypeOK ==
    /\ process \in {"down", "booting", "reconciling", "up"}
    /\ instance \in 1..MaxInstances
    /\ op \in [Ops -> OpRows]
    /\ journal \in Seq(Ops)
    /\ delivery \in [Ops -> Deliveries]
    /\ turn \in Tokens \cup {NoToken}
    /\ batch \subseteq Ops
    /\ waking \in {"no", "queued", "running"}
    /\ receipts \in [Ops -> 0..2]

Init ==
    /\ process = "up"
    /\ instance = 1
    /\ op = [o \in Ops |-> NoOp]
    /\ journal = <<>>
    /\ delivery = [o \in Ops |-> NoDelivery]
    /\ turn = NoToken
    /\ batch = {}
    /\ waking = "no"
    /\ receipts = [o \in Ops |-> 0]

----------------------------------------------------------------------------
(* Operations and their outcomes.                                          *)

Serving == process \in {"booting", "up"}
Accepted == {o \in Ops : op[o].state = "accepted"}
Outstanding == {o \in Ops : delivery[o].state \in {"ready", "leased"}}

\* Mutant of reserved: operations that will publish later are not counted.
publishedOnly == Cardinality(Outstanding)

\* The count beginSystemOperation compares with MAX_BACKLOG.
reserved == Cardinality(Accepted) + Cardinality(Outstanding)

\* The deliveries once o's event is inserted.
published(o) == [delivery EXCEPT ![o] = [NoDelivery EXCEPT !.state = "ready", !.passed = TRUE]]

\* beginSystemOperation. An id that exists is returned as it is.
Begin(o) ==
    /\ Serving
    /\ o \notin Facts
    /\ op[o].state = "none"
    /\ reserved < MaxBacklog
    /\ op' = [op EXCEPT ![o] = [state |-> "accepted", origin |-> instance]]
    /\ UNCHANGED <<processVars, journal, delivery, receipts, turnVars>>

\* emitSystemSignal: begin, publish and complete in one transaction.
Emit(o) ==
    /\ Serving
    /\ o \in Facts
    /\ op[o].state = "none"
    /\ reserved < MaxBacklog
    /\ op' = [op EXCEPT ![o] = [state |-> "completed", origin |-> instance]]
    /\ journal' = Append(journal, o)
    /\ delivery' = published(o)
    /\ UNCHANGED <<processVars, receipts, turnVars>>

\* Mutant of unsettled: a tool that timed out is settled by its late answer.
unsettledOrTimedOut(o) == op[o].state \in {"accepted", "outcome_unknown"}

\* `if (!operation || operation.state !== "accepted") return`
unsettled(o) == op[o].state = "accepted"

\* publish: an event that exists is returned as it is; over the limit it throws.
publish(o) ==
    IF o \in Range(journal)
    THEN UNCHANGED <<journal, delivery>>
    ELSE /\ Cardinality(Outstanding) < MaxBacklog
         /\ journal' = Append(journal, o)
         /\ delivery' = published(o)

\* finishSystemOperation.
finish(o, state) ==
    /\ unsettled(o)
    /\ publish(o)
    /\ op' = [op EXCEPT ![o].state = state]
    /\ UNCHANGED <<processVars, receipts, turnVars>>

\* A tool is settled by the process that called it; a pending approval also
\* by the next one, which fails it while it boots.
Settle(o, state) ==
    /\ Serving
    /\ o \in Tools \cup Approvals
    /\ o \in Tools => op[o].origin = instance
    /\ finish(o, state)

----------------------------------------------------------------------------
(* Deliveries.                                                             *)

\* Mutant of mayRetry: the bound is not checked.
mayAlwaysRetry(d) == TRUE

mayRetry(d) == d.attempts < MaxAttempts

\* retryDelivery: ready after a delay, or a dead letter.
retried(d) ==
    [NoDelivery EXCEPT !.state = IF mayRetry(d) THEN "ready" ELSE "dead_letter",
                       !.attempts = d.attempts]

retryAll(D, S) == [o \in Ops |-> IF o \in S THEN retried(D[o]) ELSE D[o]]

\* Mutant of expired: abandoned leases are left to the next restart.
expiredNever(d) == FALSE

expired(d) == d.state = "leased" /\ d.passed

\* The deliveries once claimSystemSignals has taken expired leases back.
swept == retryAll(delivery, {o \in Ops : expired(delivery[o])})

\* The first due signals of D in the order of the journal.
claimable(D) ==
    LET due == kept(journal, {o \in Ops : D[o].state = "ready" /\ D[o].passed})
    IN  Range(SubSeq(due, 1, IF Len(due) < BatchLimit THEN Len(due) ELSE BatchLimit))

\* The token of a new claim.
fresh == CHOOSE token \in Tokens : \A o \in Ops : delivery[o].token # token

\* claimSystemSignals by a turn that starts: an ordinary one, or the queued
\* wake-up. A turn that gets nothing has no more to do with signals.
Claim(asWakeUp) ==
    LET S == claimable(swept)
        lease(d) == [d EXCEPT !.state = "leased", !.attempts = @ + 1, !.passed = FALSE,
                              !.token = fresh, !.holder = instance]
    IN  /\ Serving
        /\ turn = NoToken
        /\ asWakeUp => waking = "queued"
        /\ delivery' = [o \in Ops |-> IF o \in S THEN lease(swept[o]) ELSE swept[o]]
        /\ turn' = IF S = {} THEN NoToken ELSE fresh
        /\ batch' = S
        /\ waking' = IF ~asWakeUp THEN waking ELSE IF S = {} THEN "no" ELSE "running"
        /\ UNCHANGED <<processVars, op, journal, receipts>>

\* deferFailedSignalWakeup: every due signal that may wake the agent is
\* charged an attempt.
deferred(D) ==
    [o \in Ops |->
        IF o \in WakeEligible /\ D[o].state = "ready" /\ D[o].passed
        THEN retried([D[o] EXCEPT !.attempts = @ + 1])
        ELSE D[o]]

\* The running turn is over; a wake-up that threw is deferred.
over(D, threw) ==
    /\ delivery' = IF waking = "running" /\ threw THEN deferred(D) ELSE D
    /\ turn' = NoToken
    /\ batch' = {}
    /\ waking' = IF waking = "running" THEN "no" ELSE waking

Leased == {o \in Ops : delivery[o].state = "leased" /\ delivery[o].token = turn}

\* releaseSystemSignals of the running turn's batch.
released == retryAll(delivery, Leased)

\* acknowledgeSystemSignals: every signal of the batch, in time.
acknowledgeable == \A o \in batch : o \in Leased /\ ~delivery[o].passed

\* Mutant of acknowledged: the rows are left leased, to be cleaned up later.
acknowledgedLater(D) == D

acknowledged(D) ==
    [o \in Ops |-> IF o \in batch
                   THEN [NoDelivery EXCEPT !.state = "acknowledged", !.attempts = D[o].attempts]
                   ELSE D[o]]

\* pruneAcknowledgedSystemSignals: acknowledged and past the retention.
prunable == {o \in Ops : delivery[o].state = "acknowledged" /\ delivery[o].passed}
prunedOps == [o \in Ops |-> IF o \in prunable THEN NoOp ELSE op[o]]
prunedJournal == kept(journal, Ops \ prunable)
prunedDelivery(D) == [o \in Ops |-> IF o \in prunable THEN NoDelivery ELSE D[o]]

\* commitSystemSignalTranscript of a turn that got "done": the reply and the
\* acknowledgment in one transaction.
Commit ==
    /\ Serving /\ turn # NoToken
    /\ acknowledgeable
    /\ over(prunedDelivery(acknowledged(delivery)), FALSE)
    /\ op' = prunedOps
    /\ journal' = prunedJournal
    /\ receipts' = [o \in Ops |->
                        IF o \in prunable THEN 0
                        ELSE IF o \in batch /\ receipts[o] < 2 THEN receipts[o] + 1
                        ELSE receipts[o]]
    /\ UNCHANGED processVars

\* The stream fails or is stopped, or the transcript cannot be committed, a
\* lost lease included: the reply is rolled back and the batch released. A
\* stopped turn returns, the others throw.
FailTurn(threw) ==
    /\ Serving /\ turn # NoToken
    /\ over(released, threw)
    /\ UNCHANGED <<processVars, op, journal, receipts>>

\* The turn ends between the claim and the stream, or a delegation rejects
\* the output of a stream that got "done": nothing releases the batch.
LeakTurn ==
    /\ Serving /\ turn # NoToken
    /\ over(delivery, TRUE)
    /\ UNCHANGED <<processVars, op, journal, receipts>>

\* The moment a delivery waits for passes: it is due, its lease expires, or
\* its receipt is a week old.
Pass(o) ==
    /\ delivery[o].state \in {"ready", "leased", "acknowledged"}
    /\ delivery' = [delivery EXCEPT ![o].passed = TRUE]
    /\ UNCHANGED <<processVars, op, journal, receipts, turnVars>>

----------------------------------------------------------------------------
(* Wake-ups and restarts.                                                  *)

\* dispatchSystemSignalWakeups of a scheduler tick: due signals or expired
\* leases queue one wake-up of an idle thread (getQueueDepth is 0).
Dispatch ==
    /\ Serving
    /\ waking = "no"
    /\ turn = NoToken
    /\ \E o \in WakeEligible : delivery[o].state \in {"ready", "leased"} /\ delivery[o].passed
    /\ waking' = "queued"
    /\ UNCHANGED <<processVars, storeVars, turn, batch>>

\* The queue refuses or expires the wake-up, or its preparation throws
\* before the claim.
WakeFails ==
    /\ Serving
    /\ waking = "queued"
    /\ delivery' = deferred(delivery)
    /\ waking' = "no"
    /\ UNCHANGED <<processVars, op, journal, receipts, turn, batch>>

\* The process ends, on request or not; the tables stay.
Crash ==
    /\ process # "down"
    /\ instance < MaxInstances
    /\ process' = "down"
    /\ turn' = NoToken
    /\ batch' = {}
    /\ waking' = "no"
    /\ UNCHANGED <<instance, storeVars>>

\* A new runtimeInstanceId; turns may start before the lifecycle does.
Boot ==
    /\ process = "down"
    /\ process' = "booting"
    /\ instance' = instance + 1
    /\ UNCHANGED <<storeVars, turnVars>>

\* Mutant of left: only restarts are reconciled.
leftRestarts == {o \in Restarts \cap Accepted : op[o].origin # instance}

left == {o \in Accepted : op[o].origin # instance}

\* startSystemSignalLifecycle calls reconcileSystemSignals, which runs to its
\* end or to the end of the process: one transaction per operation.
Reconcile ==
    /\ process = "booting"
    /\ process' = "reconciling"
    /\ UNCHANGED <<instance, storeVars, turnVars>>

\* What reconcileSystemSignals makes of an operation its process left behind.
reconciledAs(o) == IF o \in Restarts THEN "completed" ELSE "outcome_unknown"

ReconcileOp(o) ==
    /\ process = "reconciling"
    /\ o \in left
    /\ o \in Approvals => left \subseteq Approvals
    /\ finish(o, reconciledAs(o))

\* Mutant of staleLeases: every lease is taken back.
staleLeasesAll == {o \in Ops : delivery[o].state = "leased"}

staleLeases == {o \in Ops : delivery[o].state = "leased" /\ delivery[o].holder # instance}

\* The end of reconcileSystemSignals: stale leases, then the prune.
Reconciled ==
    /\ process = "reconciling"
    /\ left = {}
    /\ process' = "up"
    /\ delivery' = prunedDelivery(retryAll(delivery, staleLeases))
    /\ op' = prunedOps
    /\ journal' = prunedJournal
    /\ receipts' = [o \in Ops |-> IF o \in prunable THEN 0 ELSE receipts[o]]
    /\ UNCHANGED <<instance, turnVars>>

----------------------------------------------------------------------------
TurnEnds == Commit \/ LeakTurn \/ (\E threw \in BOOLEAN : FailTurn(threw))
WakeUpRuns == WakeFails \/ Claim(TRUE)
Recovers == Boot \/ Reconcile \/ (\E o \in Ops : ReconcileOp(o)) \/ Reconciled

Next ==
    \/ \E o \in Ops : Begin(o) \/ Emit(o) \/ Pass(o)
    \/ \E o \in Ops, state \in Concluded : Settle(o, state)
    \/ Claim(FALSE)
    \/ TurnEnds
    \/ Dispatch
    \/ WakeUpRuns
    \/ Crash
    \/ Recovers

Spec == Init /\ [][Next]_vars

\* A delivery's moment comes, save that a running turn may keep its lease;
\* the scheduler ticks, the run queue serves or refuses the wake-up, the run
\* watchdogs end a turn, and a process that ended is started again.
Fairness ==
    /\ \A o \in Ops : WF_vars(Pass(o) /\ delivery[o].state \in {"ready", "leased"}
                                      /\ ~delivery[o].passed /\ o \notin batch)
    /\ WF_vars(TurnEnds)
    /\ WF_vars(Dispatch)
    /\ WF_vars(WakeUpRuns)
    /\ WF_vars(Recovers)

FairSpec == Spec /\ Fairness

\* A wake-up that is queued again and again gets to its claim at last: its
\* preparation does not fail for ever, nor is it always refused.
ServedSpec == FairSpec /\ SF_vars(Claim(TRUE))

----------------------------------------------------------------------------
(* Properties.                                                             *)

\* A signal is acknowledged exactly when one reply has been committed with
\* it, however often it was leased, released, expired or reclaimed in
\* between (acknowledgeSystemSignals inside commitSystemSignalTranscript).
CommittedOnce ==
    \A o \in Ops : receipts[o] = IF delivery[o].state = "acknowledged" THEN 1 ELSE 0

\* While a turn runs no one takes its signals from it, and no other row
\* carries its token, though earlier turns and processes left leases behind
\* (claimSystemSignals, reconcileSystemSignals).
BatchStaysLeased == turn # NoToken => Leased = batch

\* Every accepted operation has room for its event, so that publish never
\* throws in finishSystemOperation or halfway through a reconciliation.
BacklogReserved == Cardinality(Accepted \cup Outstanding) <= MaxBacklog

\* What the tables say of each operation in the terms of SignalOutbox.
outcome == [o \in Ops |-> op[o].state]
notice == [o \in Ops |->
              CASE delivery[o].state = "none" -> "none"
                [] delivery[o].state \in {"ready", "leased"} -> "pending"
                [] delivery[o].state = "acknowledged" -> "delivered"
                [] delivery[o].state = "dead_letter" -> "dead"]

Outbox == INSTANCE SignalOutbox

\* The tables implement the outbox: an operation is concluded once, its
\* signal is published in the same step and survives crashes, failures and
\* lost leases until it is acknowledged or dead (docs/adr/0091).
ImplementsOutbox == Outbox!Spec

\* A signal that may wake the agent does not stay undelivered for ever,
\* whatever turns fail, leak their leases or crash: at last it is committed
\* with a reply or is a dead letter, the only ways on that ImplementsOutbox
\* allows (dispatchSystemSignalWakeups, retryDelivery). Nor does an operation
\* its process left stay without an outcome for ever: a later process
\* concludes it (reconcileSystemSignals).
SignalsSettle ==
    /\ \A o \in WakeEligible : []<>(delivery[o].state \notin {"ready", "leased"})
    /\ \A o \in Ops \ Facts : []<>(op[o].state = "accepted" => op[o].origin = instance)

\* "Permanent failures or exhausted attempts go to a visible dead-letter
\* record" (docs/adr/0091): an expired lease does not wake the thread for
\* ever. The code charges failed wake-ups to ready rows only.
ExpiredLeaseSettles ==
    \A o \in WakeEligible : expired(delivery[o]) ~> ~expired(delivery[o])

====
