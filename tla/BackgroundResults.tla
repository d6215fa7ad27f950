---- MODULE BackgroundResults ----
(***************************************************************************)
(* Results of tool calls that run in the background (async_run): the       *)
(* in-memory store of lib/tools/support/async-results.ts, the closure that *)
(* settles a call once (wallclock.ts, runAsync), and for calls owned by a  *)
(* thread the row of lib/stores/background-results.ts with its operation,  *)
(* which are settled in one transaction. A settlement the database refuses *)
(* is kept and retried by the sweeper, a few times.                        *)
(*                                                                         *)
(* Time is abstract: a deadline is a settlement that may come any time, a  *)
(* sweep finds any of the deferred settlements due and any of the finished *)
(* records old enough. The events the operations publish are in            *)
(* SystemSignals.                                                          *)
(***************************************************************************)
EXTENDS Integers, Sequences, SequencesExt, Subsequences

CONSTANTS
    Calls,          \* keys; each is used once
    Owned,          \* the calls of a thread; the others are in memory only
    MAX_ENTRIES,
    MaxTries,       \* settlements that may fail; 5 in the code
    MaxProcesses    \* bound of the model: process starts

ASSUME BackgroundAssumption ==
    /\ Owned \subseteq Calls
    /\ {MAX_ENTRIES, MaxTries, MaxProcesses} \subseteq Nat \ {0}

VARIABLES
    background,    \* [Calls -> the state of a call, in memory and on disk]
    store,         \* the keys of STORE, oldest first
    processes,     \* process starts
    reconcileDue,  \* reconcileSystemSignals has not run since
    heard          \* history: [Calls -> the outcome its owner was told]

backgroundVars == <<background, store, processes, reconcileDue, heard>>

Outcomes == {"done", "error"}
BackgroundCalls == [
    runs : BOOLEAN,     \* the closure has not `settled`
    record : {"none", "pending", "exhausted"} \cup Outcomes, \* in STORE
    deferred : {"none"} \cup Outcomes, \* pendingSettlements
    tries : 0..MaxTries,               \* its attempts
    operation : {"none", "accepted", "concluded"},
    mine : BOOLEAN,     \* the operation is of this process
    row : {"none", "pending", "interrupted"} \cup Outcomes,
    expired : BOOLEAN]  \* the row's expires_at has passed

NotCalled == [runs |-> FALSE, record |-> "none", deferred |-> "none", tries |-> 0,
              operation |-> "none", mine |-> FALSE, row |-> "none", expired |-> FALSE]

BackgroundTypeOK ==
    /\ background \in [Calls -> BackgroundCalls]
    /\ store \in Seq(Calls)
    /\ processes \in 1..MaxProcesses
    /\ reconcileDue \in BOOLEAN
    /\ heard \in [Calls -> {"nothing", "interrupted"} \cup Outcomes]

BackgroundInit ==
    /\ background = [c \in Calls |-> NotCalled]
    /\ store = <<>>
    /\ processes = 1
    /\ reconcileDue = FALSE
    /\ heard = [c \in Calls |-> "nothing"]

forgotten(b) == [b EXCEPT !.record = "none"]
without(s, gone) == kept(s, Calls \ gone)
finishedRecord(c) == background[c].record \notin {"none", "pending"}
oldestOf(S) == store[CHOOSE i \in 1..Len(store) : store[i] \in S /\ \A j \in 1..i - 1 : store[j] \notin S]

----------------------------------------------------------------------------
(* Calls.                                                                  *)

\* enforceCap: a finished record makes room, else a pending one of nobody.
evictable(S) ==
    LET finished == {c \in S : finishedRecord(c)}
    IN IF finished # {} THEN finished ELSE S \ Owned

\* The key that makes room for a new one.
victims ==
    IF Len(store) < MAX_ENTRIES THEN {} ELSE {oldestOf(evictable(ToSet(store)))}

\* startOwnedAsyncCall: record, operation and row, or none of them if the
\* operation cannot begin; the victim is gone in any case. With no victim
\* at the limit it throws before it has changed anything.
StartCall(c, begins) ==
    LET victim == victims
        swept == [d \in Calls |-> IF d \in victim THEN forgotten(background[d]) ELSE background[d]]
        started == [NotCalled EXCEPT !.runs = TRUE, !.record = "pending"]
        owned == [started EXCEPT !.operation = "accepted", !.mine = TRUE, !.row = "pending"]
    IN  /\ background[c] = NotCalled
        /\ Len(store) < MAX_ENTRIES \/ evictable(ToSet(store)) # {}
        /\ begins \/ c \in Owned
        /\ background' = IF ~begins THEN swept ELSE [swept EXCEPT ![c] = IF c \in Owned THEN owned ELSE started]
        /\ store' = LET left == without(store, victim) IN IF begins THEN Append(left, c) ELSE left
        /\ UNCHANGED <<processes, reconcileDue, heard>>

\* finishBackgroundOperation: row and operation in one transaction, once;
\* then the record.
concluded(b, outcome) ==
    [b EXCEPT !.operation = "concluded",
              !.row = IF b.operation = "accepted" /\ @ = "pending" THEN outcome ELSE @,
              !.record = outcome, !.deferred = "none", !.tries = 0]

\* settleAsyncResult of an owned call: saved or not; the last failure gives
\* up and says so.
settledOwned(b, outcome, saved) ==
    IF saved THEN concluded(b, outcome)
    ELSE IF b.tries + 1 < MaxTries THEN [b EXCEPT !.tries = @ + 1, !.deferred = outcome]
    ELSE [b EXCEPT !.record = "exhausted", !.deferred = "none", !.tries = 0]

settledCall(c, b, outcome, saved) ==
    IF b.record = "none" THEN b
    ELSE IF c \notin Owned THEN [b EXCEPT !.record = outcome]
    ELSE settledOwned(b, outcome, saved)

\* Mutant of settlesOnce: a late answer settles what the deadline settled.
settlesAgain(b) == b.record # "none"

\* `if (settled) return`
settlesOnce(b) == b.runs

\* The tool returns or fails, or the deadline passes.
SettleCall(c, outcome, saved) ==
    /\ settlesOnce(background[c])
    /\ background' = [background EXCEPT
          ![c] = settledCall(c, [@ EXCEPT !.runs = FALSE], outcome, saved)]
    /\ UNCHANGED <<store, processes, reconcileDue, heard>>

\* A sweep: retryAsyncResultSettlements of those that are due, then
\* sweepExpired of records that finished before.
Sweep(due, saved, old) ==
    /\ due \cup old # {}
    /\ \A c \in due : background[c].deferred # "none"
    /\ \A c \in old : finishedRecord(c)
    /\ background' = [c \in Calls |->
          IF c \in due THEN settledCall(c, background[c], background[c].deferred, c \in saved)
          ELSE IF c \in old THEN forgotten(background[c]) ELSE background[c]]
    /\ store' = without(store, old)
    /\ UNCHANGED <<processes, reconcileDue, heard>>

----------------------------------------------------------------------------
(* Reading.                                                                *)

\* backgroundResultExists
exists(b) == b.row # "none" /\ ~b.expired

\* getAsyncResult: a record whose row is gone is gone; then the record, and
\* without one the row.
readable(c) ==
    LET b == background[c] IN
    IF c \notin Owned THEN b.record
    ELSE IF ~exists(b) THEN "none"
    ELSE IF b.record # "none" THEN b.record
    ELSE b.row

\* tool_result_get by the owner, who is told what there is and may consume
\* it: the row goes unless it is pending, the record in any case.
ReadResult(c, consume) ==
    LET b == background[c]
        read == IF c \in Owned /\ ~exists(b) THEN [forgotten(b) EXCEPT !.deferred = "none", !.tries = 0]
                ELSE IF ~consume \/ readable(c) \in {"none", "pending"} THEN b
                ELSE [forgotten(b) EXCEPT !.row = IF @ = "pending" THEN @ ELSE "none"]
    IN  /\ background' = [background EXCEPT ![c] = read]
        /\ store' = IF read.record = "none" THEN without(store, {c}) ELSE store
        /\ heard' = [heard EXCEPT ![c] =
              IF readable(c) \in {"done", "error", "interrupted"} THEN readable(c) ELSE @]
        /\ UNCHANGED <<processes, reconcileDue>>

\* The retention of a result passes; no call runs that long.
ResultExpires(c) ==
    LET b == background[c] IN
    /\ b.row # "none" /\ ~b.expired /\ ~b.runs /\ b.deferred = "none"
    /\ background' = [background EXCEPT ![c].expired = TRUE]
    /\ UNCHANGED <<store, processes, reconcileDue, heard>>

----------------------------------------------------------------------------
(* The process ends; another one starts and reconciles.                    *)

EndProcess ==
    /\ processes < MaxProcesses
    /\ processes' = processes + 1
    /\ background' = [c \in Calls |->
          [background[c] EXCEPT !.runs = FALSE, !.record = "none", !.deferred = "none",
                                !.tries = 0, !.mine = FALSE]]
    /\ store' = <<>>
    /\ reconcileDue' = TRUE
    /\ UNCHANGED heard

Abandoned == {c \in Calls : background[c].operation = "accepted" /\ ~background[c].mine}

\* finishBackgroundResult in interruptBackgroundResults: pending rows only.
interrupted(b) ==
    IF b.row = "pending" THEN [b EXCEPT !.row = "interrupted", !.expired = FALSE] ELSE b

\* reconcileSystemSignals: a transaction for each abandoned operation, then
\* the rows, then what has expired is deleted. It may fail or the process
\* may end after any of the operations, whose rows are then left for the next.
ReconcileResults(through, all) ==
    /\ reconcileDue
    /\ through \subseteq Abandoned /\ (all => through = Abandoned)
    /\ LET close(c) == IF c \in through THEN [background[c] EXCEPT !.operation = "concluded"]
                       ELSE background[c]
           finish(b) == LET f == IF b.mine THEN b ELSE interrupted(b)
                        IN IF f.expired THEN [f EXCEPT !.row = "none"] ELSE f
       IN background' = [c \in Calls |-> IF all THEN finish(close(c)) ELSE close(c)]
    /\ reconcileDue' = FALSE
    /\ UNCHANGED <<store, processes, heard>>

BackgroundNext ==
    \/ \E c \in Calls, begins \in BOOLEAN : StartCall(c, begins)
    \/ \E c \in Calls, outcome \in Outcomes, saved \in BOOLEAN : SettleCall(c, outcome, saved)
    \/ \E due, old \in SUBSET ToSet(store) : \E saved \in SUBSET due : Sweep(due, saved, old)
    \/ \E c \in Calls, consume \in BOOLEAN : ReadResult(c, consume)
    \/ \E c \in Owned : ResultExpires(c)
    \/ EndProcess
    \/ \E through \in SUBSET Calls, all \in BOOLEAN : ReconcileResults(through, all)

BackgroundSpec == BackgroundInit /\ [][BackgroundNext]_backgroundVars

----------------------------------------------------------------------------
(* Properties.                                                             *)

\* What an owner was told of a finished call is what it is told from then
\* on, through sweeps, evictions, late answers and restarts, until the
\* result expires or is consumed. (That its outcome could not be saved is
\* not an outcome.) And an outcome that waits to be saved is neither
\* forgotten nor overtaken while its process lives.
OutcomesAreKept ==
    \A c \in Owned :
        /\ heard[c] # "nothing" => readable(c) \in {heard[c], "none"}
        /\ background[c].deferred # "none" =>
             /\ background[c].record = "pending" /\ background[c].row = "pending"
             /\ background[c].operation = "accepted"

====
