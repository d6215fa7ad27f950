---- MODULE WorkflowRuns ----
(***************************************************************************)
(* One durable workflow run: lib/workflows/runtime.ts and service.ts over  *)
(* the versioned row of lib/stores/workflow-runs.ts, with processes that   *)
(* crash. The host (tools, scripts) is external: a call returns any of its *)
(* results, late or never.                                                 *)
(*                                                                         *)
(* The store and the runtime are synchronous between awaits, so a version  *)
(* matters only to what is held across an await. A caller that comes with  *)
(* an outdated version is refused and changes nothing: it is left out.     *)
(* advance() holds its row while the host works, but only cancel() of the  *)
(* same process can change the row then, and it aborts that advance; the   *)
(* save the aborted advance still tries fails and is swallowed.            *)
(***************************************************************************)
EXTENDS Integers, Sequences, FiniteSets

CONSTANTS
    Procs,        \* processes that share the database; each runs once
    Plan,         \* the definition's steps: "write", "read" or "choice"
    ReadAttempts, \* maxAttempts of a read step; a write has one attempt
    MaxRetries    \* state.retries < 6

ASSUME WorkflowAssumption ==
    /\ Procs # {} /\ Plan \in Seq({"write", "read", "choice"}) /\ Plan # <<>>
    /\ ReadAttempts \in 1..3 /\ MaxRetries \in Nat

VARIABLES
    run,        \* the row: phase, next, attempts of that step, retries, owner
    crashed,    \* SUBSET Procs
    advancing,  \* [Procs -> BOOLEAN]: an advance() waits for its host call
    calling,    \* [Procs -> step of the host call in workflowExecutions, or 0]
    observing,  \* reconcile() calls that wait for observe()
    calls,      \* history: how often the host was called for a step, up to 2
    evidence    \* history: the step whose outcome was stored as a step's own

workflowVars == <<run, crashed, advancing, calling, observing, calls, evidence>>

Indices == 1..Len(Plan)
Phases == {"ready", "running", "waiting", "uncertain", "completed", "failed", "cancelled"}
Terminal == {"completed", "failed", "cancelled"}
Rows == [phase : Phases, next : 1..Len(Plan) + 1, attempts : 0..3,
         retries : 0..MaxRetries, owner : Procs]
Observations == [proc : Procs, step : Indices, fresh : BOOLEAN]

\* The row, the calls in flight and the history.
WorkflowTypeOK ==
    /\ run \in Rows
    /\ crashed \subseteq Procs
    /\ advancing \in [Procs -> BOOLEAN]
    /\ calling \in [Procs -> 0..Len(Plan)]
    /\ observing \subseteq Observations
    /\ calls \in [Indices -> 0..2]
    /\ evidence \in [Indices -> 0..Len(Plan)]

\* create().
WorkflowInit ==
    /\ \E p \in Procs :
        run = [phase |-> "ready", next |-> 1, attempts |-> 0, retries |-> 0, owner |-> p]
    /\ crashed = {}
    /\ advancing = [p \in Procs |-> FALSE]
    /\ calling = [p \in Procs |-> 0]
    /\ observing = {}
    /\ calls = [s \in Indices |-> 0]
    /\ evidence = [s \in Indices |-> 0]

----------------------------------------------------------------------------
(* The coordinator's decisions, as functions of the row.                   *)

maxAttempts(s) == IF Plan[s] = "read" THEN ReadAttempts ELSE 1

\* The row once the current step's outcome is stored.
done(r) == [r EXCEPT !.next = @ + 1, !.attempts = 0,
                     !.phase = IF r.next = Len(Plan) THEN "completed" ELSE "ready"]

\* The row after an interrupted or unverified call.
unsettledPhase(r, other) == [r EXCEPT !.phase = IF Plan[r.next] = "write" THEN "uncertain" ELSE other]

\* What the loop of advance() saves before it waits: a choice, an invalid
\* input, or the step that is about to be called.
entered(r) ==
    {[r EXCEPT !.phase = "failed"]} \cup
    IF Plan[r.next] = "choice" THEN {[r EXCEPT !.phase = "waiting"]}
    ELSE IF r.attempts >= maxAttempts(r.next) THEN {}
    ELSE {[r EXCEPT !.phase = "running", !.attempts = @ + 1]}

\* What advance() saves for a result of the host.
Results == {"output", "invalid", "retryable", "denied", "unknown"}
resulting(r, result) ==
    CASE result = "output" -> done(r)
      [] result = "denied" -> [r EXCEPT !.phase = "failed"]
      [] result = "unknown" -> unsettledPhase(r, "failed")
      [] OTHER ->
           IF Plan[r.next] = "read" /\ r.attempts < maxAttempts(r.next) /\ r.retries < MaxRetries
           THEN [r EXCEPT !.phase = "ready", !.retries = @ + 1]
           ELSE unsettledPhase(r, "failed")

\* What recover() saves for a row whose owner died while it was running.
recovered(r) ==
    IF Plan[r.next] = "write" THEN [r EXCEPT !.phase = "uncertain"]
    ELSE IF r.attempts < maxAttempts(r.next) /\ r.retries < MaxRetries
    THEN [r EXCEPT !.phase = "ready", !.retries = @ + 1]
    ELSE [r EXCEPT !.phase = "failed"]

----------------------------------------------------------------------------
(* Steps.                                                                  *)

live(p) == p \notin crashed

\* Any save outdates the row held by the calls that wait for an observation.
outdated == {[o EXCEPT !.fresh = FALSE] : o \in observing}

\* p saves r and goes on with the loop of advance(): it calls the host when r is
\* the row of a running step, and returns otherwise. others is calling without p.
proceed(p, r) ==
    \E s \in (IF r.phase = "ready" THEN entered(r) ELSE {r}) :
        /\ run' = [s EXCEPT !.owner = p]
        /\ advancing' = [advancing EXCEPT ![p] = s.phase = "running"]
        /\ calling' = [calling EXCEPT ![p] = IF s.phase = "running" THEN s.next ELSE 0]
        /\ calls' = IF s.phase = "running"
                    THEN [calls EXCEPT ![s.next] = IF @ < 2 THEN @ + 1 ELSE 2]
                    ELSE calls
        /\ observing' = outdated

\* #claim: a row whose owner is dead, in whatever phase; answer and reconcile
\* claim it before they look at the phase, advance and cancel unless it runs.
Claim(p) ==
    /\ live(p) /\ run.owner # p /\ ~live(run.owner)
    /\ run' = [run EXCEPT !.owner = p]
    /\ observing' = outdated
    /\ UNCHANGED <<crashed, advancing, calling, calls, evidence>>

\* assertExecutionSettled.
executionSettled(p) == calling[p] = 0

\* advance() of a ready row, after the host is prepared and the version read again.
Advance(p) ==
    /\ live(p) /\ run.owner = p /\ run.phase = "ready"
    /\ ~advancing[p] /\ executionSettled(p)
    /\ proceed(p, run)
    /\ UNCHANGED <<crashed, evidence>>

\* The host call settles. Unless its advance() has ended, the result is stored.
HostReturns(p, result) ==
    /\ live(p) /\ calling[p] # 0
    /\ IF advancing[p]
       THEN /\ proceed(p, resulting(run, result))
            /\ evidence' = IF result = "output" THEN [evidence EXCEPT ![run.next] = calling[p]]
                           ELSE evidence
       ELSE /\ calling' = [calling EXCEPT ![p] = 0]
            /\ UNCHANGED <<run, advancing, observing, calls, evidence>>
    /\ UNCHANGED crashed

\* The step's timeout, an error of the host, or an abort by the caller or by
\* shutdown: advance() ends, while the host call may go on.
Interrupt(p, aborted) ==
    /\ live(p) /\ advancing[p]
    /\ run' = unsettledPhase(run, IF aborted THEN "cancelled" ELSE "failed")
    /\ advancing' = [advancing EXCEPT ![p] = FALSE]
    /\ observing' = outdated
    /\ UNCHANGED <<crashed, calling, calls, evidence>>

\* cancel(), with the abort of an advance() of this process.
Cancel(p) ==
    /\ live(p) /\ run.owner = p /\ run.phase \notin Terminal
    /\ run' = [run EXCEPT !.phase =
                 IF run.phase = "uncertain" \/ (run.phase = "running" /\ Plan[run.next] = "write")
                 THEN "uncertain" ELSE "cancelled"]
    /\ advancing' = [advancing EXCEPT ![p] = FALSE]
    /\ observing' = outdated
    /\ UNCHANGED <<crashed, calling, calls, evidence>>

\* recover(), from advance() or cancel() of a row that a dead process left running.
Recover(p) ==
    /\ live(p) /\ executionSettled(p)
    /\ run.phase = "running" /\ run.owner # p /\ ~live(run.owner)
    /\ run' = [recovered(run) EXCEPT !.owner = p]
    /\ observing' = outdated
    /\ UNCHANGED <<crashed, advancing, calling, calls, evidence>>

\* answer(): the human's output of a choice.
Answer(p) ==
    /\ live(p) /\ run.owner = p /\ run.phase = "waiting"
    /\ run' = done(run)
    /\ evidence' = [evidence EXCEPT ![run.next] = run.next]
    /\ observing' = outdated
    /\ UNCHANGED <<crashed, advancing, calling, calls>>

\* Mutant of reconcilable: a call in flight does not hold reconciliation back.
reconcilableEarly(p) == run.owner = p /\ run.phase = "uncertain"

\* Whether p may ask for, and store, what an uncertain write has done.
reconcilable(p) == run.owner = p /\ run.phase = "uncertain" /\ executionSettled(p)

\* reconcile(), up to the await of observe().
Observe(p) ==
    /\ live(p) /\ reconcilable(p)
    /\ observing' = observing \cup {[proc |-> p, step |-> run.next, fresh |-> TRUE]}
    /\ UNCHANGED <<run, crashed, advancing, calling, calls, evidence>>

\* runtime.reconcile: the version the observation was made for.
accepted(o) == o.fresh /\ reconcilable(o.proc)

\* The observation arrives, or fails; an outdated one is refused. One element
\* of observing may stand for several calls, so it may remain, outdated.
Observed(o) ==
    /\ live(o.proc)
    /\ \/ /\ accepted(o)
          /\ run' = done(run)
          /\ evidence' = [evidence EXCEPT ![run.next] = o.step]
          /\ observing' \in {outdated, outdated \ {[o EXCEPT !.fresh = FALSE]}}
       \/ /\ observing' = observing \ {o}
          /\ UNCHANGED <<run, evidence>>
    /\ UNCHANGED <<crashed, advancing, calling, calls>>

\* The process ends, with all it had in memory.
Crash(p) ==
    /\ live(p)
    /\ crashed' = crashed \cup {p}
    /\ advancing' = [advancing EXCEPT ![p] = FALSE]
    /\ calling' = [calling EXCEPT ![p] = 0]
    /\ observing' = {o \in observing : o.proc # p}
    /\ UNCHANGED <<run, calls, evidence>>

WorkflowNext ==
    \/ \E p \in Procs :
        \/ Claim(p) \/ Advance(p) \/ Cancel(p) \/ Recover(p) \/ Answer(p) \/ Observe(p) \/ Crash(p)
        \/ \E result \in Results : HostReturns(p, result)
        \/ \E aborted \in BOOLEAN : Interrupt(p, aborted)
    \/ \E o \in observing : Observed(o)

WorkflowSpec == WorkflowInit /\ [][WorkflowNext]_workflowVars

----------------------------------------------------------------------------
(* Properties.                                                             *)

\* The host is called at most once for a write, through timeouts, cancellations,
\* crashes, takeovers and reconciliations, and the call has ended before the
\* run goes on to another step (uncertain writes, assertExecutionSettled).
WritesOnceAndInOrder ==
    /\ \A s \in Indices : Plan[s] = "write" => calls[s] <= 1
    /\ \A p \in Procs : calling[p] # 0 => run.next = calling[p]

\* The stored outcome of a step is its own: what was observed for one uncertain
\* write is never stored for a later one (the version compared in reconcile).
EvidenceIsOwn == \A s \in Indices : evidence[s] \in {0, s}

\* Both: what a run has done and what it says it has done are each step's own.
WorkflowSafety == WritesOnceAndInOrder /\ EvidenceIsOwn

====
