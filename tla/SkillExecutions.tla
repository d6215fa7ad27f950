---- MODULE SkillExecutions ----
(***************************************************************************)
(* Execution of checked skill scripts: the requests of                     *)
(* lib/skills/execution-service.ts, their one-use consent                  *)
(* (execution-consent.ts), the run (execution-runner.ts), its staged files *)
(* (lib/stores/skill-run-staging.ts) and the pending_actions row through   *)
(* which a person approves or denies it.                                   *)
(*                                                                         *)
(* approve() awaits nothing between claiming a request and launching its   *)
(* process, so a claim is one step. Time enters only as "the five minutes  *)
(* of the request are over": they bound the request, its consent and its   *)
(* timer alike. A locked master key or screen, safe mode, a disabled tool  *)
(* and a blocking setting are one thing, the policy "blocked".             *)
(***************************************************************************)
EXTENDS Integers

CONSTANT Requests   \* request ids; each is used once

VARIABLES
    executions,     \* what is known of each request, in memory and on disk
    policy,         \* what resolveSkillExecutionConsentRequirement answers
    shuttingDown,   \* close() was called
    recoveryDue     \* recoverAbandonedExecutionApprovals has not run since boot

skillVars == <<executions, policy, shuttingDown, recoveryDue>>

Policies == {"blocked", "ask", "workflow", "trusted"}
Executions == [
    entry : {"none", "pending", "running", "finished", "gone"}, \* #requests
    open : BOOLEAN,      \* its consent can still be decided
    aborted : BOOLEAN,   \* its controller
    late : BOOLEAN,      \* SKILL_CONSENT_TTL_MS have passed
    active : BOOLEAN,    \* runStagedSkill awaits the process
    action : {"none", "pending", "approved", "denied", "failed"},
    accepted : BOOLEAN,  \* the approval's system operation is accepted
    applying : BOOLEAN,  \* applyAction awaits the import
    says : {"nothing", "result", "unknown", "notRun"}, \* the row's result
    live : BOOLEAN,      \* a process of the script may be alive
    files : {"none", "prepared", "launched", "verified"}, \* staging, its state
    orphan : BOOLEAN,    \* the staging's owner is a dead process
    launches : 0..2]     \* history

Unused == [entry |-> "none", open |-> FALSE, aborted |-> FALSE, late |-> FALSE,
           active |-> FALSE, action |-> "none", accepted |-> FALSE, applying |-> FALSE,
           says |-> "nothing", live |-> FALSE, files |-> "none", orphan |-> FALSE,
           launches |-> 0]

\* The requests, with their rows, processes and files.
SkillTypeOK ==
    /\ executions \in [Requests -> Executions]
    /\ policy \in Policies
    /\ shuttingDown \in BOOLEAN /\ recoveryDue \in BOOLEAN

SkillInit ==
    /\ executions = [r \in Requests |-> Unused]
    /\ policy \in Policies
    /\ shuttingDown = FALSE /\ recoveryDue = FALSE

----------------------------------------------------------------------------
(* Parts of the handlers, as functions of one execution.                   *)

\* setActionStatus: a settled row is not replaced.
settledAction(e, status, says) ==
    IF e.action = "pending"
    THEN [e EXCEPT !.action = status, !.says = says, !.accepted = FALSE] ELSE e

\* dependencies.expire.
expired(e) == settledAction(e, "failed", "notRun")

\* controller.abort() and consent.close().
stopped(e) == [e EXCEPT !.aborted = TRUE, !.open = FALSE]

\* approve() ends before the launch: policy, source, workspace or consent.
refused(e) == [e EXCEPT !.entry = "finished", !.open = FALSE]

\* A process was started for the request.
spawned(e) ==
    [e EXCEPT !.files = "launched", !.live = TRUE, !.launches = IF @ < 2 THEN @ + 1 ELSE 2]

\* launch() throws: a process may exist that nobody owns, the files stay.
unowned(e) == {spawned(refused(e)), [refused(e) EXCEPT !.files = "launched"]}

\* launch() returns: the consent is consumed.
launched(e) == [spawned(e) EXCEPT !.entry = "running", !.open = FALSE, !.active = TRUE]

\* The policy decisions under which approve() goes on.
permits(by) == policy \in CASE by = "person" -> {"ask", "trusted"}
                            [] by = "revision" -> {"trusted"}
                            [] by = "plan" -> {"ask", "trusted", "workflow"}

\* service.approve() up to its await: the request is claimed, and the process
\* launched unless something has changed. The row of a person's approval is
\* settled with it when it ends here.
approve(e, by) ==
    LET ended(x, says) == IF by = "person" THEN settledAction(x, "failed", says) ELSE x IN
    {ended(refused(e), "notRun")}
        \cup IF permits(by) /\ e.open
             THEN {launched(e)} \cup {ended(x, "result") : x \in unowned(e)} ELSE {}

----------------------------------------------------------------------------
(* Steps. Only(r, e) replaces what is known of request r.                  *)

Only(r, e) ==
    /\ executions' = [executions EXCEPT ![r] = e]
    /\ UNCHANGED <<policy, shuttingDown, recoveryDue>>

\* request(): of a workflow whose plan was verified, or of an agent. Storing
\* the proposal may fail, which cancels the request.
Request(r, workflow) ==
    LET e == [Unused EXCEPT !.entry = "pending", !.open = TRUE] IN
    /\ executions[r].entry = "none" /\ ~shuttingDown
    /\ policy \in {"ask", "trusted"} \cup IF workflow THEN {"workflow"} ELSE {}
    /\ IF workflow \/ policy = "trusted"
       THEN \E x \in approve(e, IF workflow THEN "plan" ELSE "revision") : Only(r, x)
       ELSE Only(r, [e EXCEPT !.action = "pending"]) \/ Only(r, [stopped(e) EXCEPT !.entry = "gone"])

\* The approve route, up to the await in applyAction.
Reserve(r) ==
    /\ executions[r].action = "pending" /\ ~executions[r].accepted
    /\ Only(r, [executions[r] EXCEPT !.accepted = TRUE, !.applying = TRUE])

\* The rest of the route, up to the await of the run. approve() refuses what
\* is expired, gone or claimed, and what a previous process was asked.
Apply(r) ==
    LET e == [executions[r] EXCEPT !.applying = FALSE] IN
    /\ executions[r].applying
    /\ IF e.entry = "pending" /\ ~e.late
       THEN \E x \in approve(e, "person") : Only(r, x)
       ELSE Only(r, settledAction(e, "failed", "notRun"))

\* The run ends: exit, timeout or abort, then the bounded cleanup. Only a tree
\* that is verified to be stopped has its files removed, if that works.
RunEnds(r, exitedWell, verified, removed) ==
    LET e == executions[r]
        succeeded == verified /\ removed /\ ~e.aborted /\ exitedWell
        ended == [e EXCEPT !.active = FALSE, !.open = FALSE,
                           !.entry = IF @ = "gone" THEN "gone" ELSE "finished",
                           !.files = IF ~verified THEN @ ELSE IF removed THEN "none" ELSE "verified"]
    IN
    /\ e.active
    /\ \E alive \in IF verified THEN {FALSE} ELSE BOOLEAN :
         Only(r, settledAction([ended EXCEPT !.live = alive],
                               IF succeeded THEN "approved" ELSE "failed", "result"))

\* cancel(): by the tool, the route, the aborted caller or after a denial. An
\* aborted caller also stops a request that is expired.
CancelRequest(r) ==
    LET e == executions[r] IN
    /\ e.entry \in {"pending", "running"}
    /\ Only(r, IF e.entry = "pending" /\ ~e.late
               THEN [expired(stopped(e)) EXCEPT !.entry = "gone"] ELSE stopped(e))

\* The deny route; its cancel() comes after an await and is CancelRequest.
Deny(r) ==
    /\ executions[r].action = "pending" /\ ~executions[r].accepted
    /\ Only(r, settledAction(executions[r], "denied", "notRun"))

\* The five minutes of a request are over,
Expire(r) ==
    /\ executions[r].entry # "none" /\ ~executions[r].late
    /\ Only(r, [executions[r] EXCEPT !.late = TRUE])

\* and some time after, its timer fires. close() clears the timers.
TimerFires(r) ==
    LET e == stopped(executions[r]) IN
    /\ e.late /\ e.entry \in {"pending", "running", "finished"} /\ ~shuttingDown
    /\ Only(r, [(IF e.entry = "pending" THEN expired(e) ELSE e) EXCEPT !.entry = "gone"])

\* A setting, the safe mode or a lock changes.
SetPolicy(p) ==
    /\ policy # p
    /\ policy' = p
    /\ UNCHANGED <<executions, shuttingDown, recoveryDue>>

\* close(), up to its await.
ShutDown ==
    /\ ~shuttingDown
    /\ shuttingDown' = TRUE
    /\ executions' = [r \in Requests |->
         LET e == executions[r] IN
         CASE e.entry = "pending" -> expired(stopped(e))
           [] e.entry = "running" -> stopped(e)
           [] OTHER -> e]
    /\ UNCHANGED <<policy, recoveryDue>>

\* The app process ends and another one boots. Scripts may survive, and a
\* claim that is being applied may have got as far as the staged files (one
\* that got further is Apply's).
Restart ==
    LET lost(e) == [e EXCEPT !.entry = IF @ = "none" THEN "none" ELSE "gone",
                             !.open = FALSE, !.active = FALSE, !.applying = FALSE,
                             !.orphan = e.files # "none"]
        staged(e) == IF e.applying /\ e.entry = "pending" /\ e.open
                     THEN {[lost(e) EXCEPT !.files = "prepared", !.orphan = TRUE]} ELSE {}
        left(e) == {[lost(e) EXCEPT !.live = alive] : alive \in {FALSE, e.live}} \cup staged(e)
    IN
    /\ \E after \in [Requests -> UNION {left(executions[r]) : r \in Requests}] :
         /\ \A r \in Requests : after[r] \in left(executions[r])
         /\ executions' = after
    /\ shuttingDown' = FALSE /\ recoveryDue' = TRUE
    /\ UNCHANGED policy

\* Mutant of recoveredSays: what was accepted is not told apart.
alwaysDiscarded(e) == "notRun"

\* What recovery writes: whether the approval had been accepted.
recoveredSays(e) == IF e.accepted THEN "unknown" ELSE "notRun"

\* recoverAbandonedExecutionApprovals: at boot, or once the key is unlocked.
RecoverApprovals ==
    /\ recoveryDue
    /\ recoveryDue' = FALSE
    /\ executions' = [r \in Requests |->
         settledAction(executions[r], "failed", recoveredSays(executions[r]))]
    /\ UNCHANGED <<policy, shuttingDown>>

\* cleanupAbandonedSkillStaging, at boot or asked for.
CleanStaging ==
    /\ \E r \in Requests : executions[r].orphan
    /\ executions' = [r \in Requests |->
         IF executions[r].orphan /\ executions[r].files \in {"prepared", "verified"}
         THEN [executions[r] EXCEPT !.files = "none", !.orphan = FALSE] ELSE executions[r]]
    /\ UNCHANGED <<policy, shuttingDown, recoveryDue>>

SkillNext ==
    \/ \E r \in Requests :
        \/ \E workflow \in BOOLEAN : Request(r, workflow)
        \/ Reserve(r) \/ Apply(r) \/ CancelRequest(r) \/ Deny(r) \/ Expire(r) \/ TimerFires(r)
        \/ \E w, v, d \in BOOLEAN : RunEnds(r, w, v, d)
    \/ \E p \in Policies : SetPolicy(p)
    \/ ShutDown \/ Restart \/ RecoverApprovals \/ CleanStaging

SkillSpec == SkillInit /\ [][SkillNext]_skillVars

----------------------------------------------------------------------------
(* Properties.                                                             *)

\* A row that says the script was denied, cancelled, expired, refused or
\* discarded tells the truth: no process was ever started for it, whatever
\* races the approval and whatever restart follows (settledAction's callers).
DisownedNeverRan == \A r \in Requests : executions[r].says = "notRun" => executions[r].launches = 0

\* One approval starts at most one process, and the files a process may still
\* read are kept, also for a process that outlives the app or that a failed
\* launch left without an owner (skill-run-staging.ts, execution-runner.ts).
FilesOutliveProcess ==
    \A r \in Requests :
        /\ executions[r].launches <= 1
        /\ executions[r].live => executions[r].files # "none"

\* Both: every process that may exist is accounted for, by what the row says
\* and by what is kept on disk.
ProcessesAccountedFor == DisownedNeverRan /\ FilesOutliveProcess

====
