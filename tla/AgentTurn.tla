---- MODULE AgentTurn ----
(***************************************************************************)
(* One conversation's turns from submission to the saved transcript: the   *)
(* run queue (RunQueue, one thread), the run registry's entry, the rows of *)
(* the transcript, steering messages and a crash of the server.            *)
(*   http:         app/api/v1/threads/[thread_id]/run/route.ts, POST       *)
(*   agent:        lib/agents/agent-turn.ts, runAgentTurn of the bridges,  *)
(*                 triggers, watchers and schedulers                       *)
(*   continuation: runAgentTurn of the steering a turn left unread         *)
(***************************************************************************)
EXTENDS Integers, Sequences, FiniteSets, Functions

CONSTANTS
    Thread,    \* the conversation
    Jobs,      \* callers' slots
    NoJob,     \* no job
    MaxDepth,  \* the depth limit of the run queue
    Expiring,  \* slots whose calls pass a deadline: bridges and wake-ups
    Messages   \* steering requests, each with its request_id

\* A slot is free whenever the queue has room, so that the model never
\* refuses a call the queue would take.
ASSUME AgentTurnAssumption ==
    /\ NoJob \notin Jobs
    /\ MaxDepth \in Nat \ {0}
    /\ Expiring \subseteq Jobs
    /\ IsFiniteSet(Jobs)
    /\ Cardinality(Jobs \ Expiring) >= MaxDepth

VARIABLES
    registered, active, waiting, status, deadline, position, served,
                \* the run queue, see RunQueue
    up,         \* the server process is running
    kind,       \* [Jobs -> Kinds]: the entry point of the open call
    phase,      \* [Jobs -> Phases]: where the runner's async function is
    admission,  \* [Jobs -> Admissions]: the promise the runner awaits
    userRow,    \* [Jobs -> RowStates]: transcript_status of the user row
    draft,      \* [Jobs -> RowStates]: transcript_status of the assistant draft
    cargo,      \* [Jobs -> SUBSET Messages]: steering a continuation carries
    run,        \* the thread's entry in the `runs` map
    fate,       \* [Messages -> Fates]: what became of a steering message
    mishap      \* history: [Jobs -> SUBSET Mishaps], what kept the call's rows
                \* from being settled

queueVars == <<registered, active, waiting, status, deadline, position, served>>
rowVars == <<userRow, draft>>
turnVars == <<kind, phase, admission, cargo, mishap>>
vars == <<queueVars, up, turnVars, rowVars, run, fate>>

Queue == INSTANCE RunQueue WITH Threads <- {Thread}

Kinds == {"none", "http", "agent", "continuation"}
Phases == {"none", "admission", "preparing", "streaming", "over"}
Admissions == {"none", "pending", "persisted", "refused"}
RowStates == {"none", "in_progress", "completed", "interrupted", "failed"}
\* "queued": in run.steering; "carried": in a continuation's prompt;
\* "read": in a model call's input; "lost": nobody will read it any more.
Fates == {"unsent", "queued", "carried", "read", "lost"}

\* "start": startRun threw; "activation": the write that makes the user row
\* part of the history was refused; "settling": the last write that should
\* settle the draft was refused.
Mishaps == {"start", "activation", "settling"}

NoRun == [of |-> NoJob, state |-> "none", aborted |-> FALSE, steering |-> <<>>]
\* An entry that is "running" or holds steering with of = NoJob was abandoned:
\* its runner returned without finishRun.
NewRun(j) == [of |-> j, state |-> "running", aborted |-> FALSE, steering |-> <<>>]
Runs == [of : Jobs \cup {NoJob}, state : {"none", "running", "done", "error"},
         aborted : BOOLEAN, steering : Seq(Messages)]

TypeOK ==
    /\ Queue!TypeOK
    /\ up \in BOOLEAN
    /\ kind \in [Jobs -> Kinds]
    /\ phase \in [Jobs -> Phases]
    /\ admission \in [Jobs -> Admissions]
    /\ userRow \in [Jobs -> RowStates]
    /\ draft \in [Jobs -> RowStates]
    /\ cargo \in [Jobs -> SUBSET Messages]
    /\ run \in Runs
    /\ fate \in [Messages -> Fates]
    /\ mishap \in [Jobs -> SUBSET Mishaps]

Init ==
    /\ Queue!Init
    /\ up = TRUE
    /\ kind = [j \in Jobs |-> "none"]
    /\ phase = [j \in Jobs |-> "none"]
    /\ admission = [j \in Jobs |-> "none"]
    /\ userRow = [j \in Jobs |-> "none"]
    /\ draft = [j \in Jobs |-> "none"]
    /\ cargo = [j \in Jobs |-> {}]
    /\ run = NoRun
    /\ fate = [m \in Messages |-> "unsent"]
    /\ mishap = [j \in Jobs |-> {}]

----------------------------------------------------------------------------
(* Submission.                                                             *)

\* A new call in slot j; its rows are not written yet.
opens(j, k, carried) ==
    /\ kind' = [kind EXCEPT ![j] = k]
    /\ admission' = [admission EXCEPT ![j] = IF k = "http" THEN "pending" ELSE "none"]
    /\ cargo' = [cargo EXCEPT ![j] = carried]
    /\ mishap' = [mishap EXCEPT ![j] = {}]

freshRows(rows, j) == [rows EXCEPT ![j] = "none"]

\* POST: the call is queued before its message is saved.
HttpSubmit(j) ==
    /\ up
    /\ j \notin Expiring
    /\ Queue!Enqueue(Thread, j, Queue!lane("user", "default"))
    /\ opens(j, "http", {})
    /\ userRow' = freshRows(userRow, j)
    /\ draft' = freshRows(draft, j)
    /\ UNCHANGED <<up, phase, run, fate>>

\* runAgentTurn of a bridge, trigger, watcher or scheduler.
AgentSubmit(j, l) ==
    /\ up
    /\ Queue!Enqueue(Thread, j, l)
    /\ opens(j, "agent", {})
    /\ userRow' = freshRows(userRow, j)
    /\ draft' = freshRows(draft, j)
    /\ UNCHANGED <<up, phase, run, fate>>

\* The status persistThreadRunUserMessage writes.
savedUserRow == "in_progress"

\* POST: one transaction saves the user row and the draft, then the runner
\* is released.
Persist(j) ==
    /\ up
    /\ admission[j] = "pending"
    /\ admission' = [admission EXCEPT ![j] = "persisted"]
    /\ userRow' = [userRow EXCEPT ![j] = savedUserRow]
    /\ draft' = [draft EXCEPT ![j] = "in_progress"]
    /\ UNCHANGED <<queueVars, up, kind, phase, cargo, run, fate, mishap>>

\* POST: the message could not be saved; the queued call must do nothing.
Refuse(j) ==
    /\ up
    /\ admission[j] = "pending"
    /\ admission' = [admission EXCEPT ![j] = "refused"]
    /\ UNCHANGED <<queueVars, up, kind, phase, cargo, rowVars, run, fate, mishap>>

----------------------------------------------------------------------------
(* The runner of the call that owns the thread.                            *)

Owner(j) == up /\ active[Thread] = j /\ status[j] = "running"

lose(messages) == [m \in Messages |-> IF m \in messages THEN "lost" ELSE fate[m]]
noted(j, why) == [mishap EXCEPT ![j] = @ \cup why]

\* startRun throws when the thread's entry is still running: the turn ends
\* before it began, outside every handler, with its rows and its cargo.
startRunThrows(j) ==
    /\ run.state = "running"
    /\ phase' = [phase EXCEPT ![j] = "over"]
    /\ mishap' = noted(j, {"start"})
    /\ fate' = lose(cargo[j])
    /\ cargo' = [cargo EXCEPT ![j] = {}]
    /\ UNCHANGED <<userRow, run>>

\* The entry is replaced, with the steering an abandoned one still holds; the
\* user row of an http turn becomes part of the history.
registers(j) ==
    /\ run.state # "running"
    /\ run' = NewRun(j)
    /\ phase' = [phase EXCEPT ![j] = "preparing"]
    /\ userRow' = IF kind[j] = "http" THEN [userRow EXCEPT ![j] = "completed"] ELSE userRow
    /\ fate' = lose(Range(run.steering))
    /\ UNCHANGED <<cargo, mishap>>

startRun(j) == startRunThrows(j) \/ registers(j)

\* The queue calls the runner: an http turn awaits its admission, any other
\* turn registers its run at once.
CallRunner ==
    LET j == active[Thread]
    IN  /\ up
        /\ Queue!Start(Thread)
        /\ \/ /\ kind[j] = "http"
              /\ phase' = [phase EXCEPT ![j] = "admission"]
              /\ UNCHANGED <<cargo, userRow, run, fate, mishap>>
           \/ kind[j] # "http" /\ startRun(j)
        /\ UNCHANGED <<up, kind, admission, draft>>

\* executeSubmittedTurn up to prepareThreadRun.
Execute(j) ==
    /\ Owner(j)
    /\ phase[j] = "admission"
    /\ admission[j] = "persisted"
    /\ startRun(j)
    /\ UNCHANGED <<queueVars, up, kind, admission, draft>>

settledRow(j, s) ==
    [draft EXCEPT ![j] = IF draft[j] = "in_progress" THEN s ELSE draft[j]]

\* The run is registered, but the write of the user row is refused. The
\* handler settles the draft alone and finishes the run; when that write is
\* refused too, finishRun is not reached and the new entry is abandoned.
ActivationFails(j) ==
    /\ Owner(j)
    /\ phase[j] = "admission"
    /\ admission[j] = "persisted"
    /\ run.state # "running"
    /\ phase' = [phase EXCEPT ![j] = "over"]
    /\ fate' = lose(Range(run.steering))
    /\ \/ /\ draft' = settledRow(j, "failed")
          /\ run' = [NewRun(j) EXCEPT !.state = "error"]
          /\ mishap' = noted(j, {"activation"})
       \/ /\ run' = [NewRun(j) EXCEPT !.of = NoJob]
          /\ mishap' = noted(j, {"activation", "settling"})
          /\ UNCHANGED draft
    /\ UNCHANGED <<queueVars, up, kind, admission, cargo, userRow>>

\* `if (!(await admission)) return`
TurnAway(j) ==
    /\ Owner(j)
    /\ phase[j] = "admission"
    /\ admission[j] = "refused"
    /\ phase' = [phase EXCEPT ![j] = "over"]
    /\ UNCHANGED <<queueVars, up, kind, admission, cargo, rowVars, run, fate, mishap>>

\* persistTurnInput of an agent turn: one transaction saves the user row and,
\* unless the turn is silent, the draft.
PersistInput(j) ==
    /\ Owner(j)
    /\ phase[j] = "preparing"
    /\ kind[j] = "agent"
    /\ userRow[j] = "none"
    /\ userRow' = [userRow EXCEPT ![j] = "completed"]
    /\ \E silent \in BOOLEAN :
        draft' = IF silent THEN draft ELSE [draft EXCEPT ![j] = "in_progress"]
    /\ UNCHANGED <<queueVars, up, turnVars, run, fate>>

\* prepareThreadRun returns. A continuation saves no user row: its prompt
\* carries the steering, and its draft is created here.
Prepared(j) ==
    /\ Owner(j)
    /\ phase[j] = "preparing"
    /\ kind[j] = "agent" => userRow[j] # "none"
    /\ phase' = [phase EXCEPT ![j] = "streaming"]
    /\ draft' = IF kind[j] = "continuation" THEN [draft EXCEPT ![j] = "in_progress"] ELSE draft
    /\ fate' = [m \in Messages |-> IF m \in cargo[j] THEN "read" ELSE fate[m]]
    /\ cargo' = [cargo EXCEPT ![j] = {}]
    /\ UNCHANGED <<queueVars, up, kind, admission, userRow, run, mishap>>

\* Mutant of unread: the drain copies the queue.
unreadKept == run.steering

\* drainSteering: what run.steering holds after the drain.
unread == <<>>

\* preModelHook: the next model call reads all the steering that is queued.
\* The hook does not ask whether the run is still registered as running.
ModelCall(j) ==
    /\ Owner(j)
    /\ phase[j] = "streaming"
    /\ run.steering # <<>>
    /\ run' = [run EXCEPT !.steering = unread]
    /\ fate' = [m \in Messages |-> IF m \in Range(run.steering) THEN "read" ELSE fate[m]]
    /\ UNCHANGED <<queueVars, up, turnVars, rowVars>>

----------------------------------------------------------------------------
(* The end of a turn. After the stream's last chunk the handlers do not    *)
(* await before finishRun, so the end is one step.                         *)

\* Mutant of finishRun: this way out forgets it.
unfinished(j, s) == run

\* finishRun by the runner. The entry may have been evicted. What is left in
\* run.steering has no reader once the runner returns.
finishRun(j, s) ==
    IF run.of = j THEN [run EXCEPT !.state = s, !.steering = <<>>] ELSE run

\* The runner returns with nothing to continue: the entry is finished, and
\* the steering nobody read is lost.
leaves(j, s) ==
    /\ phase' = [phase EXCEPT ![j] = "over"]
    /\ run' = finishRun(j, s)
    /\ fate' = lose(Range(run.steering) \cup cargo[j])
    /\ cargo' = [cargo EXCEPT ![j] = {}]
    /\ UNCHANGED <<queueVars, up, kind, admission, userRow>>

returns(j, s, row) ==
    /\ leaves(j, s)
    /\ draft' = settledRow(j, row)
    /\ UNCHANGED mishap

\* The write that should settle the draft is refused and only logged.
returnsUnsettled(j) ==
    /\ draft[j] = "in_progress"
    /\ leaves(j, "error")
    /\ mishap' = noted(j, {"settling"})
    /\ UNCHANGED draft

\* The same in the handler of an http turn's preparation, where nothing
\* catches it: finishRun is not reached.
abandons(j) ==
    /\ phase' = [phase EXCEPT ![j] = "over"]
    /\ run' = IF run.of = j THEN [run EXCEPT !.of = NoJob] ELSE run
    /\ mishap' = noted(j, {"settling"})
    /\ UNCHANGED <<queueVars, up, kind, admission, cargo, userRow, draft, fate>>

\* Mutant of preparesBadly: the draft is left as it is.
preparesSilently(j) == draft[j]

\* prepareThreadRun throws. Steering accepted meanwhile is not looked at.
preparesBadly(j) == "failed"

PrepareFails(j) ==
    /\ Owner(j)
    /\ phase[j] = "preparing"
    /\ \/ returns(j, "error", preparesBadly(j))
       \/ kind[j] # "http" /\ returnsUnsettled(j)
       \/ kind[j] = "http" /\ abandons(j)

\* How the stream ended, as collectStream reports it. "aborted" is also any
\* provider error whose text says so; "empty" is a reply without content.
Outcomes == {"done", "empty", "error", "aborted"}

\* Mutant of rowOf: a status the readers of the transcript do not know.
rowOfCancelled ==
    [done |-> "completed", empty |-> "failed", error |-> "failed", aborted |-> "cancelled"]

\* The transcript status each outcome is saved with.
rowOf == [done |-> "completed", empty |-> "failed", error |-> "failed", aborted |-> "interrupted"]

terminalOf == [done |-> "done", empty |-> "done", error |-> "error", aborted |-> "error"]

\* Which turns look for unread steering after the stream.
drainsAtEnd(j, o) == kind[j] = "http" /\ o # "aborted"

StreamEnds(j, o) ==
    /\ Owner(j)
    /\ phase[j] = "streaming"
    /\ ~drainsAtEnd(j, o) \/ run.steering = <<>> \/ Queue!depth(Thread) >= MaxDepth
    /\ returns(j, terminalOf[o], rowOf[o])

\* An http turn that left steering unread queues a continuation first.
StreamContinues(j, k, o) ==
    /\ Owner(j)
    /\ phase[j] = "streaming"
    /\ drainsAtEnd(j, o)
    /\ run.steering # <<>>
    /\ k \notin Expiring
    /\ Queue!Enqueue(Thread, k, Queue!lane("user", "default"))
    /\ opens(k, "continuation", Range(run.steering))
    /\ phase' = [phase EXCEPT ![j] = "over"]
    /\ draft' = freshRows(settledRow(j, rowOf[o]), k)
    /\ userRow' = freshRows(userRow, k)
    /\ run' = finishRun(j, terminalOf[o])
    /\ fate' = [m \in Messages |-> IF m \in Range(run.steering) THEN "carried" ELSE fate[m]]
    /\ UNCHANGED up

\* The result cannot be saved. A row that was saved before the failure is
\* kept by the http handler and overwritten by runAgentTurn, if it can be
\* written; a row that was not stays open when its last write is refused.
PersistFails(j) ==
    /\ Owner(j)
    /\ phase[j] = "streaming"
    /\ \/ \E row \in {"failed", "completed", "interrupted"} : returns(j, "error", row)
       \/ returnsUnsettled(j)

\* The model forgets a settled call's final rows; an open one stays until the
\* slot is used again.
keptOpen(row) == IF row = "in_progress" THEN row ELSE "none"
forgotten(rows, j) == [rows EXCEPT ![j] = keptOpen(rows[j])]

\* The runner's promise settles: the queue moves on.
Leave ==
    /\ up
    /\ Queue!Settle(Thread)
    /\ phase[active[Thread]] = "over"
    /\ phase' = [phase EXCEPT ![active[Thread]] = "none"]
    /\ kind' = [kind EXCEPT ![active[Thread]] = "none"]
    /\ admission' = [admission EXCEPT ![active[Thread]] = "none"]
    /\ userRow' = forgotten(userRow, active[Thread])
    /\ draft' = forgotten(draft, active[Thread])
    /\ UNCHANGED <<up, cargo, run, fate, mishap>>

\* A call's deadline passed while it waited: it is rejected unstarted.
Expire ==
    /\ up
    /\ Queue!Expire(Thread)
    /\ kind' = [kind EXCEPT ![active[Thread]] = "none"]
    /\ UNCHANGED <<up, phase, admission, cargo, rowVars, run, fate, mishap>>

PassDeadline(j) ==
    /\ up
    /\ Queue!PassDeadline(j)
    /\ UNCHANGED <<up, turnVars, rowVars, run, fate>>

----------------------------------------------------------------------------
(* Steering, stopping, watchdogs and crashes.                              *)

\* Mutant of alreadyAccepted: request ids are not looked up.
neverAccepted(m) == FALSE

\* getMessageBySteeringRequestId: the row of an accepted message outlives
\* the queue it was put in. A repeated request changes nothing.
alreadyAccepted(m) == fate[m] # "unsent"

\* PATCH: pushSteering, then the message's own row, in one stretch.
Steer(m) ==
    /\ up
    /\ ~alreadyAccepted(m)
    /\ run.state = "running"
    /\ ~run.aborted
    /\ Len(run.steering) < 2 * Cardinality(Messages)
    /\ run' = [run EXCEPT !.steering = Append(@, m)]
    /\ fate' = [fate EXCEPT ![m] = "queued"]
    /\ UNCHANGED <<queueVars, up, turnVars, rowVars>>

\* DELETE: abortRun. The runner notices later, or not at all when its stream
\* has ended.
Stop ==
    /\ up
    /\ run.state = "running"
    /\ run' = [run EXCEPT !.aborted = TRUE]
    /\ UNCHANGED <<queueVars, up, turnVars, rowVars, fate>>

\* Mutant of timedOut: the runner is aborted, and trusted to finish the run.
abortedOnly == [run EXCEPT !.aborted = TRUE]

\* What a watchdog leaves of the entry: abort, then finishRun.
timedOut == [run EXCEPT !.aborted = TRUE, !.state = "error"]

\* A watchdog of RunWatchdog: it does not wait for the runner, if there is one.
Watchdog ==
    /\ up
    /\ run.state = "running"
    /\ run' = timedOut
    /\ UNCHANGED <<queueVars, up, turnVars, rowVars, fate>>

\* finishRun's timer deletes the entry; the killed runner may still be there.
Evict ==
    /\ up
    /\ run.state \in {"done", "error"}
    /\ run' = NoRun
    /\ fate' = lose(Range(run.steering))
    /\ UNCHANGED <<queueVars, up, turnVars, rowVars>>

\* The process dies: the queue, the registry and the calls are gone, the
\* transcript stays.
Crash ==
    /\ up
    /\ up' = FALSE
    /\ registered' = {}
    /\ active' = [t \in {Thread} |-> NoJob]
    /\ waiting' = [t \in {Thread} |-> Queue!Empty]
    /\ status' = [j \in Jobs |-> "idle"]
    /\ deadline' = [j \in Jobs |-> "none"]
    /\ position' = [j \in Jobs |-> 0]
    /\ served' = [j \in Jobs |-> 0]
    /\ kind' = [j \in Jobs |-> "none"]
    /\ phase' = [j \in Jobs |-> "none"]
    /\ admission' = [j \in Jobs |-> "none"]
    /\ cargo' = [j \in Jobs |-> {}]
    /\ mishap' = [j \in Jobs |-> {}]
    /\ run' = NoRun
    /\ fate' = lose({m \in Messages : fate[m] \in {"queued", "carried"}})
    /\ UNCHANGED rowVars

recovered(rows) ==
    [j \in Jobs |-> IF rows[j] = "in_progress" THEN "interrupted" ELSE rows[j]]

\* Mutant of recoveredUserRows: only assistant drafts are recovered.
untouchedUserRows == userRow

recoveredUserRows == recovered(userRow)

\* bootNode: recoverAbandonedMessageDrafts, before any request is served.
\* All calls are gone; their rows are forgotten once they are final.
Boot ==
    /\ ~up
    /\ up' = TRUE
    /\ userRow' = [j \in Jobs |-> keptOpen(recoveredUserRows[j])]
    /\ draft' = [j \in Jobs |-> keptOpen(recovered(draft)[j])]
    /\ UNCHANGED <<queueVars, turnVars, run, fate>>

----------------------------------------------------------------------------

RunnerStep(j) ==
    \/ Execute(j)
    \/ ActivationFails(j)
    \/ TurnAway(j)
    \/ PersistInput(j)
    \/ Prepared(j)
    \/ PrepareFails(j)
    \/ \E o \in Outcomes : StreamEnds(j, o)
    \/ \E k \in Jobs, o \in Outcomes : StreamContinues(j, k, o)
    \/ PersistFails(j)

Admit(j) == Persist(j) \/ Refuse(j)
QueueStep == CallRunner \/ Expire \/ Leave

Next ==
    \/ \E j \in Jobs :
        \/ HttpSubmit(j)
        \/ \E l \in Queue!RequestedLanes : AgentSubmit(j, l)
        \/ Admit(j)
        \/ RunnerStep(j)
        \/ ModelCall(j)
        \/ PassDeadline(j)
    \/ QueueStep
    \/ \E m \in Messages : Steer(m)
    \/ Stop
    \/ Watchdog
    \/ Evict
    \/ Crash
    \/ Boot

\* A run that stays registered as running is moved on by its runner or ended
\* by a watchdog; an abandoned one has the watchdogs only.
Supervised ==
    /\ run.state = "running"
    /\ Watchdog \/ (run.of \in Jobs /\ RunnerStep(run.of))

\* What the process sees to: callbacks and timers run, a POST handler
\* finishes, the watchdogs look after what is registered, and a stopped server
\* is started again.
Scheduled ==
    /\ WF_vars(\E j \in Jobs : Admit(j))
    /\ WF_vars(QueueStep)
    /\ WF_vars(Supervised)
    /\ WF_vars(Evict)
    /\ WF_vars(Boot)

\* What it cannot see to: that what a runner awaits settles, at the latest
\* when its signal is aborted. An assumption, where a property needs it.
RunnersReturn == WF_vars(\E j \in Jobs : RunnerStep(j))

Spec == Init /\ [][Next]_vars
FairSpec == Spec /\ Scheduled

----------------------------------------------------------------------------
(* The properties.                                                         *)

\* A registered running run is the run of the call that owns the thread, and
\* that call still drives it, also past watchdogs, aborts, failed turns and
\* crashes; the one exception is an entry its handler has abandoned.
RunHasItsOwner ==
    run.state = "running" /\ run.of # NoJob =>
        /\ active[Thread] = run.of
        /\ phase[run.of] \in {"preparing", "streaming"}

\* A row of a settled call is "in_progress" only if startRun threw or the
\* write that would have settled it was refused, and not after a restart.
NoRowLeftOpen ==
    up => \A j \in Jobs :
        status[j] \in Queue!Free \/ phase[j] = "over" =>
            /\ userRow[j] = "in_progress" => mishap[j] \cap {"start", "activation"} # {}
            /\ draft[j] = "in_progress" => mishap[j] \cap {"start", "settling"} # {}

\* A steering message that waits is in exactly one place, once, and that
\* place is the owner's run, an abandoned entry that is soon evicted, or a
\* continuation that is still to prepare its prompt.
SteeringInOnePlace ==
    /\ \A m \in Messages :
        /\ fate[m] = "queued" <=> m \in Range(run.steering)
        /\ fate[m] = "carried" <=> \E j \in Jobs : m \in cargo[j]
    /\ IsInjective(run.steering)
    /\ run.steering # <<>> => run.of \in {active[Thread], NoJob}
    /\ \A j \in Jobs : cargo[j] # {} =>
        /\ kind[j] = "continuation"
        /\ status[j] \notin Queue!Free
        /\ \A k \in Jobs : cargo[k] \cap cargo[j] # {} => k = j

\* A steering message that was read, or given up, is never queued or read
\* again, whatever the client repeats: no model call sees it twice.
SteeringHandledOnce ==
    [][\A m \in Messages : fate[m] \in {"read", "lost"} => fate'[m] = fate[m]]_vars

\* No run stays registered as running and no steering message stays queued,
\* even if a runner never returns or has abandoned its entry: the watchdogs see
\* to it. When runners return, every draft settles, or the write that was
\* refused is on record, and the steering a continuation carries leaves it.
EverythingSettles ==
    /\ []<>(run.state # "running")
    /\ \A m \in Messages : []<>(fate[m] # "queued")
    /\ RunnersReturn =>
        /\ \A j \in Jobs : []<>(draft[j] # "in_progress" \/ mishap[j] # {})
        /\ \A m \in Messages : []<>(fate[m] # "carried")

\* ADR-0080: "The queue is never silently discarded, with one deliberate
\* exception: an aborted run drops it". The code discards it in other ways.
SteeringNotDiscarded ==
    [][\A m \in Messages :
        fate[m] # "lost" /\ fate'[m] = "lost" => run.aborted \/ ~up']_vars

====
