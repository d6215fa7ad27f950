---- MODULE ScheduledTriggers ----
(***************************************************************************)
(* Scheduled tasks: the rows of lib/stores/scheduled-tasks.ts, the poll of *)
(* lib/scheduler/index.ts, the fan-out of lib/triggers/index.ts with the   *)
(* handler of lib/triggers/handlers/scheduled-task.ts, and "Run now".      *)
(*                                                                         *)
(* Time is abstract: a row becomes due. next_run_at is what matters of it: *)
(* whether it has passed, and the schedule it was computed from. last_run, *)
(* last_error (all that a locked poll writes), prompts and notifications   *)
(* are left out. Stored schedules are valid: both writers parse them.      *)
(* A firing is an agent turn or a script; whatever its outcome, done,      *)
(* skipped, expired or error, its row is marked in the same way.           *)
(***************************************************************************)
EXTENDS Naturals, FiniteSets

CONSTANTS
    Tasks,         \* task ids
    PricingTask,   \* the one fixed id, which may be created again
    OnceTimes,     \* schedules of kind "once"
    CronSchedules, \* schedules of kind "cron"
    MaxBoots       \* how often the process starts

ASSUME TriggerAssumption ==
    /\ PricingTask \in Tasks /\ CronSchedules # {} /\ OnceTimes \cap CronSchedules = {} /\ MaxBoots \in Nat \ {0}

VARIABLES
    tasks,       \* [Tasks -> row, which may be absent]
    keyLocked,   \* the master key is not available yet
    tickPhase,   \* tick(): "idle", "signals" before the due rows are read, "firing"
    snapshot,    \* the firings of this tick that have not been marked yet
    manualRuns,  \* "Run now" firings that have not been marked yet
    boots        \* process starts, up to MaxBoots

triggerVars == <<tasks, keyLocked, tickPhase, snapshot, manualRuns, boots>>

Schedules == OnceTimes \cup CronSchedules
Row(s, due) == [state |-> "stored", schedule |-> s, computedFrom |-> s, due |-> due, enabled |-> TRUE]
Absent(state) == [Row(CHOOSE s \in Schedules : TRUE, FALSE) EXCEPT !.state = state]
TaskRows == [state : {"stored", "unborn", "gone"}, schedule : Schedules,
             computedFrom : Schedules, due : BOOLEAN, enabled : BOOLEAN]
Firings == [task : Tasks, schedule : Schedules]

\* Rows, and firings that carry the schedule of their row as it was read.
TriggerTypeOK ==
    /\ tasks \in [Tasks -> TaskRows]
    /\ keyLocked \in BOOLEAN
    /\ tickPhase \in {"idle", "signals", "firing"}
    /\ snapshot \subseteq Firings /\ (tickPhase # "firing" => snapshot = {})
    /\ manualRuns \subseteq Firings
    /\ boots \in 1..MaxBoots

stored(t) == tasks[t].state = "stored"

\* getDueTasks: enabled=1 AND next_run_at <= now.
isDue(t) == stored(t) /\ tasks[t].due /\ tasks[t].enabled

\* What computeNextRun gives for s: the stored time of a "once", passed or not,
\* and a later time for a "cron".
nextRuns(s) == IF s \in OnceTimes THEN BOOLEAN ELSE {FALSE}

TriggerInit ==
    /\ tasks = [t \in Tasks |-> Absent("unborn")]
    /\ keyLocked \in BOOLEAN
    /\ tickPhase = "idle"
    /\ snapshot = {} /\ manualRuns = {}
    /\ boots = 1

----------------------------------------------------------------------------
(* Rows.                                                                   *)

\* A new task has a new id, but for the weekly pricing task, which is a cron.
createScheduledTask(t, s) ==
    /\ IF t = PricingTask THEN ~stored(t) /\ s \in CronSchedules ELSE tasks[t].state = "unborn"
    /\ \E due \in nextRuns(s) : tasks' = [tasks EXCEPT ![t] = Row(s, due)]
    /\ UNCHANGED <<keyLocked, tickPhase, snapshot, manualRuns, boots>>

\* A patch with a kind or a schedule, which computes next_run_at again.
updateScheduledTask(t, s) ==
    /\ stored(t)
    /\ \E due \in nextRuns(s) :
        tasks' = [tasks EXCEPT ![t].schedule = s, ![t].computedFrom = s, ![t].due = due]
    /\ UNCHANGED <<keyLocked, tickPhase, snapshot, manualRuns, boots>>

\* A patch without them, which keeps next_run_at.
updateEnabled(t) ==
    /\ stored(t)
    /\ tasks' = [tasks EXCEPT ![t].enabled = ~@]
    /\ UNCHANGED <<keyLocked, tickPhase, snapshot, manualRuns, boots>>

deleteScheduledTask(t) ==
    /\ stored(t)
    /\ tasks' = [tasks EXCEPT ![t] = Absent("gone")]
    /\ UNCHANGED <<keyLocked, tickPhase, snapshot, manualRuns, boots>>

\* next_run_at passes.
TimeComes(t) ==
    /\ stored(t) /\ ~tasks[t].due
    /\ tasks' = [tasks EXCEPT ![t].due = TRUE]
    /\ UNCHANGED <<keyLocked, tickPhase, snapshot, manualRuns, boots>>

\* Mutant of nextDue: the next run is counted from the run that was missed, so
\* that it may have passed as well.
nextDueAfterMissed(due) == due

\* computeNextRun(kind, schedule, now): the next run of a cron lies ahead.
nextDue(due) == FALSE

\* markTaskRan, with the kind and the schedule the firing carries. An UPDATE of
\* a row that is gone changes nothing.
markTaskRan(f) ==
    tasks' = IF ~stored(f.task) THEN tasks
             ELSE IF f.schedule \in OnceTimes THEN [tasks EXCEPT ![f.task] = Absent("gone")]
             ELSE [tasks EXCEPT ![f.task].computedFrom = f.schedule,
                                ![f.task].due = nextDue(@)]

----------------------------------------------------------------------------
(* The poll.                                                               *)

\* buildFiring.
firingOf(t) == [task |-> t, schedule |-> tasks[t].schedule]

\* tick(): by the timer, at the start, and when the key is unlocked; re-entry and
\* a locked key are refused. It first awaits dispatchSystemSignalWakeups.
Tick ==
    /\ tickPhase = "idle" /\ ~keyLocked
    /\ tickPhase' = "signals"
    /\ UNCHANGED <<tasks, keyLocked, snapshot, manualRuns, boots>>

\* runTriggerTick: the due rows, read once.
GetDueFirings ==
    /\ tickPhase = "signals"
    /\ tickPhase' = "firing"
    /\ snapshot' = {firingOf(t) : t \in {u \in Tasks : isDue(u)}}
    /\ UNCHANGED <<tasks, keyLocked, manualRuns, boots>>

\* The firings run one after the other, in some order; the end of one, whatever
\* its outcome, is markFired. They are not looked up again before they run.
FiringEnds ==
    /\ tickPhase = "firing"
    /\ \E f \in snapshot : markTaskRan(f) /\ snapshot' = snapshot \ {f}
    /\ UNCHANGED <<keyLocked, tickPhase, manualRuns, boots>>

\* The document sweep has been awaited as well: state.running is cleared.
TickEnds ==
    /\ tickPhase = "firing" /\ snapshot = {}
    /\ tickPhase' = "idle"
    /\ UNCHANGED <<tasks, keyLocked, snapshot, manualRuns, boots>>

\* runScheduledTaskFiringNow, beside the poll: enabled or not, due or not.
RunNow(t) ==
    /\ stored(t)
    /\ manualRuns' = manualRuns \cup {firingOf(t)}
    /\ UNCHANGED <<tasks, keyLocked, tickPhase, snapshot, boots>>

\* One element of manualRuns may stand for several requests, so it may remain.
ManualRunEnds(f) ==
    /\ markTaskRan(f)
    /\ manualRuns' \in {manualRuns, manualRuns \ {f}}
    /\ UNCHANGED <<keyLocked, tickPhase, snapshot, boots>>

\* unlockMasterKey; its listener calls tick().
Unlock ==
    /\ keyLocked
    /\ keyLocked' = FALSE
    /\ UNCHANGED <<tasks, tickPhase, snapshot, manualRuns, boots>>

\* The process ends and starts again, locked if a PIN is set. Firings that were
\* not marked leave their rows due.
Reboot ==
    /\ boots < MaxBoots
    /\ boots' = boots + 1
    /\ keyLocked' \in BOOLEAN
    /\ tickPhase' = "idle" /\ snapshot' = {} /\ manualRuns' = {}
    /\ UNCHANGED tasks

TriggerNext ==
    \/ \E t \in Tasks :
        \/ \E s \in Schedules : createScheduledTask(t, s) \/ updateScheduledTask(t, s)
        \/ updateEnabled(t) \/ deleteScheduledTask(t) \/ TimeComes(t) \/ RunNow(t)
    \/ Tick \/ GetDueFirings \/ FiringEnds \/ TickEnds
    \/ \E f \in manualRuns : ManualRunEnds(f)
    \/ Unlock \/ Reboot

TriggerSpec == TriggerInit /\ [][TriggerNext]_triggerVars

----------------------------------------------------------------------------
(* Properties.                                                             *)

\* While the key is available no task stays due for ever, whatever is edited,
\* run by hand or fails meanwhile: the poll comes back to it, and the next run
\* of a task that missed several lies ahead (tick, runTriggerTick, markTaskRan).
DueTasksAdvance == \A t \in Tasks : []<>(keyLocked \/ ~isDue(t))

\* The next run of a task belongs to its current schedule. The comment of
\* updateScheduledTask says "Changing `kind` or `schedule` recomputes
\* `next_run_at` against the new value so the scheduler picks the right next
\* firing", but a firing that was running at the time marks the row by the
\* schedule it started with.
NextRunFollowsSchedule ==
    \A t \in Tasks : stored(t) => tasks[t].computedFrom = tasks[t].schedule

====
