---- MODULE RunWatchdog ----
(***************************************************************************)
(* The two watchdogs of one run of lib/agents/run-registry.ts, in discrete *)
(* time. A timer is the moment it is due; time does not pass a due timer.  *)
(* Every rearming is a new timer, and each tool_result arms one more       *)
(* wall-clock timer, so maxTimers is a set (timers due at the same moment  *)
(* do the same).                                                           *)
(*                                                                         *)
(* agentTime and overlapped are history: the time the run spent with no    *)
(* tool executing, and whether two tools ever executed at once.            *)
(***************************************************************************)
EXTENDS Integers, Functions

CONSTANTS
    Tools,    \* tool-call ids
    IdleMs,   \* JARELA_RUN_IDLE_MS
    MaxMs,    \* JARELA_RUN_MAX_MS
    Horizon   \* bound: the time at which a behaviour is cut off

ASSUME RunWatchdogAssumption ==
    /\ IdleMs \in Nat \ {0}
    /\ MaxMs \in Nat \ {0}
    /\ Horizon \in Nat

VARIABLES
    now,           \* Date.now() - run.started_at
    status,        \* "running"; "settled" by its executor; killed by a watchdog
    lastChunkAt,   \* run.last_chunk_at
    startedAt,     \* run.inflight_tools and run.tool_started_at: a partial function
    toolTimeDone,  \* run.tool_time_ms_done
    idleTimer,     \* the idle watchdog's timer, which checks or re-schedules
    maxTimers,     \* the wall-clock watchdog's timers
    agentTime,
    overlapped

vars == <<now, status, lastChunkAt, startedAt, toolTimeDone, idleTimer, maxTimers,
          agentTime, overlapped>>

Inflight == DOMAIN startedAt

TypeOK ==
    /\ now \in 0..Horizon
    /\ status \in {"running", "settled", "idle_timeout", "max_timeout"}
    /\ lastChunkAt \in 0..now
    /\ Inflight \subseteq Tools
    /\ \A t \in Inflight : startedAt[t] \in 0..now
    /\ toolTimeDone \in Nat
    /\ idleTimer \in [does : {"check", "schedule"}, at : Nat]
    /\ maxTimers \in SUBSET Nat
    /\ agentTime \in 0..now
    /\ overlapped \in BOOLEAN

Larger(a, b) == IF a > b THEN a ELSE b

\* Mutant of discounted: only completed tools are discounted.
discountedDone(from, done, until) == done

\* Tool time by `until`: completed calls, and the running ones `from`.
discounted(from, done, until) ==
    done + SumFunction([t \in DOMAIN from |-> until - from[t]])

effectiveElapsedMs(from, done, until) == Larger(0, until - discounted(from, done, until))

\* Mutant of scheduleMaxWatchdog: the whole ceiling again.
scheduleWholeMax(from, done) == now + MaxMs

\* scheduleMaxWatchdog with these tools: when its timer is due.
scheduleMaxWatchdog(from, done) ==
    now + Larger(0, MaxMs - effectiveElapsedMs(from, done, now))

\* scheduleIdleWatchdog when the last chunk came at `last`.
scheduleIdleWatchdog(last) ==
    [does |-> "check", at |-> Larger(now, last + IdleMs)]

Init ==
    /\ now = 0
    /\ status = "running"
    /\ lastChunkAt = 0
    /\ startedAt = [t \in {} |-> 0]
    /\ toolTimeDone = 0
    /\ idleTimer = [does |-> "check", at |-> IdleMs]
    /\ maxTimers = {MaxMs}
    /\ agentTime = 0
    /\ overlapped = FALSE

----------------------------------------------------------------------------
(* broadcast. What it does to a finished run no timer reads any more.      *)

\* A chunk that is no tool event, or a heartbeat.
Chunk ==
    /\ status = "running"
    /\ lastChunkAt' = now
    /\ UNCHANGED <<now, status, startedAt, toolTimeDone, idleTimer, maxTimers, agentTime, overlapped>>

ToolCall(t) ==
    /\ status = "running"
    /\ t \notin Inflight
    /\ lastChunkAt' = now
    /\ startedAt' = [u \in Inflight \cup {t} |-> IF u = t THEN now ELSE startedAt[u]]
    /\ overlapped' = (overlapped \/ Inflight # {})
    /\ UNCHANGED <<now, status, toolTimeDone, idleTimer, maxTimers, agentTime>>

\* Mutant of toolTime: the difference the wrong way round.
toolTimeNegated(t) == startedAt[t] - now

\* What tool t took.
toolTime(t) == now - startedAt[t]

\* The call's time becomes completed tool time, and another wall-clock timer
\* is armed.
ToolResult(t) ==
    LET from == [u \in Inflight \ {t} |-> startedAt[u]]
        done == toolTimeDone + toolTime(t)
    IN  /\ status = "running"
        /\ t \in Inflight
        /\ lastChunkAt' = now
        /\ startedAt' = from
        /\ toolTimeDone' = done
        /\ maxTimers' = maxTimers \cup {scheduleMaxWatchdog(from, done)}
        /\ UNCHANGED <<now, status, idleTimer, agentTime, overlapped>>

\* finishRun by the executor.
Settle ==
    /\ status = "running"
    /\ status' = "settled"
    /\ UNCHANGED <<now, lastChunkAt, startedAt, toolTimeDone, idleTimer, maxTimers, agentTime, overlapped>>

----------------------------------------------------------------------------
(* The timers.                                                             *)

\* Mutant of paused: silence is silence.
pausedNever == FALSE

\* A tool is executing: its own timeout bounds it.
paused == Inflight # {}

\* The idle watchdog's check: too early, or paused, or the run is killed.
IdleCheck ==
    /\ status = "running"
    /\ idleTimer = [does |-> "check", at |-> now]
    /\ \/ /\ now - lastChunkAt < IdleMs
          /\ idleTimer' = scheduleIdleWatchdog(lastChunkAt)
          /\ UNCHANGED status
       \/ /\ now - lastChunkAt >= IdleMs
          /\ paused
          /\ idleTimer' = [does |-> "schedule", at |-> now + IdleMs]
          /\ UNCHANGED status
       \/ /\ now - lastChunkAt >= IdleMs
          /\ ~paused
          /\ status' = "idle_timeout"
          /\ UNCHANGED idleTimer
    /\ UNCHANGED <<now, lastChunkAt, startedAt, toolTimeDone, maxTimers, agentTime, overlapped>>

\* The end of a pause: scheduleIdleWatchdog.
IdleSchedule ==
    /\ status = "running"
    /\ idleTimer = [does |-> "schedule", at |-> now]
    /\ idleTimer' = scheduleIdleWatchdog(lastChunkAt)
    /\ UNCHANGED <<now, status, lastChunkAt, startedAt, toolTimeDone, maxTimers, agentTime, overlapped>>

\* A wall-clock timer: the budget is spent, or it is armed for the rest of it.
MaxCheck ==
    /\ status = "running"
    /\ now \in maxTimers
    /\ IF effectiveElapsedMs(startedAt, toolTimeDone, now) < MaxMs
       THEN /\ maxTimers' = (maxTimers \ {now}) \cup {scheduleMaxWatchdog(startedAt, toolTimeDone)}
            /\ UNCHANGED status
       ELSE /\ maxTimers' = maxTimers \ {now}
            /\ status' = "max_timeout"
    /\ UNCHANGED <<now, lastChunkAt, startedAt, toolTimeDone, idleTimer, agentTime, overlapped>>

\* Time passes up to the next timer. Once the run has finished the timers
\* bail and nothing is left to see.
Tick ==
    /\ status = "running"
    /\ now < Horizon
    /\ idleTimer.at > now
    /\ now \notin maxTimers
    /\ now' = now + 1
    /\ agentTime' = agentTime + (IF Inflight = {} THEN 1 ELSE 0)
    /\ UNCHANGED <<status, lastChunkAt, startedAt, toolTimeDone, idleTimer, maxTimers, overlapped>>

Next ==
    \/ Chunk
    \/ \E t \in Tools : ToolCall(t) \/ ToolResult(t)
    \/ Settle
    \/ IdleCheck
    \/ IdleSchedule
    \/ MaxCheck
    \/ Tick

Spec == Init /\ [][Next]_vars

----------------------------------------------------------------------------
(* The properties.                                                         *)

\* The idle watchdog is exact. A run is never silent for longer than IdleMs
\* without a tool executing, however the pauses for tools fell; and it is
\* killed for silence only after IdleMs of it, with no tool executing.
SilenceBounded ==
    /\ status = "running" /\ Inflight = {} => now - lastChunkAt <= IdleMs
    /\ status = "idle_timeout" => Inflight = {} /\ now - lastChunkAt >= IdleMs

\* The wall-clock watchdog never kills a run before its agent time, the time
\* no tool was executing, has reached the ceiling: tools never burn it. And
\* while tools are called one at a time no run outlives it.
WallClockSound ==
    /\ status = "max_timeout" => agentTime >= MaxMs
    /\ status = "running" /\ ~overlapped => agentTime <= MaxMs

\* "The agent's wall-clock bounds *agent + provider* time"
\* (run-registry.ts:57), whatever the tools do.
AgentTimeBounded ==
    status = "running" => agentTime <= MaxMs

====
