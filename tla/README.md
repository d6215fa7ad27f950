# A TLA+ development of Jarela

Jarela is a local assistant server (Next.js, one Node process, `node:sqlite`)
that runs agents in conversations ("threads"). What is hard in it is not any
single handler but what several of them do to the same conversation: calls
queue up, pages reconnect, the user steers or stops a reply, watchdogs kill
runs whose executor is still alive, the process dies and reconciles its tables.
This directory models that part of the code in TLA+, checks it with TLC on
small instances, and proves the parts that matter most with TLAPS.

Every definition is translated from the source; `PROJECT.json` ("map") names the
lines it stands for. Definitions whose comment starts with "Mutant of" are
wrong variants of the definition they precede. They are never used by a
specification; each shows that some property would notice such a bug.

    cd tla
    tlc -workers 2 -config MCRunQueue.cfg MCRunQueue.tla    # one run
    tlapm RunQueueProofs.tla                                # one proof module

## 1. Inventory

### The components that are modelled

| Component | Code | State | Operations | Talks to |
|---|---|---|---|---|
| Run queue | `lib/agents/run-queue.ts` | per thread: `active`, two lanes, map entry | `enqueueThreadRun`, `drain`, deadline check, `finish` | every caller that runs an agent |
| Run registry | `lib/agents/run-registry.ts` | per thread: status, `events`, `event_sequence`, `final_text`, subscribers, timers, `steering` | `startRun`, `broadcast`, `subscribe`, `waitForRun`, `finishRun`, `abortRun`, `pushSteering`, `drainSteering` | executor, SSE GET, PATCH, DELETE |
| Live stream | `route.ts` GET, `api/client.ts`, `hooks/useSSE.ts` | phase, cursor and text of a page | attach, replay, snapshot, poll, reconnect | registry |
| Watchdogs | `run-registry.ts` | `last_chunk_at`, `tool_started_at`, `tool_time_ms_done`, timers | arm, check, re-arm, terminate | registry |
| Agent turn | `route.ts` POST, `agent-turn.ts`, `run-thread.ts` | promises of a turn, transcript rows | admission, preparation, stream, settle, recovery | queue, registry, store |
| Steering | `route.ts` PATCH, `run-registry.ts`, `llm.ts` | `run.steering`, rows with a request id | push, drain before a model call, drain at the end, continuation | registry, queue |
| System signals | `lib/stores/system-signals.ts`, `lib/lifecycle/system-signals.ts`, `run-thread.ts` | operations, journal, deliveries | begin, emit, finish, claim, release, acknowledge, retry, prune, reconcile, dispatch | queue (wake-ups), tools, approvals, boot |
| Context boundaries | `agents/thread-compaction-state.ts`, `warm-summary-background.ts`, `thread-compaction.ts` | attempts of three kinds, queued boundary, pin, recap, topics | request, refresh, compact, align, build, commit, clear, prune | store, model provider |
| Workflow runs | `workflows/runtime.ts`, `service.ts`, `stores/workflow-runs.ts` | versioned row, host calls in flight | create, advance, answer, cancel, recover, reconcile | tools and scripts |
| Skill executions | `skills/execution-*.ts`, `stores/skill-run-staging.ts`, `pending-actions.ts` | request, consent, process, staged files, action row | propose, approve, deny, expire, cancel, run, recover, clean | approvals, signals |
| Browser bridge | `api/browser-control.ts`, `stores/browser-command-log.ts`, `browser-extension/background.js` | queue, parked polls, ledger, worker loop | enqueue, poll, progress, result, timeout | tool calls, extension |
| Notification bus | `notifications/bus.ts`, `api/v1/events`, `useEventNotifications.ts` | ring, listeners, cursors | publish, subscribe, replay, receive | tabs |
| Scheduler | `scheduler/index.ts`, `triggers/`, `stores/scheduled-tasks.ts` | task rows, the tick's flag, firings | create, update, delete, tick, fire, mark, Run now, unlock | run queue, signals |
| Delegation | `tools/delegation/delegate.ts`, `agents/delegation-budget.ts` | budgets, reservations, chains of turns | delegate, claim, reserve, settle, abandon, stop | run queues of several threads |
| Bridges, inbound | `bridges/whatsapp.ts`, `bridges/store.ts` | remembered ids, watermarks of chats | upsert, hand over, bump, restart | dispatcher, agent turns |
| Background results | `tools/support/async-results.ts`, `stores/background-results.ts` | memory store, rows, deferred settlements | start, settle, sweep, read, consume, reconcile | tools, signals |
| MCP tools | `mcp/client.ts` | cache, connecting run, generation, active client | get, connect, settle, invalidate | tool loading |
| Message vectors | `stores/message-embedding-jobs.ts`, `embeddings/index.ts`, `stores/threads.ts` | job rows, vectors, recall cache, worker | enqueue, claim, embed, complete, fail, re-embed, evict | transcript writers, embedding model |

How they interact. A call (HTTP POST, bridge, trigger, scheduler, delegate)
enters the **run queue** of its thread. When the queue calls its runner, the
runner registers a run in the **registry**, prepares the turn, and broadcasts
the chunks of the model's stream. Pages subscribe to the registry and resume
from a cursor. **Watchdogs** abort the run and finish it in the registry; they
cannot settle the runner's promise, which is what the queue waits for. PATCH
pushes **steering** into the running run; a model call drains it, and what is
left becomes another queued call. Preparing a turn claims due **signals**; the
reply and their acknowledgment are committed in one transaction. A scheduler
tick queues a wake-up for a thread that has due signals and is idle. A
**background call** keeps its result in memory and in a row, and settles the row
and its operation, hence its signal, in one transaction. A **delegated** turn is
a call in another agent's queue that its parent's tool waits for. A finished
turn may ask for a new **boundary**, and every row that becomes final queues an
**embedding** job. The other components meet these only through a tool call, a
turn in the queue or a notification, and share no state with them. When the
process ends, only the tables stay; at boot, in this order
(`instrumentation-node.ts`), the pid lock is taken (38), approvals are
recovered (64-65), abandoned drafts are marked (87-88), the scheduler starts
(98-99) and the signal lifecycle starts (101-102).

What makes each of them correct:

* *Run queue*: one owner per thread; no call lost, doubled or stranded; the
  depth limit; the position told to the user; interactive calls never passed
  over.
* *Registry and stream*: a page shows exactly the text its cursor stands for,
  through overflow, `reset_text`, reconnects and replaced runs; no timer of an
  old run touches a new one; every page gets an end.
* *Watchdogs*: no silence beyond the limit except in a tool; no kill before it;
  tool time is not billed to the agent.
* *Agent turn*: a running entry belongs to the call that owns the thread; a row
  that a settled call leaves open is one whose write was refused, or whose turn
  never began, and the next boot settles it; a queued turn's message stays out of
  the history.
* *Steering*: a message is read once or given up, and given up only when the
  turn was aborted (it is not, see section 7).
* *Signals*: one outcome per operation; the notice is published with it and
  delivered with exactly one reply or visibly dead; room in the backlog is
  reserved; abandoned operations are concluded.
* *Boundaries*: the recap accounts for exactly the stored rows that the model no
  longer sees; a queued boundary is served.
* *Workflow runs*: a write is called once while nobody knows its outcome, steps
  keep their order, an observation is stored for the write it is about.
* *Skill executions*: what the row says did not run did not; one approval, one
  process; the files of a living process stay.
* *Browser bridge*: ledger and tool say the same; a command has one worker.
* *Notifications*: none skipped, none twice in one tab.
* *Scheduler*: no task stays due for ever; a next run belongs to its schedule (it
  need not, see section 7).
* *Delegation*: the ceiling holds over all descendants; no turn waits for itself;
  turns that wait for each other end.
* *Bridges*: nothing of a replayed backlog is handled again, and only what was
  handled, or was overtaken in its chat, is dropped.
* *Background results*: an outcome once told stays.
* *MCP tools*: what is cached was loaded from the servers as they are.
* *Message vectors*: a vector, stored or cached, is of the text the row has now.

Hard behaviours: promise callbacks that hold an object after its map entry was
deleted; timers of finished runs; executors that outlive their run; a stream
position that lies outside the buffer; a message that arrives while the turn
that should read it is ending; a lease that lapses under its holder; a crash
between any two transactions. `PROJECT.json` ("hazards") lists them at their
lines with the properties that would notice.

### What is not modelled, and why

* **Agent advertisements**: a cache of generated descriptions, replaced as a whole
  when stale; a lost or late generation delays the next one.
* **Model providers, rate limits**: adapters of external services. A provider is
  the nondeterministic stream of `AgentTurn`; a tool is the silence between
  `tool_call` and `tool_result`.
* **Database access**: `node:sqlite` is synchronous, so a transaction is one step.
* **Document index, memories' vectors, ranking**: file and provider I/O and
  arithmetic over floating-point numbers.
* **Watchers, file watching, the document sweep, health probes** of a scheduler
  tick: they only lengthen the tick.
* **Bridges beyond the inbound way**: pairing, status, routing, sending.
* **Proposals other than `execute_skill`**: their row and signals are an approval
  of `SystemSignals`; what they execute is a single store or file operation.
* **Master key**: a process is locked or not. PINs, wrapping and the keychain are
  cryptography.
* **Process lifecycle**: crash, restart and recoveries, in every module that has
  tables. Not the pid lock (a check and a write of one file) and not the
  graceful shutdown beyond what `SkillExecutions` and `WorkflowRuns` need of it.
* **User interface**: how a page reads a run's stream and how tabs keep the
  notification cursor. The other screens fetch and render.

Most of the repository is of these last kinds: React components, tool packages
that wrap one external API per function, provider adapters, route handlers of a
validation and a store call. Their state is a request's. The modules therefore
cover a small share of its lines, and nearly all of the code in which several
actors share state over time.

## 2. Modules

JavaScript runs one callback at a time. An action is therefore one *synchronous
stretch*: from the start of a callback to the next `await`. Everything a
handler does in such a stretch is one action; two stretches of one handler are
two actions with everything else free to happen in between.

| Module | Role |
|---|---|
| `SerialExecutor` | abstract: what the run queue promises, without lanes, positions, deadlines |
| `RunQueue` | the run queue in full |
| `RunQueueProofs` | its theorems |
| `RunRegistry` | one thread's registry entry, its timers, and the pages that watch it |
| `RunWatchdog` | the two watchdogs of one run in discrete time |
| `Subsequences` | the part of a list that satisfies a condition, in its order |
| `AgentTurn` | composes `RunQueue` (INSTANCE, one thread) with the registry's entry, transcript rows, steering and a crash |
| `AgentTurnProofs` | its theorems; cites those of the queue for the queue below it |
| `SignalOutbox` | abstract: what durable signals promise |
| `SystemSignals` | the tables of one thread, its turns and wake-ups, crash and reconciliation |
| `SystemSignalsProofs` | its theorems and the refinement of `SignalOutbox`; the types of `ScheduledTriggers` |
| `ContextBoundary` | the hot / warm boundary of one thread and the attempts that move it |
| `WorkflowRuns` | one durable workflow run over processes that crash |
| `SkillExecutions` | consent, process and files of checked skill scripts |
| `BrowserCommands` | the command queue, long polls, the ledger and the extension's loop |
| `NotificationBus` | ring, event streams and cursors of a browser's tabs |
| `ScheduledTriggers` | task rows, the poll, its firings and Run now |
| `Delegation` | turns that delegate to other agents, over `SerialExecutor` and one budget per root |
| `BridgeInbound` | inbound messages of a bridge and the two gates against repetition |
| `BackgroundResults` | results of background calls in memory and on disk |
| `McpTools` | the cache of connected MCP tools |
| `EmbeddingJobs` | vectors of messages: jobs, worker, cache, change of the model |
| `StreamsProofs` | theorems on what a browser is shown: `RunRegistry`, `NotificationBus` |
| `LimitsProofs` | theorems on the limits that end runs and handoffs: `RunWatchdog`, `Delegation` |
| `TurnInputsProofs` | theorems on what a turn is given: `McpTools`, `EmbeddingJobs`, `ContextBoundary`, `BridgeInbound` |
| `ToolCallsProofs` | theorems on what tool calls leave behind: `SkillExecutions`, `BrowserCommands`, `BackgroundResults`, `WorkflowRuns` |
| `SubsequencesProofs` | what `Subsequences` and recursive functions on `0..n` compute, for the proofs that need it |
| `MCServices` | the eleven components above, side by side in one run |
| other `MC*` | instances for TLC |

### RunQueue

`registered` is the key set of the `queues` map, `active` and `waiting` are
`queue.active` and the two arrays, `status` is how far a caller's promise has
come. `Enqueue` is a whole call of `enqueueThreadRun` including the `drain` it
ends in; at the depth limit it throws before it has changed anything, so it is
disabled. `Start` and `Expire` are the microtask that `drain` schedules (deadline
check, then the runner). `Settle` is the callback of the runner's promise with
`finish` and *its* drain, including the test that the map still holds this
queue. A member of `Jobs` is a caller's slot and is used again after it settled:
behaviours are unbounded. `served` is history and counts only up to `MaxDepth`.

### RunRegistry

A chunk is its type; a text is the sequence of `<<run, sequence>>` ids of its
deltas, so that any lost, doubled or foreign delta shows. `run[r].log` is every
chunk published, `events` the ring of the last `MaxBuffered`. The executor
(`StartRun`, `Broadcast`, `Settle`) and the watchdog (`Terminate`) are separate
actors: after `Terminate` the executor goes on. A page connects, waits in
`waitForRun`, attaches (replay after the cursor, or a snapshot), is live, drops
and reconnects. A chunk reaches an attached page in the step that publishes it;
a chunk lost in a broken connection is one the page was dropped before, because
both resume from the same cursor. The payload of tool events and the labels of
`activity` are left out.

### RunWatchdog

Time is an integer; a timer is the moment it is due and time does not pass a due
timer. `maxTimers` is a set because every `tool_result` arms one more
self-rearming timer while the earlier ones live. `agentTime` and `overlapped`
are history variables the code does not have: they state what the limit is
meant to bound.

### AgentTurn

`phase` says where a runner's async function is; `admission` is the promise the
POST handler resolves after the message was saved (the call is queued *before*
it is saved). Silent turns, continuations, refused admissions, failing
preparation, failing persistence, stop, watchdog, TTL eviction with a live
runner, crash and `recoverAbandonedMessageDrafts` are all actions. `fate` is what
became of a steering message; "lost" is history, no code records it.

Writes may be refused by the database. Where that changes what a turn leaves behind
it is an alternative: the save of a message (`Refuse`); the activation of an http
turn's user row (`ActivationFails`), whose handler settles the draft alone; and
the last write that should settle a draft, which `collectSubmittedTurn` and
`runAgentTurn` log (`returnsUnsettled`) and the handler of a failed http
preparation does not survive (`abandons`): it never reaches `finishRun`. The entry
it leaves has `of = NoJob`; the watchdogs end it, and until then `startRun` throws
(`startRunThrows`). `mishap` is history: which of these befell a call. When a call
settles, or the server is back after a crash, the model forgets the final rows,
but never one that is still `in_progress`: it stays, with its `mishap`, until the
slot is used again or the server boots, so that `NoRowLeftOpen` sees it.

PATCH tests the run's status, queues the message and saves its row in one
stretch; the rollback of a failed save is part of it and leaves nothing. Prompts,
replies, recall, quality gates and model routing are data.

### SystemSignals

One thread's rows. `op` are the operations with the process that began them,
`journal` the order of events, `delivery` their state. One flag `passed` per
delivery stands for the moment it waits for: `available_at` when ready,
`lease_until` when leased, the seven-day retention when acknowledged. `Claim`
includes taking expired leases back; `Commit` is the one transaction of reply,
acknowledgment and prune; `FailTurn` releases the batch; `LeakTurn` is the way
out that releases nothing. `waking` follows the single-flight wake-up from
`Dispatch` through the run queue to its end. `Crash` may come between any two
steps, also between two operations of a reconciliation, which is one
transaction each. Turns of a thread are serialised by the run queue, so one
turn at most holds a batch, and a turn that claims nothing is a stutter.

Left out: `quarantineChangedTargets`, since no code updates a thread's agent and
it finds nothing; deleting a thread; the settlement that gives up after five
tries; async results nobody owns. `publish` at the limit throws in the code. The
model disables the step, and `BacklogReserved` shows that the case never occurs.

### ContextBoundary

`attempts` holds the current attempt of each kind (manual, automatic, refresh).
An attempt awaits the provider twice: `RequestBoundary`, `CompactManually`,
`RetainNewest` and `RefreshSummary` start it in "align", `StartRecap` is the
stretch between the awaits, in which the rows and stored topics of the recap are
read, `Commit` is the compare-and-set of `commitThreadWarmContext` with the
pruning that follows, and `EndWithoutCommit` every other way out, the deadline
included. `settle` ends an attempt and drains the queued boundary. A recap is the
set of rows it accounts for, so that skipping or repeating rows shows.

### WorkflowRuns

`run` is the row without its version: what is held across an await is an
`advancing` process or an `observing` call, whose `fresh` says whether the row's
version is still the one it read. `Advance` calls the host, `HostReturns` and
`Interrupt` end the call in time, late or never, `Recover` and `Claim` take over
a dead owner's row, `Answer`, `Observe` and `Observed` are the two ways to go on.
`calls` and `evidence` are history. Bounds of attempts are those of the schema.

### SkillExecutions

One record per request puts together what the code keeps in four places: the
service's map, the consent, the action row and the staged files. `approve` is
one step because the code awaits nothing between claiming a request and
launching. `Restart` keeps a process alive and makes its files `orphan`;
`RecoverApprovals` and `CleanStaging` are the next boot.

### BrowserCommands

`queue` with `picked` is `queue` and `byId`; `waiters` are parked polls, of a
client that may be "gone" without the server's knowledge. Posts of the extension
are in a set until they arrive or are lost, so they come late and in any order.
`told` is what the waiting tool was answered.

### NotificationBus

Subscribing and replaying are one step (`Connect`), as in the route. `streams`
are events on their way to a tab; a connection drops with what it carried.
`stamp` gives events of one millisecond different timestamps, which is what the
strict cursor needs.

### ScheduledTriggers

Time is whether a row is due; what remains of `next_run_at` is the schedule it
was computed from. `Tick` sets the flag, `GetDueFirings` reads the rows after the
await of the wake-ups, `FiringEnds` and `ManualRunEnds` mark a row by the
schedule the firing has carried, `TickEnds` clears the flag.

### Delegation

The threads' queues are an instance of `SerialExecutor`: a delegated turn waits
in the queue of another agent while its parent owns its own. A handoff goes
through `Delegate` (checks and claim), `Pick`, `Authorize`, `Prepare`, `Infer`
(settling a reservation and taking the next) to its end; `Abandon` is the tool's
clock or an aborted parent, which ends the waiting but not the child. Money is
an integer; an inference costs nothing known, its price, or one more.

### BridgeInbound

A call of `handleMessageUpsert` awaits a message's content and then its handler,
so calls overlap, also those of an adapter that was stopped. `recvIds` belongs to
an adapter, `lastSeen` to the database. `handled` and `known` are history.

### BackgroundResults

A call has its closure (`runs`), its record in memory, a deferred settlement with
its tries, its operation and its row. `SettleCall` and `Sweep` choose whether the
database accepts; `ReadResult` also hears what the owner is told.

### McpTools

A run is one connecting attempt with the generation and the servers it read.
`Connected`, `ConnectEnds` and `CallerSettles` are the three stretches after its
awaits; the last is `finally`, where `pending` is cleared.

### EmbeddingJobs

A text is its hash. `written` is what every writer of a final row does: the row,
the job, the cache, the kick. `drainLoop` is the loop of the worker up to its
await, `EmbedReturns` the results and the next round, with a result of its own
for each message of the batch: a vector, a failure to retry or not, or a
database that refuses it. `WorkerEnds` is the microtask that clears the promise
some time after the last look at the table: a kick in between is lost, as in the
code, and the job waits for the next message, recall or retry.

### MCServices

The eleven components share no state. They could be eleven small runs; instead
`service` picks one at the start and the others keep their initial state, so the
run's states are the sum of theirs and not the product. Nothing is claimed about
their composition.

## 3. Runs

| Run | Instance | Distinct states | Expected |
|---|---|---|---|
| `RunQueue` | 2 threads, 4 slots (one with deadlines), depth 3 | about 232 000 | pass |
| `RunRegistry` | 1 page, 2 runs of at most 3 and 1 chunks plus the watchdog's, buffer 2 | about 290 000 | pass |
| `RunRegistryLate` | same | | violation |
| `RunWatchdog` | 2 tools, idle 2, ceiling 4, horizon 10 | about 2 326 000 | pass |
| `RunWatchdogParallel` | same | | violation |
| `AgentTurn` | 3 slots (one with deadlines), depth 2, 2 steering messages, names in order | about 389 000 | pass |
| `AgentTurnSteering` | same, names in any order | | violation |
| `SystemSignals` | restart, background tool, approval; 2 processes, 2 attempts, backlog 2, batch 2 | about 920 000 | pass |
| `SystemSignalsLive` | restart, background tool, fact; batch 1 | about 277 000 | pass |
| `SystemSignalsStuck` | restart, background tool; batch 1 | | violation |
| `Services` | eleven components, one at a time, bounds below | about 722 000 | pass |
| `ServicesSchedule` | only the scheduler | | violation |

What the passing runs show:

* **RunQueue.** `EveryCallHasOnePlace`: an open call is in one lane position or
  owns one thread, a settled one is nowhere. `NeverStalled`: waiters imply an
  owner, and the map holds an entry exactly for threads with one; this is where
  a job pushed onto a deleted queue would show. `DepthBounded`.
  `PositionHonoured`: exactly `position` owners leave before an interactive call
  is picked, at least that many before a background one. `NoPreemption`.
  `InteractiveServed`: interactive calls are picked whatever callers keep
  submitting (nothing of the kind holds for background calls, by design).
  `ImplementsExecutor`: refinement of `SerialExecutor`.
* **RunRegistry.** `PageShowsItsCursor`: a page shows what its cursor stands for,
  and a page that is subscribed has heard all there is: no text is lost, doubled
  or mixed. `RunningIsRegistered`: no old timer evicts a new run. `PagesEnd`:
  every page reads an end, also when a run ends without a terminal chunk.
* **RunWatchdog.** `SilenceBounded`: the idle watchdog is exact.
  `WallClockSound`: no kill before `MaxMs` of agent time, and with one tool at a
  time no run outlives that.
* **AgentTurn.** `RunHasItsOwner`: an entry registered as running is the one of
  the call that owns the thread, unless its handler abandoned it, which is the only
  way in which `startRun` comes to throw (section 7). `NoRowLeftOpen`: a settled
  call leaves a row open only if `startRun` threw or the write that would have
  settled it was refused, and nothing is open after a boot. `SteeringInOnePlace`,
  `SteeringHandledOnce`. `EverythingSettles`: even if a runner never returns, or
  has abandoned its entry, the entry does not stay registered nor steering queued;
  if runners return, every draft settles or a refused write is on record, and no
  steering stays in a continuation. The thread's queue does wait for a runner that
  never returns: no property says otherwise.
* **SystemSignals.** `CommittedOnce`: a delivery is acknowledged exactly when
  one reply was committed with it. `BatchStaysLeased`, `BacklogReserved`, and
  `ImplementsOutbox`: refinement of `SignalOutbox`.
* **SystemSignalsLive.** `SignalsSettle`: a signal that may wake the agent is
  committed or becomes a dead letter, whatever leaks or crashes, and an operation
  left by a dead process gets an outcome.
* **Services.**
  * `RecapMeetsHot`: at a pin, the recap accounts for exactly the stored rows
    below it. `QueuedBoundaryServed`: the queue of boundaries empties again.
  * `WorkflowSafety`: a write is called once at most, its call has ended before
    the run goes on, and stored evidence is of the step it is stored for.
  * `ProcessesAccountedFor`: a row that says "did not run" tells the truth, an
    approval starts one process, and its files outlive it.
  * `LedgerAgrees`: a settled command keeps the status its tool was given, one
    that is not settled is queued or running as it was picked or not, and no
    command waits while a poll is parked.
  * `ReplayIsExact`: no retained event is missed or comes twice to a tab.
  * `DueTasksAdvance`: while the key is available no task stays due.
  * `DelegationSafety`: reservations add up, the ceiling holds until an overrun
    was seen, an overrun ends the spending, and nobody waits behind its own
    chain. `HandoffsSettle`: turns that delegate to each other come to an end.
  * `BacklogIsExact`: what the gate of a backlog keeps out was handled, or has
    been overtaken in its chat; what it lets through was not handled before.
  * `OutcomesAreKept`: an outcome once told stays, and one that waits to be saved
    is neither forgotten nor overtaken.
  * `McpToolsAreCurrent`: cached tools are of the servers as they are.
  * `VectorsAreTrue`: a vector, in its row or in the cache, is of the row's text
    and of the job's model, and an open job is one of a final row with that text.

`CHECK_DEADLOCK FALSE` is used for the watchdogs and for the services: a run that
has finished, a behaviour that has reached its horizon, a workflow that is
completed or a notification bus whose bound of timestamps is used up really
stop.

### Bounds, and why they are enough

* *Queue.* Depth 3 with four slots on two threads: a full queue, both lanes
  occupied behind an owner, refused calls, expiry at the head while others wait,
  and a slot that moves between threads. Threads share nothing but slots.
* *Registry.* Three chunks and a buffer of two give an overflow by one; the
  watchdog's two chunks push the overflow past the cursor. Two runs let an old
  timer and an old cursor meet a new entry. Pages do not affect one another, so
  one suffices; it hides tool events, so that its cursor lags behind the log.
* *Watchdogs.* Idle 2 is the smallest limit at which a pause can fall before,
  at and after a check; the ceiling is twice that; horizon 10 leaves room for
  two pauses and a re-armed ceiling timer after each. `IdleWatchdogExact` and
  `WallClockIsSound` remove these bounds.
* *Turns.* Two ordinary calls and one with a deadline at depth 2: a continuation
  finds the queue full or not, an expired call hands over. Two steering
  messages: one is carried while the next is queued, read, lost or repeated.
  Slots and requests are names only. The run takes them in order (`MCInOrder`, an
  action constraint): of the free slots without a deadline the first is opened, of
  the requests not sent yet the first is sent. A runner that has to queue a
  continuation always finds such a slot, so fairness is not affected.
* *Signals.* Two operations fill the backlog while a third is refused; two
  attempts are one retry and one dead letter; two processes are one crash with
  leases and operations left behind, and a turn may claim before the
  reconciliation has run. `Tokens` has one more member than the backlog holds
  signals, so a fresh token always exists.

* *Boundaries.* Three messages; /compact and retention keep one, three start an
  automatic compaction: every order of the three kinds, with a row pruned while
  another attempt holds its boundary.
* *Workflows.* Three processes, so that one may take over from one that took
  over; a plan of write, choice, read, write: an uncertain write has another
  after it, to which its evidence could go wrong. Two attempts of a read, one
  retry of the run.
* *Skill executions.* One request through two processes: requests share only the
  policy and the shutdown.
* *Browser.* Three commands for a queue of two, one extension, two parked polls:
  a full queue, and a poll of a client that has gone before the one that came
  after it.
* *Notifications.* Two tabs that share the stored cursor, a ring of two and four
  timestamps: overflow by one or two, and a reader that reconnects past it.
* *Scheduler.* The task with the fixed id, which may be created again, and one
  other; one one-shot and one recurring schedule; two boots.
* *Delegation.* Three agents, two roots, depth two, threads of depth two, three
  handoffs: either one turn with room for three inferences, or two turns with
  room for one each that may delegate to one another.
* *Bridges.* Two messages of a chat with a route, in either order, one of a chat
  with a catch-all; two overlapping calls of two and one messages; one id
  remembered, so that it is forgotten at once; two adapters.
* *Background results.* Three calls, two of them owned, room for two records, so
  that eviction has to choose; two tries; two processes.
* *MCP.* Nothing, one set of servers or another; two edits; three connecting runs:
  one that is overtaken, one that starts meanwhile, one after both.
* *Vectors.* One message with three events (edits, changes of the model,
  restarts), two texts and two models; and two messages in one batch, without
  such events but with deletions, failures and recalls. Messages share only the
  batch, the cache and the passes over all of them.

Symmetry sets are not used: five of the seven passing runs check liveness, for
which they are unsound, and the other two are small enough without them.

## 4. Fairness

* *RunQueue*: weak fairness of the microtask and of `Settle`. Microtasks run;
  that a runner's promise settles is what the watchdogs' abort is for.
* *RunRegistry*: weak fairness of requests and polls of a page, of the
  executor's end and of eviction. Nobody has to open or leave a page and no
  watchdog has to fire.
* *AgentTurn*: `Scheduled` is what the process sees to: weak fairness of the POST
  handler's save, of the queue's callbacks, of eviction and of the restart, and of
  `Supervised`: an entry that is registered as running is moved on by its runner or
  ended by a watchdog, and one without a runner has the watchdogs only. No fairness
  for users or model calls. `RunnersReturn` is an *assumption*: that what a runner
  awaits settles, at the latest when its signal is aborted (its steps are
  alternatives, so some way out is taken). The code passes the signal on but does
  not race what it awaits against it, so a tool or provider that ignores the signal
  holds its runner, and with it the queue of the thread. Only the part of
  `EverythingSettles` that is about drafts and continuations assumes it, as the
  premise of an implication; `FairSpec` itself does not.
* *SystemSignals*: weak fairness of the passing of time (except for the lease of
  the running batch, which heartbeats may renew), of the end of a turn, of
  scheduler ticks, of the wake-up being served *or refused*, and of recovery.
  `ServedSpec` adds strong fairness of the wake-up's claim: preparation does not
  fail for ever. This is an assumption about the configuration, not about the
  code. `SystemSignalsStuck` drops it and shows what happens then.
* *Services*: weak fairness of the end of a compaction without a commit, for each
  kind: its deadline comes. Weak fairness of the poll's timer and of the steps of
  a tick, the end of a firing included: a turn has a watchdog, a script a limit.
  Weak fairness of the steps of delegated turns and of the tool's clock
  (`DelegationProgress`); nobody has to delegate. The other eight components have
  safety properties only, since what they wait for (a person, an extension, a
  host, a provider) need never come.

## 5. What is proved

TLC shows a property on one instance; a theorem holds for every value of the
constants that satisfies the module's ASSUME: any number of callers, messages,
operations or processes, any limit. Each safety theorem has the same shape: an
invariant `Inv` with `Init => Inv`, one lemma per action that keeps it, and
`Inv` implying the property. `Inv` is what the text below explains, because it is
what the code relies on and states nowhere.

### The run queue

`RunQueueProofs`, from `RunQueueAssumption` alone (`NoJob` is no job, `MaxDepth` is
positive, `Expiring` is a set of jobs), for all sets of threads and callers,
infinite ones included:

| Theorem | Statement |
|---|---|
| `TypeCorrect` | `Spec => []TypeOK` |
| `NoCallLostOrDoubled` | `Spec => []EveryCallHasOnePlace` |
| `ThreadsNeverStall` | `Spec => []NeverStalled` |
| `DepthIsBounded` | `Spec => []DepthBounded` |
| `QueueImplementsExecutor` | `Spec => ImplementsExecutor` |
| `OwnersAreNotPreempted` | `Spec => NoPreemption` |
| `PositionsAreHonoured` | `Spec => []PositionHonoured` |

*The argument.* None of the four invariants is inductive alone. `finish` would
vacate a slot that two threads share unless every call has one place; the drain
of a new entry would strand the jobs in an unregistered thread's lanes unless
`NeverStalled` says those are empty; `DepthBounded` survives the vacated slot
only because a thread with waiters had an owner. Their conjunction with `TypeOK`
is inductive: `Inv`. Every step is a composition of three moves on the triple
(lanes, owners, statuses): *push* a job onto a lane, *vacate* the active slot,
*shift* a lane's head into it. `OnePlace` is `EveryCallHasOnePlace` at an arbitrary
triple, spelled over index/job pairs instead of ranges, and each move keeps it
(`PushKeepsOnePlace`, `VacateKeepsOnePlace`, `ShiftKeepsOnePlace`); `PlaceForms`
relates the two spellings. `DrainStep` puts them together for `drain`, and
`InvFromThread` reduces a step to the one thread it touches.

*The refinement.* `owner <- active`, `pending <- Waiters`. An `Enqueue` is `Take` or
`Wait`; an `Expire` or `Settle` is `HandOver` or `Release`; `Start` and a passing
deadline stutter. It needs `Inv`: that a job is taken from the lanes *and leaves
the pending set* is the statement that it stood at one index only.

*The positions.* `PositionHonoured` speaks of the moment a call is picked. The
invariant behind it, `Counted`, says for every waiting call that the owners that
left since it was queued, and those still before it, add up to its position: by
equality for an interactive call, at least so for a background one, which
interactive calls may overtake later. Between `finish` vacating the slot and
`drain` filling it, one step of the code, the count is one short for everybody
(`Between`). `served` saturates at `MaxDepth`, so the equality is provable only
because no waiting call's position reaches `MaxDepth`, which is the depth check at
its limit.

### The registry and its pages

The first part of `StreamsProofs`, from `RunRegistryAssumption` (the clients that hide tools are
clients; a buffer of one chunk at least, some run, a natural number of chunks for
each), for every set of pages, size of the buffer, number of runs and of chunks:

| Theorem | Statement |
|---|---|
| `RegistryTyped` | `Spec => []TypeOK` |
| `PagesShowTheirCursor` | `Spec => []PageShowsItsCursor` |
| `RunsStayRegistered` | `Spec => []RunningIsRegistered` |

*The argument.* The text of a run exists three times: as the log of its chunks (a
history), as `final_text`, and as what the buffer would replay. The property
speaks of a fourth copy, a page's. `EntryOK` ties the first three together: the
buffer is the end of the log, and `final_text` is the text after all of the log.
`Pages` says which text a page shows; it adds that a page's cursor is inside the
log it names and that a page is subscribed to one run at most, because a chunk of
one run would otherwise land behind another's text. Everything a page reads goes
through `sent`. `SentShows` is its specification: a page that is at the text after
`base` chunks, and is sent the chunks that end the log from `base` or earlier with
those up to `base` skipped, is at the end of the log or has read a terminal chunk.
Replay from a cursor, replay from the start, and a live chunk are three instances of
it (`after` is the cursor, or 0); the test in `resumable` is exactly what makes the
first one applicable, and a snapshot is right because of `final_text`. The proof of
`ReceivedShows` is where hiding tools matters: a chunk that is not emitted moves
neither the cursor nor the text. `RunsStayRegistered` needs that a timer is armed for
finished runs only and that the registry's entry is never an absent one. Chunks published after a
watchdog has finished the run (section 7) are allowed throughout: the theorem does
not depend on their being dropped.

### The watchdog

The first part of `LimitsProofs`, from `RunWatchdogAssumption` (positive limits, a
natural horizon), for every `IdleMs`, `MaxMs`, `Horizon` and every set of tools,
infinite ones included:

| Theorem | Statement |
|---|---|
| `IdleWatchdogExact` | `Spec => []SilenceBounded` |
| `WallClockIsSound` | `Spec => []WallClockSound` |
| `WatchdogTyped` | `Spec => []TypeOK` |

*The idle watchdog.* `IdleInv` says that the idle timer is never overdue, comes
at most `IdleMs` after the last chunk while no tool executes, and at most `IdleMs`
from now in any case; the last part is what a tool's result needs when it ends a
pause in the middle.

*The wall clock.* The code never sees agent time; it sees the time of day and a
sum over the tools that run, and each tool's result moves a summand of that sum
into `toolTimeDone`. `WallInv` relates the two: the time that is not agent time is
at most what the code discounts, and exactly that until two tools overlap. The
first half alone gives "no kill too early", overlaps or not. For "no run outlives
`MaxMs`" it adds that *some* timer comes no later than the agent time is spent. It
cannot say which: `maxTimers` grows with each result, and a timer that is due
early re-arms itself for what is left. Such a timer waits through a tool's
run while the agent time stands still, so it may come early but never late.
Once tools have overlapped the code discounts too much and this half fails: that
is what `RunWatchdogParallel` shows (section 7).

### Agent turns

`AgentTurnProofs`, from `AgentTurnAssumption` (finitely many slots, at least
`MaxDepth` of them without deadlines, so that the model refuses no call that the
queue would take), for every depth, every such set of slots and every set of
steering messages:

| Theorem | Statement |
|---|---|
| `TurnInvariant` | `Spec => []Inv` |
| `TurnTyped` | `Spec => []TypeOK` |
| `RegisteredRunIsTheOwners` | `Spec => []RunHasItsOwner` |
| `RowsAreSettled` | `Spec => []NoRowLeftOpen` |
| `SteeringHasOnePlace` | `Spec => []SteeringInOnePlace` |
| `SteeringIsReadOnce` | `Spec => SteeringHandledOnce` |

*The argument.* The queue below a turn is `RunQueue` with one thread, so its
invariant is not proved again: `QP == INSTANCE RunQueueProofs WITH Threads <-
{Thread}` cites it, and `Entered` and `Left` are all that a turn has to know of a
step of the queue. A crash empties the queue, which is its initial state again.
The strengthening is five statements between pieces of state that no function of
the code sees together: `Calls` (where the runner is, what the queue makes of the
call and what its POST handler answered), `Registered` (an entry that runs, *or
still holds steering after a watchdog ended it*, is the owner's, and its runner is
between preparation and the end of the stream, *or it was abandoned and no runner
is there*), `Rows` (who may have an open row: an admitted call that is still to
run, a call that runs, or one with the mishap that explains it),
`Places` (the place of each steering message, once) and `Carriers` (only a
continuation carries steering, until its prompt is built). `Registered` needs the
clause about steering: without it a stopped run could leave its messages in an
entry that the next owner replaces. Its alternative for abandoned entries must say
that no runner is there: otherwise a turn could stream beside an entry that is not
its own, and read or finish nothing. `Rows` is
kept by every way out because each either settles the draft or records why not
(`LeavesKeepsInv`, `AbandonsKeepsInv`, `ActivationFailsKeepsInv`).

### System signals

`SystemSignalsProofs`, from `SystemSignalsAssumption` (the kinds of operations are
disjoint; what wakes an agent is a restart or a tool; bounds are positive; more
lease tokens than the backlog holds signals, standing for UUIDs), for every set
of operations, number of processes and attempts, size of backlog and batch:

| Theorem | Statement |
|---|---|
| `SignalsInvariant` | `Spec => []Inv` |
| `SignalsTyped` | `Spec => []TypeOK` |
| `SignalsCommittedOnce` | `Spec => []CommittedOnce` |
| `SignalsBatchStaysLeased` | `Spec => []BatchStaysLeased` |
| `SignalsBacklogReserved` | `Spec => []BacklogReserved` |
| `PublishNeverThrows` | `Spec => []PublishHasRoom` |
| `SignalsImplementOutbox` | `Spec => ImplementsOutbox` |

*The argument.* `RowsOK` relates an operation to its delivery (one exists from the
outcome on) and a lease to its token; `JournalOK` says that events and deliveries
come and go together; `TurnOK` that the running turn's batch was leased by the
process that runs; `BacklogOK` counts reservations and published signals together,
which is why a reserved place is never needed twice. `PublishNeverThrows` is what
the model presupposes when it disables `publish` at the limit. A claim needs a
token that no row carries: `FreshToken` finds one by counting the leased rows
against the backlog.

*The refinement.* Nearly every action moves many rows, so the proofs do not go
table by table. Five relations say how *one* operation with its rows may move
(`Stays`, `Begins`, `Publishes`, `Receives`, `Prunes`); each of these
implies an edge of the outbox or a stutter (`RowsMove`), and every transaction is
shown to move every row by one of them.

### Services

`TurnInputsProofs`:

| Theorem | Statement | From |
|---|---|---|
| `BacklogLosesNothing` | `BridgeSpec => []BacklogIsExact` | `BridgeAssumption` |
| `ToolsAreCurrent` | `McpSpec => []McpToolsAreCurrent` | `McpAssumption` |
| `RecallComparesTheTruth` | `EmbeddingSpec => []VectorsAreTrue` | `EmbeddingAssumption` |
| `RecapAndHotRowsMeet` | `BoundarySpec => []RecapMeetsHot` | `BoundaryAssumption` |

*MCP tools.* `RunsAreDated`: a connecting run is of no later generation than the
current one, read the servers as they are if it is of the current one, and has
had its clients closed only if it is of an earlier one. The comparison of
generations after the last await is what turns this into the property.

*Vectors.* The property speaks of the row and its job, and is inductive only with
two things it does not mention: that only a final row has a vector and that the
job of such a row has the hash of its text. A result arrives for a text the
worker read before an await; it is stored because the job is still the one
claimed, and `RowsAreTrue` is what makes the job's hash speak for the row.

*Boundaries.* `Accounts` is asked of the recap *and of every attempt that has
built one and not yet committed it*, for the boundary that attempt was started
for, and with the first stored row as it is now: rows pruned in between must not
matter. A recap mentions no row that is yet to come, so a new message keeps it.

*Bridges.* The property is about the watermarks a call was given when it began,
which may be older than those in the database. `BridgeInv` therefore asks the same
of both: `Covered` (a watermark is the stamp of a message that was handled, or
lies below one) of the database and of every overlapping call, and of the
handled messages that they lie at or below the watermark of their chat.
`CallAgrees` adds that the message in a call's hands is above the watermark the
call has read, which is why it was not known as handled. The queue of the first
gate forgets its oldest id, and nothing in the argument depends on what it still
remembers.

`ToolCallsProofs` (its fourth part, workflow runs, is below):

| Theorem | Statement | From |
|---|---|---|
| `SkillProcessesAccountedFor` | `SkillSpec => []ProcessesAccountedFor` | nothing |
| `BrowserLedgerAgrees` | `BrowserSpec => []LedgerAgrees` | `BrowserAssumption` |
| `BackgroundOutcomesAreKept` | `BackgroundSpec => []OutcomesAreKept` | `BackgroundAssumption` |

*Skill executions.* `Accounted` adds when a process may be launched at all: from a
request that is still pending and open, whose row, if a person was asked, is
accepted. A row may say "did not run" only as long as no launch is possible any
more, and that depends on four places that a restart empties separately.

*Browser commands.* Posts arrive late and in any order, so `HandedOut` says of a
command that a worker *or a post* still knows that it was enqueued, and is picked
if it is still queued. With it a late post can neither move a command that nobody
has, nor settle a queued one. A poll hands out what is not picked, hence what no
worker has; that keeps `OneWorkerEach`.

*Background results.* `Agreed` relates closure, record, deferred settlement, row
and operation of a call. The second half of `OutcomeKept`, which the property
does not show, is that a pending record is waited for by exactly one of the
closure and the deferred settlement: the sweep may evict only what neither waits
for, so the oldest record that may go has finished (`OldestMayGo`,
`VictimsHaveFinished`; the oldest is a minimum of the well-founded `<` on `Nat`).

*Workflow runs*, in `ToolCallsProofs`, from `WorkflowAssumption` (some process, a plan of writes,
reads and choices, one to three attempts of a read, some number of retries), for
every such plan and set of processes:

| Theorem | Statement |
|---|---|
| `WorkflowIsTyped` | `WorkflowSpec => []WorkflowTypeOK` |
| `WorkflowIsSafe` | `WorkflowSpec => []WorkflowSafety` |

*The argument.* That a write is called once is not inductive: whether the host
may be called depends on the row, and the row says so only together with who is
calling. `WorkflowInv` adds to the types what the code relies on: `RowOK` (a row
that is not completed is at a step of the plan), `CallsAtRow` (a host call in
flight is made by the live owner of the row, for the row's step, in a phase from
which no second call starts, and an advance that waits has its row running),
`CallsOnce` (writes beyond the row's step, and the one it is ready at, have not
been called), `FreshAtRow` (an observation whose version still holds is of the
row's step) and `EvidenceIsOwn`. A write's step is left by the
result of its call or by evidence, and in the second case the call must have
ended before the row moves: that is `executionSettled`, which the proof cites at
`Observed`. `FreshAtRow` is
the compare-and-set: it fails at once if a step that moves the row leaves an
observation fresh.

*Notifications*, in `StreamsProofs`, from `BusAssumption` (a ring of one at least),
for every set of tabs, every ring and every number of timestamps:

| Theorem | Statement |
|---|---|
| `BusIsTyped` | `BusSpec => []BusTypeOK` |
| `BusReplaysExactly` | `BusSpec => []ReplayIsExact` |

*The argument.* A reader names the last timestamp it has handled and is sent what
is later. That loses nothing only if no event to come has that timestamp, and if
whatever is not later was shown, in this tab or in another that wrote the cursor
both share. `Reached` says the two of a timestamp, and `BusInv` asks it of every
tab's cursor and of the stored one. `Rising` orders the ring strictly; with it a
stream is a replay that stays in order (`KeptOrder`) with live events behind it.
An event dropped from the ring needs no care: every clause speaks of what the
ring still holds, and the property claims no more.

*Delegation*, in `LimitsProofs`, from `DelegationAssumption` (turns of people and
handoffs have different names; each root has a home; numbers are numbers), for
every set of agents and roots, every depth, price, ceiling and number of
handoffs:

| Theorem | Statement |
|---|---|
| `DelegationIsTyped` | `DelegationSpec => []DelegationTypeOK` |
| `DelegationKeepsToItsBudget` | `DelegationSpec => []DelegationSafety` |

*The argument.* `DelegationInv` has two halves. The first
is about places: `Placed` (who owns a thread, or waits for it, is a turn of its
agent) and `Chained` (the turns above a handoff are of other agents than its own);
those turns are therefore nowhere in the thread in which the handoff waits.
The second is about money: a handoff reserves only
while it streams (`Spending`), and a root's budget is `Solvent` against the *sum* of
its handoffs' reservations (`Budgeted`): it has reserved that sum; until an
overrun was seen, what it committed and reserved together is within the ceiling;
after one, it has been marked, or stands at its ceiling. This last
disjunct is not in the property: `costLimitExceeded` is taken back when a
settlement meets the ceiling exactly (section 7), and it is the amount that then
keeps a further reservation out. `SettledBudgets` and `ReservedBudgets` are those
facts of one budget, with the rest of the sum a number; `BudgetMoves` carries them
over to the sum when one handoff moves.

*Types.* Every conjunct of `TypesOK` of `MCServices` is a theorem about its component:
`BridgeIsTyped`, `McpIsTyped`, `EmbeddingIsTyped`, `BoundaryIsTyped`, `SkillIsTyped`,
`BrowserIsTyped`, `BackgroundIsTyped`, `WorkflowIsTyped`, `BusIsTyped`,
`DelegationIsTyped` and, in `SystemSignalsProofs` from `TriggerAssumption`,
`TriggersAreTyped`.

### Lists and sums

`kept` (in `Subsequences`) is a recursive function, not a RECURSIVE operator and
not `SelectSeq`, since what it contains has to be proved: `KeptRange` and
`KeptOrder`, for every list. Induction theorems of the library take the property
as an operator, which the provers cannot instantiate; `NatSetInduction` takes it
as a *set* of numbers
and is proved from the well-foundedness of `<`. The text of a log and what `sent`
does to a page are recursive functions as well; that such a function exists on
`0..n` is `Iterates`, which takes the step as a function of the index and the value
before it, and what it does at each index is then used one chunk at a time
(`TextFacts`, `SentFacts`).

A sum over a function is `SumFunction` of the community modules, and its definition
is unfolded, not assumed: `SumIsOfSums` reads from it a recursive function on the
subsets of the domain. `SubsetInduction`, again with the property as a set, gives
what the proofs use: a sum of numbers is a number, a new summand adds to it, a
changed one changes it by the difference, and summands that all grow make it grow
by their number (`SumTypes`, `SumWith`, `SumChanged`, `SumGrown`).

### What the proofs changed

Writing the proofs found two definitions whose CASE arms overlapped (`settled` in
`EmbeddingJobs`, `settledCall` in `BackgroundResults`): TLC takes the first arm
that holds, the logic any. Both are now exclusive, in the order of the code's
tests. `BoundaryAssumption` was missing: only the instance had made the limits of
`ContextBoundary` numbers. `sent` was a fold and is a recursive function now, with
the same states; so are the filters of `Connect` in `NotificationBus` and of
`remembered` in `BridgeInbound`, which are `kept` now. The sums in `discounted` and
`BudgetHolds` are `SumFunction`, over a function instead of a list. `BridgeAssumption`
now says that there is an adapter to begin with.

### What is only model-checked

* `TypesOK` of `MCServices` by that name: it is a conjunction over eleven
  components that share no state, and each conjunct is a theorem (above).
* `InteractiveServed`, `PagesEnd`, `EverythingSettles`, `SignalsSettle`,
  `QueuedBoundaryServed`, `DueTasksAdvance`, `HandoffsSettle`: liveness under
  fairness and `ENABLED` are out of the prover's reach.

Every other property that a passing run checks, invariants, action properties and
both refinements, is a theorem. No module here declares a RECURSIVE operator.

## 6. Plan

Order: what every agent run passes through first, then what runs beside it,
then what starts it.

1. Done: `SerialExecutor`, `RunQueue`, `RunRegistry`, `RunWatchdog`, `AgentTurn`,
   `SignalOutbox`, `SystemSignals`, and the proofs about the queue and the idle
   watchdog.
2. Done: the eleven services, the proofs about workflow runs.
3. Done: the positions of the queue, the registry and its pages, both watchdogs,
   agent turns, system signals with the refinement of `SignalOutbox`, and all
   services (section 5).
4. *More of the system*, where it adds a hazard: the persist step of an agent
   turn in detail (a saved reply relabelled as failed), watchers and their
   fingerprints, agent advertisements, the graceful shutdown, that embedding jobs
   catch up under a fair embedding service.

## 7. Where the code and its documentation disagree

Each is a run whose property TLC finds violated (`PROJECT.json`, "findings").

* **`RunRegistryLate`.** A comment (`run-registry.ts:167-168`) says that
  `broadcast` drops chunks delivered after `finishRun`. It tests the identity of
  the entry only, so the executor of a run that a watchdog finished goes on
  appending to its log.
* **`RunWatchdogParallel`.** A comment (`run-registry.ts:57-58`) says that the
  wall clock bounds agent and provider time. Overlapping tools are subtracted
  once each, so the run lives longer.
* **`AgentTurnSteering`.** ADR-0080 says that steering is discarded only when the
  run is aborted. A turn whose preparation fails discards it too, and so do the
  other ways the finding lists.
* **`SystemSignalsStuck`.** ADR-0091 says that permanent failures end in a dead
  letter. A failed wake-up is charged to ready rows only, so an expired lease
  wakes the thread at every tick for as long as preparation fails.
* **`ServicesSchedule`.** A comment (`scheduled-tasks.ts:165-166`) says that changing
  a schedule recomputes the next run. A firing that is running at the time marks
  its row by the schedule it started with afterwards: the next run is of the old
  schedule, or the row is deleted because the old kind was `once`.

### Observations that no run shows

Met while translating, and stated here because a reader of the code would want
to know; they contradict no property, or concern what is left out.

* *Turns.* When an http turn's preparation or activation fails, the handler
  (`route.ts:259-276`) settles the draft (266) before it calls `finishRun` (274),
  with no `finally`. If that write throws as well, the queue goes on while the slot
  of the registry stays taken, and every turn of the thread fails in `startRun`
  until a watchdog ends the abandoned run. The comment at 226 says that slots
  serialize with the queue; `startRun` at 227 is outside the `try`, so the rows of
  an http turn that fails there stay `in_progress` until the next boot. The model
  has these ways out.
* *Boundaries.* An attempt that was started for an earlier boundary may commit
  after a later one has pruned below it (`run-thread.ts:192-195`). A queued or older
  attempt may set the pin again after it was cleared, unlike the comment at
  `warm-summary-background.ts:191-194`.
* *Workflows.* `answer` and `reconcile` take over the row of a dead owner even
  while it is "running"; then only `cancel` resolves it.
* *Browser.* After a restart the ledger's open rows stay queued or running for
  ever. The comment at `browser-control.ts:220-221` names a function that does not
  exist.
* *Scheduler.* A task disabled or deleted while earlier firings of the same tick
  run still fires. A crash between a firing and its mark fires it again. A watcher
  is recorded before it fires, and its call has no timeout.
* *Delegation.* The comment at `delegation-budget.ts:3` calls the clock a ceiling
  "shared by queue wait", but an expired handoff is only rejected when the queue
  picks it. Mutual delegation therefore waits for the tool's clock (120 s by
  default, at most 30 minutes). Stopping the root does not stop an orphaned
  child. `costLimitExceeded` is taken back when the ceiling is met exactly; no
  inference can be reserved then, as `BudgetHolds` shows.
* *Bridges.* An id is remembered after `await extractContent` and looked up before
  it, so a replay in between is handled twice; a stopped adapter goes on with its
  batch. After a crash an older unhandled message of a chat lies below its
  watermark and is dropped. A late `disconnected` of a stopped adapter overwrites
  the status of a newer one. The pid lock is a check and then a write.
* *Background results.* After the last failed settlement the owner is told of an
  error; once the record is swept, the row says "pending" until a restart says
  "interrupted". The operation keeps its place in the backlog meanwhile.
* *MCP tools.* A run that an edit overtook does not close its clients
  (`client.ts:163`), and `finally { pending = null }` (179-183) clears a newer run's
  entry: two runs of one generation may connect, and the clients of the first are
  overwritten unclosed. The comment at `client.ts:19-21` says otherwise. Callers of
  an overtaken run get the cached tools, or none.
* *Vectors.* A message whose text was refused for good has no vector, and a change
  of the model does not try it again: the pass looks at messages that have one,
  and fills gaps for memories only, while its comment (`embeddings/index.ts:743-749`)
  says "and backfills rows that never had one". At boot pending jobs wait until
  a message becomes final or recall looks for stale vectors.
* *Advertisements.* The `continue` at `advertisement-service.ts:228-230` leaves a
  state pending when only the catalog changed, until the next refresh.
