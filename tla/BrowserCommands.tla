---- MODULE BrowserCommands ----
(***************************************************************************)
(* The browser command bridge: the in-memory queue and long polls of       *)
(* lib/api/browser-control.ts, the ledger of lib/stores/                   *)
(* browser-command-log.ts and the poll loop of the extension's service     *)
(* worker (browser-extension/background.js).                               *)
(*                                                                         *)
(* The browser may stop a service worker at any time and requests between  *)
(* the two get lost or late. The server does not see that a client has     *)
(* gone: the poll stays parked until its wait ends, and a command may be   *)
(* handed to nobody. A retry of a logged command is a new command.         *)
(***************************************************************************)
EXTENDS Integers, Sequences, FiniteSets, Subsequences

CONSTANTS
    Commands,      \* cmd_ids, each used once
    Extensions,    \* installed extensions, each with one poll loop
    MAX_QUEUE_DEPTH,
    MaxParked      \* bound of the model: polls parked at once, each for 25 s at most

ASSUME BrowserAssumption == MAX_QUEUE_DEPTH \in Nat \ {0} /\ "gone" \notin Extensions

VARIABLES
    queue,     \* the entries of queue and byId, as cmd_ids
    picked,    \* the entries with picked
    waiters,   \* pollWaiters: whose poll is parked, "gone" if it was dropped
    workers,   \* [Extensions -> what its loop does]
    posts,     \* progress and result requests under way
    ledger,    \* [Commands -> status in browser_command_log]
    told       \* [Commands -> what the tool was told]

browserVars == <<queue, picked, waiters, workers, posts, ledger, told>>

Off == [phase |-> "off"]            \* stopped, backing off, between two polls
Polling == [phase |-> "polling"]
Working(c) == [phase |-> "working", cmd |-> c]

Posts == [kind : {"progress", "succeeded", "failed"}, cmd : Commands]
Statuses == {"none", "queued", "running", "succeeded", "failed"}

\* The queue, the polls, the requests under way and the ledger.
BrowserTypeOK ==
    /\ queue \in Seq(Commands) /\ Len(queue) <= MAX_QUEUE_DEPTH
    /\ picked \subseteq Commands
    /\ waiters \in Seq(Extensions \cup {"gone"})
    /\ workers \in [Extensions -> {Off, Polling} \cup {Working(c) : c \in Commands}]
    /\ posts \subseteq Posts
    /\ ledger \in [Commands -> Statuses]
    /\ told \in [Commands -> {"none", "waiting", "succeeded", "failed", "refused", "lost"}]

BrowserInit ==
    /\ queue = <<>> /\ picked = {} /\ waiters = <<>> /\ posts = {}
    /\ workers = [x \in Extensions |-> Off]
    /\ ledger = [c \in Commands |-> "none"]
    /\ told = [c \in Commands |-> "none"]

----------------------------------------------------------------------------
(* The server.                                                             *)

entries == {queue[i] : i \in 1..Len(queue)}
unpicked == kept(queue, Commands \ picked)
removeAt(s, i) == [j \in 1..Len(s) - 1 |-> IF j < i THEN s[j] ELSE s[j + 1]]

\* enqueueCommand. Refused when the queue is full or no poll was seen of late;
\* else logged, queued, and handed to the longest parked poll, if there is one.
Enqueue(c) ==
    /\ told[c] = "none"
    /\ \/ /\ Len(queue) >= MAX_QUEUE_DEPTH \/ waiters = <<>>
          /\ told' = [told EXCEPT ![c] = "refused"]
          /\ UNCHANGED <<queue, picked, waiters, workers, posts, ledger>>
       \/ /\ Len(queue) < MAX_QUEUE_DEPTH
          /\ told' = [told EXCEPT ![c] = "waiting"]
          /\ queue' = Append(queue, c)
          /\ IF waiters = <<>>
             THEN /\ ledger' = [ledger EXCEPT ![c] = "queued"]
                  /\ UNCHANGED <<picked, waiters, workers>>
             ELSE LET e == Head(Append(unpicked, c)) IN   \* dispatchToNextWaiter
                  /\ picked' = picked \cup {e}
                  /\ ledger' = [[ledger EXCEPT ![c] = "queued"] EXCEPT ![e] = "running"]
                  /\ waiters' = Tail(waiters)
                  /\ workers' = [x \in Extensions |->
                                   IF x = Head(waiters) THEN Working(e) ELSE workers[x]]
          /\ UNCHANGED posts

\* pollNextCommand, for a poll of x: the first command nobody took, or parked.
Poll(x) ==
    /\ workers[x] = Off
    /\ IF unpicked # <<>>
       THEN /\ picked' = picked \cup {Head(unpicked)}
            /\ ledger' = [ledger EXCEPT ![Head(unpicked)] = "running"]
            /\ workers' = [workers EXCEPT ![x] = Working(Head(unpicked))]
            /\ UNCHANGED waiters
       ELSE /\ Len(waiters) < MaxParked
            /\ waiters' = Append(waiters, x)
            /\ workers' = [workers EXCEPT ![x] = Polling]
            /\ UNCHANGED <<picked, ledger>>
    /\ UNCHANGED <<queue, posts, told>>

\* The wait of the i-th parked poll ends with no command.
WaitEnds(i) ==
    /\ waiters' = removeAt(waiters, i)
    /\ workers' = [x \in Extensions |-> IF x = waiters[i] THEN Off ELSE workers[x]]
    /\ UNCHANGED <<queue, picked, posts, ledger, told>>

\* completeBrowserCommandLog, removeEntry and the answer to the tool.
settleCommand(c, status) ==
    /\ queue' = kept(queue, Commands \ {c})
    /\ picked' = picked \ {c}
    /\ ledger' = [ledger EXCEPT ![c] = status]
    /\ told' = [told EXCEPT ![c] = status]

\* The expiry timer of an entry, whether it was picked or not.
TimesOut(c) ==
    /\ c \in entries
    /\ settleCommand(c, "failed")
    /\ UNCHANGED <<waiters, workers, posts>>

\* Mutant of progressed: the status is set whatever it was.
alwaysRunning(status) == "running"

\* markBrowserCommandProgress: only a queued command starts to run.
progressed(status) == IF status = "queued" THEN "running" ELSE status

\* A request of an extension arrives: submitResult ignores unknown commands.
Arrives(m) ==
    /\ posts' = posts \ {m}
    /\ IF m.kind = "progress"
       THEN /\ ledger' = [ledger EXCEPT ![m.cmd] = progressed(@)]
            /\ UNCHANGED <<queue, picked, told>>
       ELSE IF m.cmd \in entries THEN settleCommand(m.cmd, m.kind)
       ELSE UNCHANGED <<queue, picked, ledger, told>>
    /\ UNCHANGED <<waiters, workers>>

\* The server restarts: the ledger is all that is left.
ServerRestarts ==
    /\ queue' = <<>> /\ picked' = {} /\ waiters' = <<>>
    /\ workers' = [x \in Extensions |-> IF workers[x] = Polling THEN Off ELSE workers[x]]
    /\ told' = [c \in Commands |-> IF told[c] = "waiting" THEN "lost" ELSE told[c]]
    /\ UNCHANGED <<posts, ledger>>

----------------------------------------------------------------------------
(* The extension and the network.                                          *)

\* The service worker is stopped, its request is cut, or 28 s are over. What it
\* was working on is forgotten, what it has posted may still arrive.
WorkerStops(x) ==
    /\ workers[x] # Off
    /\ workers' = [workers EXCEPT ![x] = Off]
    /\ waiters' = [i \in 1..Len(waiters) |-> IF waiters[i] = x THEN "gone" ELSE waiters[i]]
    /\ UNCHANGED <<queue, picked, posts, ledger, told>>

\* postCommandProgress and postCommandResult: the loop goes on to the next poll
\* after the result, delivered or not.
Posted(x, kind) ==
    /\ workers[x].phase = "working"
    /\ posts' = posts \cup {[kind |-> kind, cmd |-> workers[x].cmd]}
    /\ workers' = IF kind = "progress" THEN workers ELSE [workers EXCEPT ![x] = Off]
    /\ UNCHANGED <<queue, picked, waiters, ledger, told>>

IsLost(m) ==
    /\ posts' = posts \ {m}
    /\ UNCHANGED <<queue, picked, waiters, workers, ledger, told>>

BrowserNext ==
    \/ \E c \in Commands : Enqueue(c) \/ TimesOut(c)
    \/ \E x \in Extensions : Poll(x) \/ WorkerStops(x)
    \/ \E x \in Extensions, kind \in {"progress", "succeeded", "failed"} : Posted(x, kind)
    \/ \E i \in 1..Len(waiters) : WaitEnds(i)
    \/ \E m \in posts : Arrives(m) \/ IsLost(m)
    \/ ServerRestarts

BrowserSpec == BrowserInit /\ [][BrowserNext]_browserVars

----------------------------------------------------------------------------
(* Properties.                                                             *)

\* The ledger tells what the tool was told, through timeouts, late and lost
\* posts: a settled command keeps the status its tool was given, one that is
\* not settled is queued or running as it was picked or not, and no two workers
\* have the same command. No command waits while a poll is parked.
LedgerAgrees ==
    /\ \A c \in Commands :
        /\ told[c] \in {"succeeded", "failed"} => ledger[c] = told[c]
        /\ told[c] = "waiting" <=> c \in entries
        /\ c \in entries => ledger[c] = IF c \in picked THEN "running" ELSE "queued"
    /\ \A x, y \in Extensions :
         workers[x] = workers[y] /\ workers[x].phase = "working" => x = y
    /\ waiters # <<>> => unpicked = <<>>

====
