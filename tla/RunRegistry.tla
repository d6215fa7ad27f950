---- MODULE RunRegistry ----
(***************************************************************************)
(* One thread's entry of lib/agents/run-registry.ts and the SSE clients    *)
(* that watch it through GET /threads/:id/run (route.ts) and EventSource   *)
(* (api/client.ts, hooks/useSSE.ts).                                       *)
(*                                                                         *)
(* A chunk is its type; text is the sequence of <<run, sequence>> ids of   *)
(* its deltas. The executor of a run is the queued callback that calls     *)
(* startRun, broadcast and finishRun; the run queue lets one live at a     *)
(* time, and a watchdog may finish its run while it is still alive.        *)
(*                                                                         *)
(* A chunk reaches an attached client in the step that publishes it: what  *)
(* is lost with a connection is what a client that had dropped earlier     *)
(* would not have been sent, and both resume from the same cursor.         *)
(***************************************************************************)
EXTENDS Integers, Sequences

CONSTANTS
    Clients,
    HidingClients,  \* the clients that asked for show_tools=false
    MaxBuffered,    \* JARELA_RUN_BUFFER_SIZE
    MaxRuns,        \* bound: runs of the thread
    MaxEvents       \* bound: chunks the executor of each run broadcasts

ASSUME RunRegistryAssumption ==
    /\ HidingClients \subseteq Clients
    /\ MaxBuffered \in Nat \ {0}
    /\ MaxRuns \in Nat \ {0}
    /\ MaxEvents \in [1..MaxRuns -> Nat]

Runs == 1..MaxRuns
NoRun == 0

\* "tool" stands for every chunk that carries no text (tool_call, tool_result,
\* status, thinking_delta), "terminal" for error and done.
Chunks == {"text_delta", "reset_text", "tool", "terminal"}

VARIABLES
    run,        \* [Runs -> ActiveRun]; log is every chunk published so far,
                \* and Len(log) is event_sequence
    current,    \* runs.get(thread_id)
    evicting,   \* the runs with an armed TTL timer
    executing,  \* the run whose executor is alive
    collecting, \* its stream has not ended (collectStream has not returned)
    client      \* [Clients -> ...]: the page's stream

vars == <<run, current, evicting, executing, collecting, client>>

\* Where a client's stream stands: "connecting": EventSource is opening or
\* reopening the GET; "waiting": the GET waits in waitForRun; "found": its
\* promise has resolved; "live": the response is open and polls; "ended": the
\* consumer read a terminal event and closed.
Phases == {"off", "connecting", "waiting", "found", "live", "ended"}
NoCursor == <<NoRun, 0>>
Ids == Runs \X Nat

TypeOK ==
    /\ current \in Runs \cup {NoRun}
    /\ executing \in Runs \cup {NoRun}
    /\ evicting \in SUBSET Runs
    /\ collecting \in BOOLEAN
    /\ \A r \in Runs :
        /\ run[r].status \in {"absent", "running", "finished"}
        /\ run[r].log \in Seq(Chunks)
        /\ run[r].events \in Seq(Chunks)
        /\ Len(run[r].events) <= MaxBuffered
        /\ run[r].finalText \in Seq(Ids)
        /\ run[r].subscribers \in SUBSET Clients
    /\ \A c \in Clients :
        /\ client[c].phase \in Phases
        /\ client[c].cursor \in Ids \cup {NoCursor}
        /\ client[c].screen \in Seq(Ids)
        /\ client[c].continuation \in BOOLEAN

Fresh(status) ==
    [status |-> status, log |-> <<>>, events |-> <<>>, finalText |-> <<>>, subscribers |-> {}]

Init ==
    /\ run = [r \in Runs |-> Fresh("absent")]
    /\ current = NoRun
    /\ evicting = {}
    /\ executing = NoRun
    /\ collecting = FALSE
    /\ client = [c \in Clients |->
                    [phase |-> "off", cursor |-> NoCursor, screen |-> <<>>, continuation |-> FALSE]]

Running(r) == r # NoRun /\ run[r].status = "running"

----------------------------------------------------------------------------
(* Publishing.                                                             *)

\* A text after chunk k with id: run.final_text, and what a page renders.
rendered(text, id, k) ==
    CASE k = "text_delta" -> Append(text, id)
      [] k = "reset_text" -> <<>>
      [] OTHER -> text

\* Mutant of accumulated: the registry ignores reset_text.
accumulatedAlways(text, id, k) == IF k = "text_delta" THEN Append(text, id) ELSE text

accumulated(text, id, k) == rendered(text, id, k)

shouldEmitChunk(c, k) == k = "tool" => c \notin HidingClients

\* The client c, in state cl, reads chunk k; after a terminal one it stops.
received(c, cl, id, k) ==
    IF cl.phase = "ended" \/ ~shouldEmitChunk(c, k) THEN cl
    ELSE [cl EXCEPT !.cursor = id,
                    !.screen = rendered(@, id, k),
                    !.phase = IF k = "terminal" THEN "ended" ELSE @]

skips(sequence, after) == sequence <= after

\* The chunks of run r from sequence first on, those up to after left out.
sent(c, cl, r, chunks, first, after) ==
    LET state[i \in 0..Len(chunks)] ==
          IF i = 0 THEN cl
          ELSE IF skips(first + i - 1, after) THEN state[i - 1]
          ELSE received(c, state[i - 1], <<r, first + i - 1>>, chunks[i])
    IN  state[Len(chunks)]

\* Mutant of buffered: the buffer is not capped.
bufferedAll(events) == events

\* events.push, then events.shift beyond MAX_BUFFERED.
buffered(events) ==
    IF Len(events) > MaxBuffered
    THEN SubSeq(events, Len(events) - MaxBuffered + 1, Len(events))
    ELSE events

\* publishEvent for each of the chunks, on the entry `entry` of run r.
publishEvent(r, entry, chunks) ==
    LET seen == [c \in Clients |->
                    IF c \in entry.subscribers
                    THEN sent(c, client[c], r, chunks, Len(entry.log) + 1, 0)
                    ELSE client[c]]
    IN  /\ client' = seen
        /\ run' = [run EXCEPT ![r] =
                    [entry EXCEPT !.log = @ \o chunks,
                                  !.events = buffered(@ \o chunks),
                                  !.subscribers = {c \in @ : seen[c].phase = "live"}]]

\* The executor broadcasts a chunk of its stream, or once the stream has ended
\* an error of its own. On an evicted run it has no effect.
Broadcast(r, k) ==
    LET id == <<r, Len(run[r].log) + 1>>
    IN  /\ executing = r
        /\ Len(run[r].log) < MaxEvents[r]
        /\ collecting \/ k = "terminal"
        /\ collecting' = (collecting /\ k # "terminal")
        /\ IF current = r
           THEN publishEvent(r, [run[r] EXCEPT !.finalText = accumulated(@, id, k)], <<k>>)
           ELSE UNCHANGED <<run, client>>
        /\ UNCHANGED <<current, evicting, executing>>

----------------------------------------------------------------------------
(* The life of a run.                                                      *)

\* startRun, from the one live executor; it throws if the entry is running.
\* The GETs in waitForRun are woken.
StartRun(r) ==
    /\ executing = NoRun
    /\ run[r].status = "absent"
    /\ \A q \in 1..(r - 1) : run[q].status # "absent"
    /\ ~Running(current)
    /\ run' = [run EXCEPT ![r] = Fresh("running")]
    /\ current' = r
    /\ executing' = r
    /\ collecting' = TRUE
    /\ client' = [c \in Clients |->
                    IF client[c].phase = "waiting"
                    THEN [client[c] EXCEPT !.phase = "found"]
                    ELSE client[c]]
    /\ UNCHANGED evicting

\* finishRun, with "done" or "error", and the end of the executor. There need
\* not be a terminal chunk: runAgentTurn broadcasts none if preparing fails.
Settle(r) ==
    /\ executing = r
    /\ executing' = NoRun
    /\ collecting' = FALSE
    /\ IF current = r
       THEN /\ run' = [run EXCEPT ![r].status = "finished", ![r].subscribers = {}]
            /\ evicting' = evicting \cup {r}
       ELSE UNCHANGED <<run, evicting>>
    /\ UNCHANGED <<current, client>>

\* A watchdog: emitWatchdogTermination, then finishRun. The executor lives on
\* until it notices the abort.
Terminate(r) ==
    /\ current = r
    /\ Running(r)
    /\ publishEvent(r, [run[r] EXCEPT !.status = "finished"], <<"terminal", "terminal">>)
    /\ evicting' = evicting \cup {r}
    /\ UNCHANGED <<current, executing, collecting>>

\* Mutant of evicts: the timer deletes whatever the entry is by then.
evictsAny(r) == TRUE

evicts(r) == current = r

\* The TTL timer of a finished run.
Evict(r) ==
    /\ r \in evicting
    /\ evicting' = evicting \ {r}
    /\ current' = IF evicts(r) THEN NoRun ELSE current
    /\ UNCHANGED <<run, executing, collecting, client>>

----------------------------------------------------------------------------
(* The clients.                                                            *)

\* sub.unsubscribe() of client c, which goes on as cl.
leaves(c, cl) ==
    /\ client' = [client EXCEPT ![c] = cl]
    /\ run' = [r \in Runs |-> [run[r] EXCEPT !.subscribers = @ \ {c}]]

\* A page opens the thread; or it froze a reply that ended while a steering
\* message was armed, and reads on with await_continuation.
Open(c, continuation) ==
    /\ client[c].phase = IF continuation THEN "ended" ELSE "off"
    /\ client' = [client EXCEPT ![c] = [phase |-> "connecting", cursor |-> NoCursor,
                                        screen |-> <<>>, continuation |-> continuation]]
    /\ UNCHANGED <<run, current, evicting, executing, collecting>>

Leave(c) ==
    /\ client[c].phase # "off"
    /\ leaves(c, [client[c] EXCEPT !.phase = "off", !.cursor = NoCursor, !.screen = <<>>])
    /\ UNCHANGED <<current, evicting, executing, collecting>>

\* The connection drops; EventSource reopens it with the last event id. (One
\* lost before the response went live is one that was not opened yet.)
Drop(c) ==
    /\ client[c].phase = "live"
    /\ leaves(c, [client[c] EXCEPT !.phase = "connecting"])
    /\ UNCHANGED <<current, evicting, executing, collecting>>

\* Mutant of resumable: any earlier sequence of the run will do.
resumableAnywhere(cursor, r, first) == cursor[1] = r /\ cursor[2] <= Len(run[r].log)

resumable(cursor, r, first) ==
    cursor[1] = r /\ cursor[2] >= first - 1 /\ cursor[2] <= Len(run[r].log)

\* A client that read no terminal event stays on the open response of a
\* running run; the response of a finished run closes and it reconnects.
attached(cl, r) ==
    IF cl.phase = "ended" THEN cl
    ELSE [cl EXCEPT !.phase = IF Running(r) THEN "live" ELSE "connecting"]

\* stream_snapshot: the text so far, and a terminal event if the run is over.
snapshot(cl, r) ==
    [cl EXCEPT !.cursor = <<r, Len(run[r].log)>>,
               !.screen = run[r].finalText,
               !.phase = IF Running(r) THEN @ ELSE "ended"]

\* attachStream and subscribe: replay what the cursor has not seen, or send
\* a snapshot when the buffer no longer reaches back to it; then go live.
attach(c) ==
    LET r == current
        cl == client[c]
        first == Len(run[r].log) - Len(run[r].events) + 1
        needsCursor == cl.cursor # NoCursor \/ first > 1
        seen == IF needsCursor /\ ~resumable(cl.cursor, r, first)
                THEN snapshot(cl, r)
                ELSE sent(c, cl, r, run[r].events, first,
                          IF needsCursor THEN cl.cursor[2] ELSE 0)
        next == attached(seen, r)
    IN  /\ client' = [client EXCEPT ![c] = next]
        /\ run' = IF next.phase = "live"
                  THEN [run EXCEPT ![r].subscribers = @ \cup {c}]
                  ELSE run

\* Nothing the GET may attach to at once.
missing(c) == current = NoRun \/ (client[c].continuation /\ ~Running(current))

\* GET with an entry to attach to.
GetAttach(c) ==
    /\ client[c].phase = "connecting"
    /\ ~missing(c)
    /\ attach(c)
    /\ UNCHANGED <<current, evicting, executing, collecting>>

\* Mutant of closedDone: the response ends without an event.
closedSilently(cl) == cl

\* The response is one synthetic `done`.
closedDone(cl) == [cl EXCEPT !.phase = "ended"]

\* GET on a thread whose queue is empty.
GetDone(c) ==
    /\ client[c].phase = "connecting"
    /\ missing(c)
    /\ executing = NoRun
    /\ client' = [client EXCEPT ![c] = closedDone(@)]
    /\ UNCHANGED <<run, current, evicting, executing, collecting>>

\* GET on a thread with queued work (executing or about to): waitForRun,
\* which resolves at once with an existing entry, finished or not.
GetWait(c) ==
    /\ client[c].phase = "connecting"
    /\ missing(c)
    /\ client' = [client EXCEPT ![c].phase = IF current = NoRun THEN "waiting" ELSE "found"]
    /\ UNCHANGED <<run, current, evicting, executing, collecting>>

\* waitForRun has resolved with a run: attachStream, which closes the
\* response if the entry is gone by now.
AttachFound(c) ==
    /\ client[c].phase = "found"
    /\ IF current = NoRun
       THEN /\ client' = [client EXCEPT ![c].phase = "connecting"]
            /\ UNCHANGED run
       ELSE attach(c)
    /\ UNCHANGED <<current, evicting, executing, collecting>>

\* waitForRun resolves with null after five seconds.
WaitTimeout(c) ==
    /\ client[c].phase = "waiting"
    /\ client' = [client EXCEPT ![c] = closedDone(@)]
    /\ UNCHANGED <<run, current, evicting, executing, collecting>>

\* The half-second poll of an open response: it closes when the thread's
\* entry, whichever run that is, is not running.
Poll(c) ==
    /\ client[c].phase = "live"
    /\ ~Running(current)
    /\ leaves(c, [client[c] EXCEPT !.phase = "connecting"])
    /\ UNCHANGED <<current, evicting, executing, collecting>>

RunStep ==
    \E r \in Runs :
        \/ StartRun(r)
        \/ \E k \in Chunks : Broadcast(r, k)
        \/ Settle(r)
        \/ Terminate(r)
        \/ Evict(r)

Get(c) == GetAttach(c) \/ GetDone(c) \/ GetWait(c) \/ AttachFound(c) \/ WaitTimeout(c) \/ Poll(c)

ClientStep ==
    \E c \in Clients :
        \/ \E continuation \in BOOLEAN : Open(c, continuation)
        \/ Leave(c)
        \/ Drop(c)
        \/ Get(c)

Next == RunStep \/ ClientStep

\* Requests are answered and timers fire. That an executor settles is what
\* the watchdogs' abort is for. Nobody has to open or leave a page.
Fairness ==
    /\ \A c \in Clients : WF_vars(Get(c))
    /\ \A r \in Runs : WF_vars(Settle(r)) /\ WF_vars(Evict(r))

Spec == Init /\ [][Next]_vars
FairSpec == Spec /\ Fairness

----------------------------------------------------------------------------
(* The properties.                                                         *)

\* The text of run r after each number of the chunks of log.
textAfter(r, log) ==
    LET text[i \in 0..Len(log)] ==
          IF i = 0 THEN <<>> ELSE rendered(text[i - 1], <<r, i>>, log[i])
    IN  text

\* The text of run r after its first n chunks.
TextUpTo(r, n) == textAfter(r, run[r].log)[n]

\* Through drops, overflows of the buffer, resets and replaced runs, a page
\* shows exactly the text of the run and sequence its cursor names: nothing
\* twice, nothing missing, nothing of another run. A subscribed page has all
\* the text there is: no chunk falls between replay and subscription.
PageShowsItsCursor ==
    /\ \A c \in Clients :
        IF client[c].cursor = NoCursor
        THEN client[c].screen = <<>>
        ELSE client[c].screen = TextUpTo(client[c].cursor[1], client[c].cursor[2])
    /\ \A r \in Runs : \A c \in run[r].subscribers :
        /\ client[c].phase = "live"
        /\ client[c].screen = TextUpTo(r, Len(run[r].log))

\* A running run is the registry's entry until it finishes: the TTL timer of
\* an earlier run never evicts it, and two runs never run at once.
RunningIsRegistered ==
    \A r \in Runs : run[r].status = "running" => current = r

\* On a thread whose runs come to an end every page that attached reads a
\* terminal event, also after runs that end without one, or is closed.
PagesEnd ==
    \A c \in Clients :
        client[c].phase \in {"connecting", "waiting", "found", "live"}
            ~> client[c].phase \in {"off", "ended"}

\* "broadcast()'s status guard drops any chunk delivered after finishRun()
\* has run" (run-registry.ts:167-168).
NothingAfterFinish ==
    [][\A r \in Runs :
        run[r].status = "finished" => run'[r].log = run[r].log]_vars

====
