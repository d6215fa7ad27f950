---- MODULE NotificationBus ----
(***************************************************************************)
(* Notifications: the ring and the listeners of lib/notifications/bus.ts,  *)
(* the event stream of app/api/v1/events/route.ts and the cursor that each *)
(* tab of a browser keeps and stores (hooks/useEventNotifications.ts).     *)
(*                                                                         *)
(* The route subscribes and replays in one synchronous step. Activity      *)
(* updates take no part in replay and are left out, and so is the limit of *)
(* six hours that a stored cursor is raised to. The clock of a restarted   *)
(* server is taken to be past the timestamps the last one gave out.        *)
(***************************************************************************)
EXTENDS Integers, Sequences, FiniteSets, Subsequences

CONSTANTS
    Tabs,           \* tabs of one browser: they share localStorage
    RECENT_LIMIT,   \* events the ring keeps
    MaxTime         \* bound of the model: timestamps ever given out

ASSUME BusAssumption == RECENT_LIMIT \in Nat \ {0} /\ MaxTime \in Nat

VARIABLES
    now,       \* Date.now() of the server
    recent,    \* the ring
    streams,   \* [Tabs -> events on their way], Closed without a connection
    cursors,   \* [Tabs -> lastTsRef.current]
    lastTs,    \* localStorage: jarela.notif.lastTs
    shown      \* history: the timestamps of events that some tab has handled

busVars == <<now, recent, streams, cursors, lastTs, shown>>

\* Handled events move the cursor; bridge_status and bridge_unrouted do not.
Events == [ts : 1..MaxTime, handled : BOOLEAN]
Closed == [open |-> FALSE, events |-> <<>>]
Times == 0..MaxTime

\* The ring, what is on its way and the cursors.
BusTypeOK ==
    /\ now \in 1..MaxTime + 1
    /\ recent \in Seq(Events) /\ Len(recent) <= RECENT_LIMIT
    /\ streams \in [Tabs -> [open : BOOLEAN, events : Seq(Events)]]
    /\ cursors \in [Tabs -> Times] /\ lastTs \in Times
    /\ shown \subseteq 1..MaxTime

BusInit ==
    /\ now = 1 /\ recent = <<>> /\ lastTs = 0 /\ shown = {}
    /\ streams = [t \in Tabs |-> Closed]
    /\ cursors = [t \in Tabs |-> 0]

----------------------------------------------------------------------------

lastPublished == IF recent = <<>> THEN 0 ELSE recent[Len(recent)].ts

\* Mutant of stamp: events of one millisecond keep their timestamp.
clockStamp == now

\* The unique timestamp of the next event.
stamp == IF now > lastPublished THEN now ELSE lastPublished + 1

\* Mutant of trimmed: the ring overruns its limit by one.
trimmedLate(ring) == IF Len(ring) > RECENT_LIMIT + 1 THEN Tail(ring) ELSE ring

\* recent.length > RECENT_LIMIT: the oldest event goes.
trimmed(ring) == IF Len(ring) > RECENT_LIMIT THEN Tail(ring) ELSE ring

\* publish and dispatch.
Publish(handled) ==
    LET e == [ts |-> stamp, handled |-> handled] IN
    /\ stamp <= MaxTime
    /\ recent' = trimmed(Append(recent, e))
    /\ streams' = [t \in Tabs |-> IF streams[t].open
                                  THEN [streams[t] EXCEPT !.events = Append(@, e)] ELSE Closed]
    /\ UNCHANGED <<now, cursors, lastTs, shown>>

\* The clock moves on.
ClockTicks ==
    /\ now <= MaxTime
    /\ now' = now + 1
    /\ UNCHANGED <<recent, streams, cursors, lastTs, shown>>

\* GET /events?since=: subscribe, and replay recentSince(since).
Connect(t) ==
    /\ ~streams[t].open
    /\ streams' = [streams EXCEPT ![t] =
         [open |-> TRUE, events |-> kept(recent, {e \in Events : e.ts > cursors[t]})]]
    /\ UNCHANGED <<now, recent, cursors, lastTs, shown>>

\* routeStreamMessage, for the next event of the stream.
Receive(t) ==
    LET e == Head(streams[t].events)
        cursor == IF e.ts > cursors[t] THEN e.ts ELSE cursors[t]
    IN
    /\ streams[t].events # <<>>
    /\ streams' = [streams EXCEPT ![t].events = Tail(@)]
    /\ IF e.handled
       THEN /\ cursors' = [cursors EXCEPT ![t] = cursor]
            /\ lastTs' = cursor
            /\ shown' = shown \cup {e.ts}
       ELSE UNCHANGED <<cursors, lastTs, shown>>
    /\ UNCHANGED <<now, recent>>

\* The connection is lost, or closed to open another one: the tab comes to the
\* foreground, is unmounted. What was on its way is gone.
Disconnect(t) ==
    /\ streams[t].open
    /\ streams' = [streams EXCEPT ![t] = Closed]
    /\ UNCHANGED <<now, recent, cursors, lastTs, shown>>

\* The tab is loaded: loadLastTs.
Load(t) ==
    /\ streams' = [streams EXCEPT ![t] = Closed]
    /\ cursors' = [cursors EXCEPT ![t] = lastTs]
    /\ UNCHANGED <<now, recent, lastTs, shown>>

\* The server restarts with an empty ring.
BusRestarts ==
    /\ recent # <<>> /\ lastPublished <= MaxTime
    /\ recent' = <<>>
    /\ now' = IF now > lastPublished THEN now ELSE lastPublished + 1
    /\ streams' = [t \in Tabs |-> Closed]
    /\ UNCHANGED <<cursors, lastTs, shown>>

BusNext ==
    \/ \E handled \in BOOLEAN : Publish(handled)
    \/ \E t \in Tabs : Connect(t) \/ Receive(t) \/ Disconnect(t) \/ Load(t)
    \/ ClockTicks \/ BusRestarts

BusSpec == BusInit /\ [][BusNext]_busVars

----------------------------------------------------------------------------
(* Properties.                                                             *)

\* No event is missed and none is shown to a tab twice, over reconnects, tabs
\* that are loaded again and events of one millisecond: a retained event that a
\* tab's cursor has passed was handled by a tab of the browser, a connected tab
\* still gets every retained event past its cursor, and what is on its way is
\* in order and past the cursor.
ReplayIsExact ==
    \A t \in Tabs :
        LET coming == streams[t].events IN
        /\ \A i \in 1..Len(recent) :
             LET e == recent[i] IN e.handled =>
               /\ e.ts <= cursors[t] => e.ts \in shown
               /\ streams[t].open /\ e.ts > cursors[t] => \E j \in 1..Len(coming) : coming[j] = e
        /\ \A j \in 1..Len(coming) :
             /\ coming[j].ts > cursors[t]
             /\ j > 1 => coming[j].ts > coming[j - 1].ts

====
