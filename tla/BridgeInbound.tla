---- MODULE BridgeInbound ----
(***************************************************************************)
(* lib/bridges/whatsapp.ts, handleMessageUpsert: the messages of a bridge  *)
(* on their way to the dispatcher. Live messages come as "notify", what    *)
(* the server kept while nobody listened as "append", and both may come    *)
(* again. Two things stop a repetition: the ids an adapter remembers, and  *)
(* the watermark of the chat's route, which outlives the process.          *)
(*                                                                         *)
(* Every upsert is an async function of its own; it awaits the content of  *)
(* a message (a download) and then the dispatcher's handler (a whole agent *)
(* turn), and other upserts run meanwhile. Stopping and starting a bridge  *)
(* makes a new adapter, but the upserts of the old one go on.              *)
(***************************************************************************)
EXTENDS Integers, Sequences, Functions, Subsequences

CONSTANTS
    Messages,
    chatOf, stampOf,  \* a message's chat and its messageTimestamp (seconds, from 1)
    Routed,           \* the chats with a route of their own; others have a catch-all
    Upserts,          \* bound of the model: calls of handleMessageUpsert at a time
    RECV_IDS_MAX,
    MaxBatch,         \* bound of the model: [Upserts -> the messages of one call]
    MaxAdapters       \* bound of the model: adapters of a behaviour

ASSUME BridgeAssumption ==
    /\ stampOf \in [Messages -> Nat \ {0}]
    /\ RECV_IDS_MAX \in Nat /\ MaxAdapters \in Nat \ {0} /\ MaxBatch \in [Upserts -> Nat]

VARIABLES
    adapter,   \* the number of the bridge's current adapter
    recvIds,   \* [1..MaxAdapters -> Seq(Messages)]: oldest first
    lastSeen,  \* [chats -> Nat]: last_seen_ts of the routes, 0 for none
    upsert,    \* [Upserts -> the state of a call]
    handled    \* history: the messages whose handler has returned

bridgeVars == <<adapter, recvIds, lastSeen, upsert, handled>>

Chats == {chatOf[m] : m \in Messages}

\* `rest` begins with the message in work; `watermarks` is what was read once
\* for the batch; `known` is history: what was handled when it arrived.
NoUpsert == [step |-> "none", type |-> "notify", adapter |-> 0, rest |-> <<>>,
             watermarks |-> [c \in Chats |-> 0], known |-> {}]

BridgeTypeOK ==
    /\ adapter \in 1..MaxAdapters
    /\ recvIds \in [1..MaxAdapters -> Seq(Messages)]
    /\ lastSeen \in [Chats -> Nat]
    /\ upsert \in [Upserts -> [step : {"none", "content", "handler"}, type : {"notify", "append"},
                               adapter : 0..MaxAdapters, rest : Seq(Messages),
                               watermarks : [Chats -> Nat], known : SUBSET Messages]]
    /\ handled \subseteq Messages

BridgeInit ==
    /\ adapter = 1
    /\ recvIds = [a \in 1..MaxAdapters |-> <<>>]
    /\ lastSeen = [c \in Chats |-> 0]
    /\ upsert = [u \in Upserts |-> NoUpsert]
    /\ handled = {}

\* recvIds.set of the content cache: the oldest id makes room.
remembered(ids, m) ==
    LET all == Append(kept(ids, Messages \ {m}), m)
    IN IF Len(all) > RECV_IDS_MAX THEN Tail(all) ELSE all

\* Mutant of readWatermarks: the newest progress of any chat counts for all.
bridgeWideWatermark ==
    [c \in Chats |-> CHOOSE ts \in {lastSeen[d] : d \in Chats} : \A d \in Chats : lastSeen[d] <= ts]

\* getRouteLastSeenTsMap
readWatermarks == lastSeen

\* Mutant of bumped: the watermark is set to the message handled last.
bumpedBack(m) == IF chatOf[m] \in Routed THEN [lastSeen EXCEPT ![chatOf[m]] = stampOf[m]] ELSE lastSeen

\* bumpRouteLastSeenTs: forward only, and only where the chat has a route.
bumped(m) ==
    IF chatOf[m] \in Routed /\ lastSeen[chatOf[m]] < stampOf[m]
    THEN [lastSeen EXCEPT ![chatOf[m]] = stampOf[m]] ELSE lastSeen

\* The two gates before the first await of a message.
seen(ids, m) == m \in Range(ids)
belowWatermark(call, m) == stampOf[m] <= call.watermarks[chatOf[m]]

\* The loop from the messages `rest` to its next await: those that a gate
\* stops are passed over, the first one left is read. ids is recvIds.
goesOn(u, call, rest, ids) ==
    LET stopped(m) == seen(ids[call.adapter], m) \/ belowWatermark(call, m)
        open == {i \in 1..Len(rest) : ~stopped(rest[i])}
    IN upsert' = [upsert EXCEPT ![u] =
          IF open = {} THEN NoUpsert
          ELSE [call EXCEPT !.step = "content",
                            !.rest = SubSeq(rest, CHOOSE i \in open : \A j \in open : i <= j, Len(rest))]]

\* messages.upsert of the current adapter's socket.
HandleMessageUpsert(u, type, batch) ==
    /\ upsert[u].step = "none"
    /\ LET call == [NoUpsert EXCEPT !.type = type, !.adapter = adapter,
                                    !.watermarks = IF type = "append" THEN readWatermarks ELSE @,
                                    !.known = IF type = "append" THEN handled \cap Range(batch) ELSE @]
       IN goesOn(u, call, batch, recvIds)
    /\ UNCHANGED <<adapter, recvIds, lastSeen, handled>>

\* extractContent found nothing an agent can read.
Unreadable(u) ==
    /\ upsert[u].step = "content"
    /\ goesOn(u, upsert[u], Tail(upsert[u].rest), recvIds)
    /\ UNCHANGED <<adapter, recvIds, lastSeen, handled>>

\* extractContent returns: the id is remembered, the handler called.
HandOver(u) ==
    /\ upsert[u].step = "content"
    /\ recvIds' = [recvIds EXCEPT ![upsert[u].adapter] = remembered(@, Head(upsert[u].rest))]
    /\ upsert' = [upsert EXCEPT ![u].step = "handler"]
    /\ UNCHANGED <<adapter, lastSeen, handled>>

\* The handler returns, whatever became of the turn.
HandlerReturns(u) ==
    /\ upsert[u].step = "handler"
    /\ lastSeen' = bumped(Head(upsert[u].rest))
    /\ handled' = handled \cup {Head(upsert[u].rest)}
    /\ goesOn(u, upsert[u], Tail(upsert[u].rest), recvIds)
    /\ UNCHANGED <<adapter, recvIds>>

\* restartBridge: stop forgets the ids, start makes a new adapter.
RestartBridge ==
    /\ adapter < MaxAdapters
    /\ adapter' = adapter + 1
    /\ recvIds' = [recvIds EXCEPT ![adapter] = <<>>]
    /\ UNCHANGED <<lastSeen, upsert, handled>>

\* The process ends and comes back.
BridgeCrash ==
    /\ adapter < MaxAdapters
    /\ adapter' = adapter + 1
    /\ recvIds' = [recvIds EXCEPT ![adapter] = <<>>]
    /\ upsert' = [u \in Upserts |-> NoUpsert]
    /\ UNCHANGED <<lastSeen, handled>>

BridgeNext ==
    \/ \E u \in Upserts : Unreadable(u) \/ HandOver(u) \/ HandlerReturns(u)
    \/ \E u \in Upserts, type \in {"notify", "append"} :
         \E n \in 1..MaxBatch[u] : \E batch \in [1..n -> Messages] : HandleMessageUpsert(u, type, batch)
    \/ RestartBridge \/ BridgeCrash

BridgeSpec == BridgeInit /\ [][BridgeNext]_bridgeVars

----------------------------------------------------------------------------
(* Properties.                                                             *)

\* The gate of a backlog keeps out only messages of a chat that has handled
\* one at least as new: a crash in the middle of a turn and the progress of
\* other chats drop nothing. And it lets through nothing that was handled
\* before the backlog arrived.
BacklogIsExact ==
    \A u \in Upserts : upsert[u].type = "append" =>
        /\ \A c \in Chats : upsert[u].watermarks[c] > 0 =>
             \E n \in handled : chatOf[n] = c /\ stampOf[n] >= upsert[u].watermarks[c]
        /\ upsert[u].step # "none" =>
             LET m == Head(upsert[u].rest) IN chatOf[m] \in Routed => m \notin upsert[u].known

====
