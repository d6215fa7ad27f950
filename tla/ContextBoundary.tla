---- MODULE ContextBoundary ----
(***************************************************************************)
(* The hot / warm boundary of one thread: the compaction attempts of       *)
(* lib/agents/thread-compaction-state.ts, the background coordinator of    *)
(* lib/agents/warm-summary-background.ts, manual and automatic retention   *)
(* (lib/agents/thread-compaction.ts, run-thread.ts) and the columns of the *)
(* threads row they compare and set (lib/stores/threads.ts).               *)
(*                                                                         *)
(* A compaction awaits the provider twice: to find the start of a topic    *)
(* near the requested row, and to write the recap from the rows and the    *)
(* stored topics it reads then. Everything between two awaits is one step. *)
(* Rows are the foreground messages: first..nextSeq-1, since pruning only  *)
(* removes the oldest. The recap is the set of rows it accounts for, before*)
(* the limits that drop the oldest; the channels' recaps are written with  *)
(* it at the same boundary and are left out.                               *)
(*                                                                         *)
(* auto_boundary_locked_until_msg_count only delays automatic requests: it *)
(* is left out, so one may come at any turn. Without it a compaction that  *)
(* outlives its deadline has no effect left (isCurrent() is false at both  *)
(* checks before the commit) and is forgotten at the deadline.             *)
(***************************************************************************)
EXTENDS Integers, FiniteSets

CONSTANTS
    MaxSeq,     \* bound of the model: messages the thread ever receives
    Cap,        \* maxThreadMessages: rows a manual /compact keeps
    Retained,   \* rows an automatic compaction keeps
    TriggerAt   \* rows that start an automatic compaction

ASSUME BoundaryAssumption == {MaxSeq, Cap, Retained, TriggerAt} \subseteq Nat

VARIABLES
    first, nextSeq, \* the thread's rows
    ctx,            \* the boundary columns of the threads row
    attempts,       \* [Kinds -> Compactions]: the current attempt of each kind
    queued          \* queuedBoundaries.get(threadId), or NoSeq

boundaryVars == <<first, nextSeq, ctx, attempts, queued>>

Kinds == {"manual", "auto", "refresh"}
NoSeq == 0      \* hot_since_seq NULL, no boundary found

rows == first .. nextSeq - 1
messageCount == nextSeq - first

Seqs == NoSeq .. MaxSeq + 1
Recaps == SUBSET (1..MaxSeq)
Texts == {"null", "blank", "body", "topics"}  \* warm_summary, warm_summary_topics
Compactions == [phase : {"idle", "align", "build"}, boundary : Seqs,
                basePin : Seqs, keep : {0, Cap, Retained},
                fresh : BOOLEAN,   \* warm_summary is still the one it read
                recap : Recaps, text : Texts]

Idle == [phase |-> "idle", boundary |-> NoSeq, basePin |-> NoSeq, keep |-> 0,
         fresh |-> FALSE, recap |-> {}, text |-> "null"]

\* The columns, the attempts and what each compaction in memory has read.
BoundaryTypeOK ==
    /\ first \in 1..MaxSeq + 1 /\ nextSeq \in 1..MaxSeq + 1
    /\ ctx \in [pin : Seqs, before : Seqs, recap : Recaps, text : Texts]
    /\ attempts \in [Kinds -> Compactions]
    /\ queued \in Seqs

BoundaryInit ==
    /\ first = 1 /\ nextSeq = 1
    /\ ctx = [pin |-> NoSeq, before |-> NoSeq, recap |-> {}, text |-> "null"]
    /\ attempts = [k \in Kinds |-> Idle]
    /\ queued = NoSeq

----------------------------------------------------------------------------
(* Starting a compaction.                                                  *)

running(k) == attempts[k] # Idle
backgroundCompactionRunning == running("auto") \/ running("refresh")

\* findTopicBoundary: the first row itself, else the start of an earlier topic
\* or nothing. The provider's answer depends on what is read here, so it is
\* chosen here; a boundary that is the base's own makes the attempt end.
topicBoundaries(requested, base) ==
    LET found == IF requested \notin rows THEN {NoSeq}
                 ELSE IF requested = first THEN {first}
                 ELSE (first .. requested - 1) \cup {NoSeq}
    IN {IF b = base.pin /\ b = base.before THEN NoSeq ELSE b : b \in found}

\* Mutant of canMergeIntoTopics: stored topics are extended at any boundary.
canAlwaysMerge(b) == ctx.text = "topics"

\* Whether stored topics are extended by the rows that have aged out of hot.
canMergeIntoTopics(b) == ctx.text = "topics" /\ b > ctx.before

\* buildSummaryBefore: what the recap will account for. A merge that fails
\* validation falls back to one call over the rows below the boundary.
summariesBefore(b) ==
    LET below == {r \in rows : r < b} IN
    {[recap |-> below, text |-> t] : t \in Texts \ {"null"}}
        \cup IF canMergeIntoTopics(b)
             THEN {[recap |-> ctx.recap \cup {r \in below : ctx.before <= r}, text |-> "topics"]}
             ELSE {}

\* compactThreadWarmContext up to its first await, on the columns base.
compaction(b, base, keep) ==
    [Idle EXCEPT !.phase = "align", !.boundary = b, !.basePin = base.pin,
                 !.keep = keep, !.fresh = TRUE]
building(c, s) == [c EXCEPT !.phase = "build", !.recap = s.recap, !.text = s.text]

\* Mutant of drains: a settled refresh leaves the queued boundary where it is.
autoDrains(k) == k = "auto"

\* The kinds whose promise ends in drainQueuedBoundary.
drains(k) == k \in {"auto", "refresh"}

\* Attempt k settles, with the other attempts as given and the columns as it
\* leaves them; then the queued boundary runs, unless it is the pin already.
settle(k, others, columns) ==
    LET free == [others EXCEPT ![k] = Idle] IN
    IF drains(k) /\ queued # NoSeq
    THEN /\ queued' = NoSeq
         /\ IF queued = columns.pin
            THEN attempts' = free
            ELSE \E b \in topicBoundaries(queued, columns) :
                   attempts' = [free EXCEPT !["auto"] = compaction(b, columns, 0)]
    ELSE attempts' = free /\ UNCHANGED queued

----------------------------------------------------------------------------
(* Messages and requests.                                                  *)

\* A turn adds a message.
AddMessage ==
    /\ nextSeq <= MaxSeq
    /\ nextSeq' = nextSeq + 1
    /\ UNCHANGED <<first, ctx, attempts, queued>>

\* kickBoundaryCompaction: the divider is dragged, compact_context is called, a
\* turn carries its own boundary, has too many hot turns, or nears its token
\* budget. Behind a background attempt the request is queued, last write wins.
RequestBoundary(b) ==
    /\ b \in rows
    /\ IF backgroundCompactionRunning
       THEN queued' = b /\ UNCHANGED attempts
       ELSE /\ \E t \in topicBoundaries(b, ctx) :
                 attempts' = [attempts EXCEPT !["auto"] = compaction(t, ctx, 0)]
            /\ UNCHANGED queued
    /\ UNCHANGED <<first, nextSeq, ctx>>

\* moveThreadContextBoundary(threadId, null): immediate. Neither the queue nor
\* the attempts are touched.
ClearBoundary ==
    /\ ctx' = [ctx EXCEPT !.pin = NoSeq]
    /\ UNCHANGED <<first, nextSeq, attempts, queued>>

\* kickWarmSummaryRefresh, for a recap of more rows than the limit allows.
RefreshSummary ==
    /\ ctx.pin # NoSeq /\ ctx.text \in {"body", "topics"}
    /\ ~backgroundCompactionRunning
    /\ \E s \in summariesBefore(ctx.pin) :
        attempts' = [attempts EXCEPT !["refresh"] = building(compaction(ctx.pin, ctx, 0), s)]
    /\ UNCHANGED <<first, nextSeq, ctx, queued>>

\* compactAgentThread(agentId, keep, reset): one manual attempt at a time. A
\* full reset summarises every row and does not look for a topic.
compactAgentThread(keep, reset) ==
    /\ messageCount > 0 /\ ~running("manual")
    /\ IF reset \/ keep >= messageCount
       THEN \E s \in summariesBefore(nextSeq) :
              attempts' = [attempts EXCEPT !["manual"] =
                             building(compaction(nextSeq, ctx, keep), s)]
       ELSE \E b \in topicBoundaries(nextSeq - keep, ctx) :
              attempts' = [attempts EXCEPT !["manual"] = compaction(b, ctx, keep)]
    /\ UNCHANGED <<first, nextSeq, ctx, queued>>

CompactManually == \E reset \in BOOLEAN : compactAgentThread(Cap, reset)

\* pruneThreadMessages(threadId, keep, preserveFrom).
pruneThreadMessages(keep, preserveFrom) ==
    first' = IF Cardinality({r \in rows : r < preserveFrom}) > keep THEN preserveFrom ELSE first

\* maybeAutoCompactOversizedThread, while a turn is prepared: prune below a pin
\* that keeps few enough rows, else compact.
RetainNewest ==
    /\ messageCount >= TriggerAt
    /\ IF ctx.pin # NoSeq /\ Cardinality({r \in rows : r >= ctx.pin}) <= Retained
       THEN /\ pruneThreadMessages(Retained, ctx.pin)
            /\ UNCHANGED <<nextSeq, ctx, attempts, queued>>
       ELSE compactAgentThread(Retained, FALSE)

----------------------------------------------------------------------------
(* The steps of a compaction.                                              *)

\* The topic boundary is known: the rows and the stored topics are read again
\* and the recap is asked for.
StartRecap(k) ==
    LET b == attempts[k].boundary IN
    /\ attempts[k].phase = "align" /\ b # NoSeq /\ {b, b - 1} \cap rows # {}
    /\ \E s \in summariesBefore(b) : attempts' = [attempts EXCEPT ![k] = building(@, s)]
    /\ UNCHANGED <<first, nextSeq, ctx, queued>>

\* No topic start, the same boundary as before, a provider error, an unusable
\* recap, a lost compare-and-set, or the deadline: a failed preparation leaves
\* the columns as they are.
EndWithoutCommit(k) ==
    /\ running(k)
    /\ settle(k, attempts, ctx)
    /\ UNCHANGED <<first, nextSeq, ctx>>

\* What commitThreadWarmContext expects of the row: the pin the request was
\* made under, and the recap that was stored when the thread was read.
expected(c) == ctx.pin = c.basePin /\ c.fresh

\* commitThreadWarmContext, with the pruning of a manual compaction. The other
\* attempts' recap is then outdated, unless both texts are blank.
Commit(k) ==
    LET c == attempts[k]
        columns == [pin |-> c.boundary, before |-> c.boundary, recap |-> c.recap, text |-> c.text]
        same == c.text = "blank" /\ ctx.text = "blank"
        others == [i \in Kinds |-> [attempts[i] EXCEPT !.fresh = @ /\ same]]
    IN
    /\ c.phase = "build" /\ expected(c)
    /\ ctx' = columns
    /\ settle(k, [i \in Kinds |-> IF i = k THEN Idle ELSE others[i]], columns)
    /\ IF k = "manual" THEN pruneThreadMessages(c.keep, c.boundary) ELSE UNCHANGED first
    /\ UNCHANGED nextSeq

BoundaryNext ==
    \/ AddMessage
    \/ \E b \in rows : RequestBoundary(b)
    \/ ClearBoundary
    \/ RefreshSummary
    \/ CompactManually
    \/ RetainNewest
    \/ \E k \in Kinds : StartRecap(k) \/ EndWithoutCommit(k) \/ Commit(k)

BoundarySpec == BoundaryInit /\ [][BoundaryNext]_boundaryVars

----------------------------------------------------------------------------
(* Properties.                                                             *)

\* The recap and the hot window meet: at a pin, the recap accounts for exactly
\* the stored rows below it, whatever was committed, merged, rebuilt, cleared
\* or pruned while recaps were being written (buildSummaryBefore).
RecapMeetsHot == ctx.pin # NoSeq => ctx.recap \cap rows = {r \in rows : r < ctx.pin}

\* A boundary requested while another attempt runs is not stranded: the queue
\* empties again and again, though no provider call ever need return
\* (drainQueuedBoundary after a deadline).
QueuedBoundaryServed == []<>(queued = NoSeq)

====
