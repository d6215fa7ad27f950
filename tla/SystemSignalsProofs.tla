---- MODULE SystemSignalsProofs ----
(***************************************************************************)
(* The safety of the durable signals for every set of operations, every    *)
(* number of processes and every bound on attempts, backlog and batches;   *)
(* and that the tables implement SignalOutbox. At the end, the types of    *)
(* the scheduled tasks, whose poll wakes the signals' threads.             *)
(*                                                                         *)
(* The strengthening relates the three tables: an operation has an event   *)
(* and a delivery exactly from its outcome on; a row carries a lease token *)
(* exactly while it is leased, so that a new claim finds a token that no   *)
(* abandoned lease carries; and a batch belongs to the process that runs.  *)
(***************************************************************************)
EXTENDS SystemSignals, ScheduledTriggers, SubsequencesProofs,
        SequenceTheorems, FiniteSetTheorems, FunctionTheorems, TLAPS

\* A delivery carries a token exactly while it is leased, and one that waits
\* may be claimed once more.
DeliveryOK(d) ==
    /\ d.token \in Tokens <=> d.state = "leased"
    /\ d.state = "ready" => d.attempts < MaxAttempts

\* An operation has a delivery from its outcome on.
RowsOK ==
    \A o \in Ops :
        /\ DeliveryOK(delivery[o])
        /\ delivery[o].state = "none" <=> op[o].state \in {"none", "accepted"}

\* An event and its delivery are inserted and deleted together.
JournalOK == Range(journal) = {o \in Ops : delivery[o].state # "none"}

\* The batch of the running turn was leased by the process that runs it.
TurnOK ==
    /\ process = "down" => turn = NoToken /\ instance < MaxInstances
    /\ turn # NoToken => \A o \in batch : delivery[o].holder = instance

\* The signals that count against the backlog, published or to be published.
Pending == Accepted \cup Outstanding
BacklogOK == IsFiniteSet(Pending) /\ Cardinality(Pending) <= MaxBacklog

Inv ==
    /\ TypeOK /\ RowsOK /\ JournalOK /\ CommittedOnce
    /\ BatchStaysLeased /\ TurnOK /\ BacklogOK

\* A claim takes signals that are ready and due.
LEMMA ClaimableDue ==
    ASSUME NEW D, journal \in Seq(Ops), SystemSignalsAssumption
    PROVE  claimable(D) \subseteq {o \in Ops : D[o].state = "ready" /\ D[o].passed}
<1> DEFINE S == {o \in Ops : D[o].state = "ready" /\ D[o].passed}
           due == kept(journal, S)
           n == IF Len(due) < BatchLimit THEN Len(due) ELSE BatchLimit
<1>1. due \in Seq(Ops) /\ Range(due) = Range(journal) \cap S
  BY KeptRange
<1> HIDE DEF due, S
<1>2. Len(due) \in Nat /\ n \in Nat /\ n <= Len(due)
  BY <1>1 DEF SystemSignalsAssumption
<1>3. /\ DOMAIN SubSeq(due, 1, n) = 1..n
      /\ \A i \in 1..n : SubSeq(due, 1, n)[i] = due[i] /\ i \in DOMAIN due
  BY <1>1, <1>2
<1>4. Range(SubSeq(due, 1, n)) \subseteq Range(due)
  BY <1>3 DEF Range
<1> QED
  BY <1>1, <1>4 DEF claimable, due, S

----------------------------------------------------------------------------
(* One row: the ways an operation, its delivery and its receipt may move.  *)

Redelivers(d, e) ==
    \/ e.state = d.state
    \/ d.state \in {"ready", "leased"} /\ e.state \in {"ready", "leased", "dead_letter"}

Stays(o) ==
    /\ op'[o].state = op[o].state /\ receipts'[o] = receipts[o]
    /\ Redelivers(delivery[o], delivery'[o])

Begins(o) ==
    /\ op[o].state = "none" /\ op'[o].state = "accepted"
    /\ receipts'[o] = receipts[o] /\ delivery'[o] = delivery[o]

Publishes(o) ==
    /\ op[o].state \in {"none", "accepted"} /\ op'[o].state \in Concluded
    /\ receipts'[o] = receipts[o]
    /\ delivery[o].state = "none" /\ delivery'[o].state = "ready"

Receives(o) ==
    /\ op'[o].state = op[o].state /\ receipts'[o] = receipts[o] + 1
    /\ delivery[o].state = "leased" /\ delivery'[o].state = "acknowledged"

Prunes(o) ==
    /\ op'[o].state = "none" /\ receipts'[o] = 0
    /\ delivery[o].state = "acknowledged" /\ delivery'[o].state = "none"

RowMoves(o) == Stays(o) \/ Begins(o) \/ Publishes(o) \/ Receives(o) \/ Prunes(o)

\* Rows that move so keep their relations, and follow the edges of SignalOutbox.
LEMMA RowsMove ==
    ASSUME TypeOK, RowsOK, CommittedOnce, TypeOK',
           \A o \in Ops : DeliveryOK(delivery'[o]) /\ RowMoves(o)
    PROVE  RowsOK' /\ CommittedOnce' /\ Outbox!Next
<1>1. ASSUME NEW o \in Ops
      PROVE  /\ op[o].state \in {"none", "accepted"} \cup Concluded
             /\ op'[o].state \in {"none", "accepted"} \cup Concluded
             /\ delivery[o].state \in {"none", "ready", "leased", "acknowledged", "dead_letter"}
             /\ delivery'[o].state \in {"none", "ready", "leased", "acknowledged", "dead_letter"}
             /\ delivery[o].state = "none" <=> op[o].state \in {"none", "accepted"}
             /\ receipts[o] = IF delivery[o].state = "acknowledged" THEN 1 ELSE 0
             /\ DeliveryOK(delivery'[o]) /\ RowMoves(o)
  BY DEF TypeOK, RowsOK, CommittedOnce, OpRows, Deliveries
<1>2. ASSUME NEW o \in Ops
      PROVE  /\ delivery'[o].state = "none" <=> op'[o].state \in {"none", "accepted"}
             /\ receipts'[o] = IF delivery'[o].state = "acknowledged" THEN 1 ELSE 0
  BY <1>1 DEF RowMoves, Stays, Begins, Publishes, Receives, Prunes, Redelivers, Concluded
<1>3. ASSUME NEW o \in Ops
      PROVE  /\ outcome[o] = op[o].state /\ outcome'[o] = op'[o].state
             /\ notice[o] = CASE delivery[o].state = "none" -> "none"
                              [] delivery[o].state \in {"ready", "leased"} -> "pending"
                              [] delivery[o].state = "acknowledged" -> "delivered"
                              [] delivery[o].state = "dead_letter" -> "dead"
             /\ notice'[o] = CASE delivery'[o].state = "none" -> "none"
                               [] delivery'[o].state \in {"ready", "leased"} -> "pending"
                               [] delivery'[o].state = "acknowledged" -> "delivered"
                               [] delivery'[o].state = "dead_letter" -> "dead"
  BY DEF outcome, notice
<1>4. ASSUME NEW o \in Ops
      PROVE  Outbox!Rests(o) \/ Outbox!Moves(o)
  <2>1. CASE Stays(o)
    BY <1>1, <1>3, <2>1 DEF Stays, Redelivers, Outbox!Rests, Outbox!Moves, Outbox!Bury
  <2>2. CASE Begins(o)
    BY <1>1, <1>3, <2>2 DEF Begins, Outbox!Moves, Outbox!Accept
  <2>3. CASE Publishes(o)
    BY <1>1, <1>3, <2>3 DEF Publishes, Outbox!Moves, Outbox!Conclude, Outbox!Concluded, Concluded
  <2>4. CASE Receives(o)
    BY <1>1, <1>3, <2>4 DEF Receives, Outbox!Moves, Outbox!Deliver
  <2>5. CASE Prunes(o)
    BY <1>1, <1>3, <2>5 DEF Prunes, Outbox!Moves, Outbox!Forget
  <2> QED  BY <1>1, <2>1, <2>2, <2>3, <2>4, <2>5 DEF RowMoves
<1>5. outcome' \in [Ops -> Outbox!Outcomes]
  BY <1>1 DEF outcome, Outbox!Outcomes, Outbox!Concluded, Concluded
<1>6. notice' \in [Ops -> Outbox!Notices]
  BY <1>1 DEF notice, Outbox!Notices
<1> QED
  BY <1>1, <1>2, <1>4, <1>5, <1>6 DEF RowsOK, CommittedOnce, Outbox!Next

LEMMA NoDeliveryRow ==
    ASSUME SystemSignalsAssumption
    PROVE  /\ NoDelivery \in Deliveries /\ NoDelivery.state = "none"
           /\ NoDelivery.attempts = 0 /\ NoDelivery.token = NoToken
  BY DEF NoDelivery, Deliveries, SystemSignalsAssumption

\* retryDelivery leaves a delivery without a lease, that waits or is dead.
LEMMA RetriedRow ==
    ASSUME SystemSignalsAssumption, NEW d \in Deliveries
    PROVE  /\ retried(d) \in Deliveries /\ DeliveryOK(retried(d))
           /\ retried(d).state \in {"ready", "dead_letter"}
<1>1. NoDelivery \in Deliveries /\ NoDelivery.token = NoToken
  BY NoDeliveryRow
<1>2. d.attempts \in 0..MaxAttempts /\ MaxAttempts \in Nat /\ NoToken \notin Tokens
  BY DEF SystemSignalsAssumption, Deliveries
<1>3. ASSUME NEW st \in {"ready", "dead_letter"}
      PROVE  LET e == [NoDelivery EXCEPT !.state = st, !.attempts = d.attempts]
             IN  e \in Deliveries /\ e.state = st /\ e.attempts = d.attempts /\ e.token = NoToken
  BY <1>1, <1>2 DEF Deliveries
<1> QED
  BY <1>2, <1>3 DEF DeliveryOK, mayRetry, retried

LEMMA RetryAllRows ==
    ASSUME SystemSignalsAssumption, NEW D \in [Ops -> Deliveries], NEW S,
           \A o \in Ops : DeliveryOK(D[o]),
           \A o \in Ops : o \in S => D[o].state \in {"ready", "leased"}
    PROVE  /\ retryAll(D, S) \in [Ops -> Deliveries]
           /\ \A o \in Ops : /\ DeliveryOK(retryAll(D, S)[o])
                             /\ Redelivers(D[o], retryAll(D, S)[o])
                             /\ o \notin S => retryAll(D, S)[o] = D[o]
                             /\ o \in S => retryAll(D, S)[o].state \in {"ready", "dead_letter"}
<1>1. ASSUME NEW o \in Ops
      PROVE  /\ retried(D[o]) \in Deliveries /\ DeliveryOK(retried(D[o]))
             /\ retried(D[o]).state \in {"ready", "dead_letter"}
  BY RetriedRow
<1> QED
  BY <1>1 DEF retryAll, Redelivers

\* A failed wake-up charges ready rows only.
LEMMA DeferredRows ==
    ASSUME SystemSignalsAssumption, NEW D \in [Ops -> Deliveries], \A o \in Ops : DeliveryOK(D[o])
    PROVE  /\ deferred(D) \in [Ops -> Deliveries]
           /\ \A o \in Ops : /\ DeliveryOK(deferred(D)[o])
                             /\ Redelivers(D[o], deferred(D)[o])
                             /\ D[o].state # "ready" => deferred(D)[o] = D[o]
<1>1. ASSUME NEW o \in Ops, D[o].state = "ready"
      PROVE  LET e == retried([D[o] EXCEPT !.attempts = @ + 1])
             IN  e \in Deliveries /\ DeliveryOK(e) /\ e.state \in {"ready", "dead_letter"}
  <2>1. D[o].attempts \in 0..MaxAttempts /\ D[o].attempts < MaxAttempts /\ MaxAttempts \in Nat
    BY <1>1 DEF DeliveryOK, Deliveries, SystemSignalsAssumption
  <2>2. [D[o] EXCEPT !.attempts = @ + 1] \in Deliveries
    BY <2>1 DEF Deliveries
  <2> QED  BY <2>2, RetriedRow
<1>2. ASSUME NEW o \in Ops
      PROVE  deferred(D)[o] = IF o \in WakeEligible /\ D[o].state = "ready" /\ D[o].passed
                              THEN retried([D[o] EXCEPT !.attempts = @ + 1]) ELSE D[o]
  BY DEF deferred
<1>3. ASSUME NEW o \in Ops
      PROVE  /\ deferred(D)[o] \in Deliveries /\ DeliveryOK(deferred(D)[o])
             /\ Redelivers(D[o], deferred(D)[o])
             /\ D[o].state # "ready" => deferred(D)[o] = D[o]
  BY <1>1, <1>2 DEF Redelivers
<1>4. deferred(D) = [o \in Ops |-> deferred(D)[o]]
  BY DEF deferred
<1> QED
  BY <1>3, <1>4

----------------------------------------------------------------------------
(* The backlog and the tokens.                                             *)

LEMMA BacklogShrinks ==
    ASSUME BacklogOK, Pending' \subseteq Pending, MaxBacklog \in Nat
    PROVE  BacklogOK'
<1>1. /\ IsFiniteSet(Pending') /\ Cardinality(Pending') <= Cardinality(Pending)
      /\ Cardinality(Pending') \in Nat /\ Cardinality(Pending) \in Nat
  BY FS_Subset, FS_CardinalityType DEF BacklogOK
<1> QED
  BY <1>1 DEF BacklogOK

\* beginSystemOperation and emitSystemSignal leave room for what they add.
LEMMA BacklogGrows ==
    ASSUME BacklogOK, reserved < MaxBacklog, MaxBacklog \in Nat,
           NEW o, Pending' \subseteq Pending \cup {o}
    PROVE  BacklogOK'
<1>1. IsFiniteSet(Accepted) /\ IsFiniteSet(Outstanding) /\ IsFiniteSet(Pending)
  BY FS_Subset DEF BacklogOK, Pending
<1>2. /\ Cardinality(Accepted) \in Nat /\ Cardinality(Outstanding) \in Nat
      /\ Cardinality(Accepted \cap Outstanding) \in Nat
      /\ Cardinality(Pending) = Cardinality(Accepted) + Cardinality(Outstanding)
                                  - Cardinality(Accepted \cap Outstanding)
  <2>1. IsFiniteSet(Accepted \cap Outstanding)
    BY <1>1, FS_Subset
  <2> QED  BY <1>1, <2>1, FS_Union, FS_CardinalityType DEF Pending
<1>3. Cardinality(Pending) <= reserved
  BY <1>2 DEF reserved
<1>4. /\ IsFiniteSet(Pending \cup {o})
      /\ Cardinality(Pending \cup {o}) <= Cardinality(Pending) + 1
      /\ Cardinality(Pending) \in Nat /\ Cardinality(Pending \cup {o}) \in Nat
  <2>1. Cardinality(Pending) \in Nat
    BY <1>1, FS_CardinalityType
  <2>2. /\ IsFiniteSet(Pending \cup {o})
        /\ Cardinality(Pending \cup {o})
             = IF o \in Pending THEN Cardinality(Pending) ELSE Cardinality(Pending) + 1
    BY <1>1, FS_AddElement
  <2> QED  BY <2>1, <2>2
<1>5. /\ IsFiniteSet(Pending') /\ Cardinality(Pending') \in Nat
      /\ Cardinality(Pending') <= Cardinality(Pending \cup {o})
  BY <1>4, FS_Subset, FS_CardinalityType
<1>6. reserved \in Nat
  BY <1>2 DEF reserved
<1> QED
  BY <1>3, <1>4, <1>5, <1>6 DEF BacklogOK

\* No abandoned lease carries the token of a new claim.
LEMMA FreshToken ==
    ASSUME SystemSignalsAssumption, TypeOK, RowsOK, BacklogOK
    PROVE  fresh \in Tokens /\ \A o \in Ops : delivery[o].token # fresh
<1>1. IsFiniteSet(Outstanding) /\ Cardinality(Outstanding) < Cardinality(Tokens)
  <2>1. /\ IsFiniteSet(Outstanding) /\ Cardinality(Outstanding) <= Cardinality(Pending)
        /\ Cardinality(Outstanding) \in Nat /\ Cardinality(Pending) \in Nat
    BY FS_Subset, FS_CardinalityType DEF BacklogOK, Pending
  <2>2. Cardinality(Tokens) \in Nat
    BY FS_CardinalityType DEF SystemSignalsAssumption
  <2> QED  BY <2>1, <2>2 DEF BacklogOK, SystemSignalsAssumption
<1>2. \E token \in Tokens : \A o \in Ops : delivery[o].token # token
  <2>1. SUFFICES ASSUME \A token \in Tokens : \E o \in Ops : delivery[o].token = token
                 PROVE  FALSE
    OBVIOUS
  <2> DEFINE carrier == [token \in Tokens |-> CHOOSE o \in Ops : delivery[o].token = token]
  <2>2. ASSUME NEW token \in Tokens
        PROVE  carrier[token] \in Outstanding /\ delivery[carrier[token]].token = token
    <3>1. carrier[token] \in Ops /\ delivery[carrier[token]].token = token
      BY <2>1
    <3> QED  BY <3>1 DEF Outstanding, RowsOK, DeliveryOK
  <2> HIDE DEF carrier
  <2>3. carrier \in [Tokens -> Outstanding]
    BY <2>2 DEF carrier
  <2>4. PICK t, u \in Tokens : t # u /\ carrier[t] = carrier[u]
    BY <1>1, <2>3, FS_PigeonHole DEF SystemSignalsAssumption
  <2> QED  BY <2>2, <2>4
<1> QED
  BY <1>2 DEF fresh

----------------------------------------------------------------------------
(* The steps that only move deliveries.                                    *)

LEMMA RedeliveryStep ==
    ASSUME SystemSignalsAssumption, Inv, UNCHANGED <<op, journal, receipts>>,
           delivery' \in [Ops -> Deliveries],
           \A o \in Ops : DeliveryOK(delivery'[o]) /\ Redelivers(delivery[o], delivery'[o]),
           process' \in {"down", "booting", "reconciling", "up"}, instance' \in 1..MaxInstances,
           turn' \in Tokens \cup {NoToken}, batch' \subseteq Ops,
           waking' \in {"no", "queued", "running"},
           BatchStaysLeased', TurnOK'
    PROVE  Inv' /\ Outbox!Next
<1>1. TypeOK'
  BY DEF Inv, TypeOK
<1>2. RowsOK' /\ CommittedOnce' /\ Outbox!Next
  BY <1>1, RowsMove DEF Inv, RowMoves, Stays
<1>3. \A o \in Ops : delivery'[o].state = "none" <=> delivery[o].state = "none"
  BY DEF Redelivers
<1>4. JournalOK'
  BY <1>3 DEF Inv, JournalOK
<1>5. Pending' \subseteq Pending
  BY DEF Pending, Accepted, Outstanding, Redelivers
<1>6. BacklogOK'
  BY <1>5, BacklogShrinks DEF Inv, SystemSignalsAssumption
<1> QED
  BY <1>1, <1>2, <1>4, <1>6 DEF Inv

LEMMA ClaimStep ==
    ASSUME SystemSignalsAssumption, Inv, NEW asWakeUp \in BOOLEAN, Claim(asWakeUp)
    PROVE  Inv' /\ Outbox!Next
<1> DEFINE E == {o \in Ops : expired(delivery[o])}
           S == claimable(swept)
           lease(d) == [d EXCEPT !.state = "leased", !.attempts = @ + 1, !.passed = FALSE,
                                 !.token = fresh, !.holder = instance]
<1>1. /\ fresh \in Tokens /\ \A o \in Ops : delivery[o].token # fresh
  BY FreshToken DEF Inv
<1>2. /\ swept \in [Ops -> Deliveries]
      /\ \A o \in Ops : /\ DeliveryOK(swept[o]) /\ Redelivers(delivery[o], swept[o])
                        /\ o \notin E => swept[o] = delivery[o]
                        /\ o \in E => swept[o].state \in {"ready", "dead_letter"}
  <2>1. \A o \in Ops : DeliveryOK(delivery[o]) /\ (o \in E => delivery[o].state \in {"ready", "leased"})
    BY DEF Inv, RowsOK, expired
  <2>2. delivery \in [Ops -> Deliveries]
    BY DEF Inv, TypeOK
  <2> QED  BY <2>1, <2>2, RetryAllRows DEF swept
<1>3. S \subseteq {o \in Ops : swept[o].state = "ready"}
  BY ClaimableDue DEF Inv, TypeOK
<1>4. /\ Serving /\ turn = NoToken
      /\ delivery' = [o \in Ops |-> IF o \in S THEN lease(swept[o]) ELSE swept[o]]
      /\ turn' = IF S = {} THEN NoToken ELSE fresh
      /\ batch' = S
      /\ waking' = IF ~asWakeUp THEN waking ELSE IF S = {} THEN "no" ELSE "running"
      /\ UNCHANGED <<process, instance, op, journal, receipts>>
  BY DEF Claim, processVars
<1>5. ASSUME NEW o \in S
      PROVE  /\ lease(swept[o]) \in Deliveries /\ lease(swept[o]).state = "leased"
             /\ lease(swept[o]).token = fresh /\ lease(swept[o]).holder = instance
  <2>1. /\ swept[o] \in Deliveries /\ swept[o].attempts + 1 \in 0..MaxAttempts
        /\ instance \in 0..MaxInstances
    BY <1>2, <1>3, <1>5 DEF DeliveryOK, Deliveries, Inv, TypeOK, SystemSignalsAssumption
  <2> QED  BY <1>1, <2>1 DEF Deliveries
<1> HIDE DEF S, E, lease
<1>6. ASSUME NEW o \in Ops
      PROVE  /\ delivery'[o] = IF o \in S THEN lease(swept[o]) ELSE swept[o]
             /\ delivery'[o] \in Deliveries /\ DeliveryOK(delivery'[o])
             /\ Redelivers(delivery[o], delivery'[o])
  <2>1. delivery'[o] = IF o \in S THEN lease(swept[o]) ELSE swept[o]
    BY <1>4
  <2>2. CASE o \in S
    <3>1. delivery[o].state \in {"ready", "leased"}
      BY <1>2, <1>3, <2>2 DEF Redelivers
    <3> QED  BY <1>1, <1>5, <2>1, <2>2, <3>1 DEF Redelivers, DeliveryOK
  <2>3. CASE o \notin S
    BY <1>2, <2>1, <2>3
  <2> QED  BY <2>1, <2>2, <2>3
<1>7. delivery' \in [Ops -> Deliveries]
  BY <1>4, <1>6
<1>8. BatchStaysLeased'
  <2>1. SUFFICES ASSUME turn' # NoToken, NEW o \in Ops
                 PROVE  (delivery'[o].state = "leased" /\ delivery'[o].token = turn') <=> o \in batch'
    BY <1>3, <1>4 DEF BatchStaysLeased, Leased
  <2>2. turn' = fresh /\ batch' = S
    BY <1>4, <2>1
  <2>3. CASE o \in S
    BY <1>5, <1>6, <2>2, <2>3
  <2>4. CASE o \notin S
    BY <1>1, <1>2, <1>6, <2>2, <2>4
  <2> QED  BY <2>3, <2>4
<1>9. TurnOK'
  BY <1>3, <1>4, <1>5, <1>6 DEF TurnOK, Serving
<1> QED
  BY <1>1, <1>3, <1>4, <1>6, <1>7, <1>8, <1>9, RedeliveryStep DEF Inv, TypeOK

LEMMA PassStep ==
    ASSUME SystemSignalsAssumption, Inv, NEW o \in Ops, Pass(o)
    PROVE  Inv' /\ Outbox!Next
<1>1. /\ delivery \in [Ops -> Deliveries]
      /\ delivery' = [delivery EXCEPT ![o].passed = TRUE]
      /\ UNCHANGED <<process, instance, op, journal, receipts, turn, batch, waking>>
  BY DEF Pass, Inv, TypeOK, processVars, turnVars
<1>2. /\ delivery' \in [Ops -> Deliveries]
      /\ \A p \in Ops : /\ delivery'[p].state = delivery[p].state
                        /\ delivery'[p].attempts = delivery[p].attempts
                        /\ delivery'[p].token = delivery[p].token
                        /\ delivery'[p].holder = delivery[p].holder
  <2> DEFINE d == delivery[o]
             x == [d EXCEPT !.passed = TRUE]
  <2>1. d \in Deliveries
    BY <1>1
  <2> HIDE DEF d
  <2>2. /\ x \in Deliveries /\ x.state = d.state /\ x.attempts = d.attempts
        /\ x.token = d.token /\ x.holder = d.holder
    BY <2>1 DEF Deliveries
  <2> HIDE DEF x
  <2>3. delivery' = [delivery EXCEPT ![o] = x]
    BY <1>1 DEF x, d
  <2> QED  BY <1>1, <2>2, <2>3 DEF d
<1>3. \A p \in Ops : DeliveryOK(delivery'[p]) /\ Redelivers(delivery[p], delivery'[p])
  BY <1>2 DEF Inv, RowsOK, DeliveryOK, Redelivers
<1>4. BatchStaysLeased' /\ TurnOK'
  BY <1>1, <1>2 DEF Inv, TypeOK, BatchStaysLeased, TurnOK, Leased
<1> QED
  BY <1>1, <1>2, <1>3, <1>4, RedeliveryStep DEF Inv, TypeOK

\* Reading and deciding, without a change to the tables.
LEMMA TablesStay ==
    ASSUME SystemSignalsAssumption, Inv, UNCHANGED storeVars,
           process' \in {"down", "booting", "reconciling", "up"}, instance' \in 1..MaxInstances,
           turn' \in Tokens \cup {NoToken}, batch' \subseteq Ops,
           waking' \in {"no", "queued", "running"},
           BatchStaysLeased', TurnOK'
    PROVE  Inv' /\ Outbox!Next
<1>1. UNCHANGED <<op, journal, delivery, receipts>> /\ delivery' \in [Ops -> Deliveries]
  BY DEF storeVars, Inv, TypeOK
<1>2. \A o \in Ops : DeliveryOK(delivery'[o]) /\ Redelivers(delivery[o], delivery'[o])
  BY <1>1 DEF Inv, RowsOK, Redelivers
<1> QED
  BY <1>1, <1>2, RedeliveryStep

LEMMA ProcessStep ==
    ASSUME SystemSignalsAssumption, Inv, Dispatch \/ Crash \/ Boot \/ Reconcile
    PROVE  Inv' /\ Outbox!Next
<1>1. CASE Dispatch
  BY <1>1, TablesStay DEF Dispatch, processVars, storeVars, Inv, TypeOK, BatchStaysLeased, Leased, TurnOK
<1>2. CASE Crash
  BY <1>2, TablesStay DEF Crash, storeVars, Inv, TypeOK, BatchStaysLeased, TurnOK
<1>3. CASE Boot
  <2>1. turn = NoToken /\ instance' = instance + 1 /\ instance' \in 1..MaxInstances
    BY <1>3 DEF Boot, Inv, TypeOK, TurnOK, SystemSignalsAssumption
  <2> QED  BY <1>3, <2>1, TablesStay DEF Boot, storeVars, turnVars, Inv, TypeOK, BatchStaysLeased, TurnOK
<1>4. CASE Reconcile
  BY <1>4, TablesStay DEF Reconcile, storeVars, turnVars, Inv, TypeOK, BatchStaysLeased, Leased, TurnOK
<1> QED  BY <1>1, <1>2, <1>3, <1>4

\* Whatever over does to the deliveries, they are those of D or fewer wait.
LEMMA OverRows ==
    ASSUME SystemSignalsAssumption, NEW D \in [Ops -> Deliveries], NEW threw \in BOOLEAN,
           \A o \in Ops : DeliveryOK(D[o]), over(D, threw)
    PROVE  /\ delivery' \in [Ops -> Deliveries]
           /\ \A o \in Ops : DeliveryOK(delivery'[o]) /\ Redelivers(D[o], delivery'[o])
<1>1. CASE waking = "running" /\ threw
  <2>1. delivery' = deferred(D)
    BY <1>1 DEF over
  <2> QED  BY <2>1, DeferredRows
<1>2. CASE ~(waking = "running" /\ threw)
  <2>1. delivery' = D
    BY <1>2 DEF over
  <2> QED  BY <2>1 DEF Redelivers
<1> QED  BY <1>1, <1>2

LEMMA TurnEndsStep ==
    ASSUME SystemSignalsAssumption, Inv, NEW threw \in BOOLEAN, FailTurn(threw) \/ LeakTurn
    PROVE  Inv' /\ Outbox!Next
<1>1. delivery \in [Ops -> Deliveries] /\ \A o \in Ops : DeliveryOK(delivery[o])
  BY DEF Inv, TypeOK, RowsOK
<1>2. PICK D \in [Ops -> Deliveries], t \in BOOLEAN :
        /\ over(D, t)
        /\ \A o \in Ops : DeliveryOK(D[o]) /\ Redelivers(delivery[o], D[o])
  <2>1. CASE FailTurn(threw)
    <3>1. /\ released \in [Ops -> Deliveries]
          /\ \A o \in Ops : DeliveryOK(released[o]) /\ Redelivers(delivery[o], released[o])
      BY <1>1, RetryAllRows DEF released, Leased
    <3> QED  BY <2>1, <3>1 DEF FailTurn
  <2>2. CASE LeakTurn
    BY <1>1, <2>2 DEF LeakTurn, Redelivers
  <2> QED  BY <2>1, <2>2
<1>3. /\ delivery' \in [Ops -> Deliveries]
      /\ \A o \in Ops : DeliveryOK(delivery'[o]) /\ Redelivers(D[o], delivery'[o])
  BY <1>2, OverRows
<1>4. \A o \in Ops : Redelivers(delivery[o], delivery'[o])
  BY <1>2, <1>3 DEF Redelivers
<1>5. /\ turn' = NoToken /\ batch' = {} /\ waking' = IF waking = "running" THEN "no" ELSE waking
      /\ UNCHANGED <<process, instance, op, journal, receipts>> /\ Serving
  BY <1>2 DEF over, FailTurn, LeakTurn, processVars
<1>6. BatchStaysLeased' /\ TurnOK'
  BY <1>5 DEF BatchStaysLeased, TurnOK, Serving
<1> QED
  BY <1>3, <1>4, <1>5, <1>6, RedeliveryStep DEF Inv, TypeOK

LEMMA WakeFailsStep ==
    ASSUME SystemSignalsAssumption, Inv, WakeFails
    PROVE  Inv' /\ Outbox!Next
<1>1. /\ delivery' = deferred(delivery) /\ waking' = "no"
      /\ UNCHANGED <<process, instance, op, journal, receipts, turn, batch>>
  BY DEF WakeFails, processVars
<1>2. /\ delivery' \in [Ops -> Deliveries]
      /\ \A o \in Ops : /\ DeliveryOK(delivery'[o]) /\ Redelivers(delivery[o], delivery'[o])
                        /\ delivery[o].state # "ready" => delivery'[o] = delivery[o]
  BY <1>1, DeferredRows DEF Inv, TypeOK, RowsOK
<1>3. \A o \in Ops : delivery[o].state = "ready" => delivery[o].token \notin Tokens
  BY DEF Inv, RowsOK, DeliveryOK
<1>4. \A o \in Ops : delivery[o].state = "ready" => delivery'[o].state # "leased"
  BY <1>1 DEF deferred, retried, NoDelivery
<1>5. BatchStaysLeased'
  BY <1>1, <1>2, <1>4 DEF Inv, TypeOK, BatchStaysLeased, Leased
<1>6. TurnOK'
  BY <1>1, <1>2 DEF Inv, BatchStaysLeased, Leased, TurnOK
<1> QED
  BY <1>1, <1>2, <1>5, <1>6, RedeliveryStep DEF Inv, TypeOK

----------------------------------------------------------------------------
(* The steps that record outcomes.                                         *)

LEMMA BeginStep ==
    ASSUME SystemSignalsAssumption, Inv, NEW o \in Ops, Begin(o)
    PROVE  Inv' /\ Outbox!Next
<1>1. /\ op[o].state = "none" /\ reserved < MaxBacklog
      /\ op' = [op EXCEPT ![o] = [state |-> "accepted", origin |-> instance]]
      /\ UNCHANGED <<process, instance, journal, delivery, receipts, turn, batch, waking>>
  BY DEF Begin, processVars, turnVars
<1>2. /\ TypeOK'
      /\ op'[o].state = "accepted"
      /\ \A p \in Ops : p # o => op'[p] = op[p]
  BY <1>1 DEF Inv, TypeOK, OpRows, SystemSignalsAssumption
<1>3. \A p \in Ops : DeliveryOK(delivery'[p]) /\ RowMoves(p)
  BY <1>1, <1>2 DEF Inv, RowsOK, RowMoves, Begins, Stays, Redelivers
<1>4. RowsOK' /\ CommittedOnce' /\ Outbox!Next
  BY <1>2, <1>3, RowsMove DEF Inv
<1>5. Pending' \subseteq Pending \cup {o}
  BY <1>1, <1>2 DEF Pending, Accepted, Outstanding
<1>6. BacklogOK'
  BY <1>1, <1>5, BacklogGrows DEF Inv, SystemSignalsAssumption
<1>7. JournalOK' /\ BatchStaysLeased' /\ TurnOK'
  BY <1>1 DEF Inv, JournalOK, BatchStaysLeased, Leased, TurnOK
<1> QED
  BY <1>2, <1>4, <1>6, <1>7 DEF Inv

\* publish of a signal without an event: what it does to the tables and to the
\* running turn, which it leaves alone.
LEMMA PublishRows ==
    ASSUME SystemSignalsAssumption, Inv, NEW o \in Ops, delivery[o].state = "none",
           journal' = Append(journal, o), delivery' = published(o),
           UNCHANGED <<process, instance, turn, batch>>
    PROVE  /\ journal' \in Seq(Ops) /\ delivery' \in [Ops -> Deliveries]
           /\ JournalOK' /\ BatchStaysLeased' /\ TurnOK'
           /\ delivery'[o].state = "ready"
           /\ \A p \in Ops : DeliveryOK(delivery'[p]) /\ (p # o => delivery'[p] = delivery[p])
<1> DEFINE e == [NoDelivery EXCEPT !.state = "ready", !.passed = TRUE]
<1>1. /\ e \in Deliveries /\ e.state = "ready" /\ e.attempts = 0 /\ e.token = NoToken
  BY NoDeliveryRow DEF Deliveries
<1>2. delivery \in [Ops -> Deliveries] /\ journal \in Seq(Ops) /\ batch \subseteq Ops
  BY DEF Inv, TypeOK
<1>3. delivery' = [delivery EXCEPT ![o] = e]
  BY DEF published
<1> HIDE DEF e
<1>4. /\ delivery' \in [Ops -> Deliveries] /\ delivery'[o] = e
      /\ \A p \in Ops : p # o => delivery'[p] = delivery[p]
  BY <1>1, <1>2, <1>3
<1>5. DeliveryOK(e)
  BY <1>1 DEF DeliveryOK, SystemSignalsAssumption
<1>6. \A p \in Ops : DeliveryOK(delivery'[p])
  BY <1>4, <1>5 DEF Inv, RowsOK
<1>7. journal' \in Seq(Ops) /\ Range(journal') = Range(journal) \cup {o}
  BY <1>2, AppendRange
<1>8. JournalOK'
  BY <1>1, <1>4, <1>7 DEF Inv, JournalOK
<1>9. BatchStaysLeased'
  BY <1>1, <1>4 DEF Inv, BatchStaysLeased, Leased
<1>10. TurnOK'
  BY <1>4 DEF Inv, BatchStaysLeased, Leased, TurnOK
<1> QED
  BY <1>1, <1>4, <1>6, <1>7, <1>8, <1>9, <1>10

LEMMA EmitStep ==
    ASSUME SystemSignalsAssumption, Inv, NEW o \in Ops, Emit(o)
    PROVE  Inv' /\ Outbox!Next
<1>1. /\ op[o].state = "none" /\ reserved < MaxBacklog
      /\ op' = [op EXCEPT ![o] = [state |-> "completed", origin |-> instance]]
      /\ journal' = Append(journal, o) /\ delivery' = published(o)
      /\ UNCHANGED <<process, instance, receipts, turn, batch, waking>>
  BY DEF Emit, processVars, turnVars
<1>2. delivery[o].state = "none"
  BY <1>1 DEF Inv, RowsOK
<1>3. /\ journal' \in Seq(Ops) /\ delivery' \in [Ops -> Deliveries]
      /\ JournalOK' /\ BatchStaysLeased' /\ TurnOK' /\ delivery'[o].state = "ready"
      /\ \A p \in Ops : DeliveryOK(delivery'[p]) /\ (p # o => delivery'[p] = delivery[p])
  BY <1>1, <1>2, PublishRows
<1>4. /\ TypeOK'
      /\ op'[o].state = "completed"
      /\ \A p \in Ops : p # o => op'[p] = op[p]
  <2>1. op \in [Ops -> OpRows] /\ instance \in 0..MaxInstances
    BY DEF Inv, TypeOK, SystemSignalsAssumption
  <2>2. [state |-> "completed", origin |-> instance] \in OpRows
    BY <2>1 DEF OpRows, Concluded
  <2>3. op' \in [Ops -> OpRows]
    BY <1>1, <2>1, <2>2
  <2>4. TypeOK'
    BY <1>1, <1>3, <2>3 DEF Inv, TypeOK
  <2> QED  BY <1>1, <2>1, <2>4
<1>5. \A p \in Ops : RowMoves(p)
  BY <1>1, <1>2, <1>3, <1>4 DEF RowMoves, Publishes, Stays, Redelivers, Concluded
<1>6. RowsOK' /\ CommittedOnce' /\ Outbox!Next
  BY <1>3, <1>4, <1>5, RowsMove DEF Inv
<1>7. Pending' \subseteq Pending \cup {o}
  BY <1>3, <1>4 DEF Pending, Accepted, Outstanding
<1>8. BacklogOK'
  BY <1>1, <1>7, BacklogGrows DEF Inv, SystemSignalsAssumption
<1> QED
  BY <1>3, <1>4, <1>6, <1>8 DEF Inv

\* finishSystemOperation, by the process itself or while it reconciles.
LEMMA FinishStep ==
    ASSUME SystemSignalsAssumption, Inv, NEW o \in Ops, NEW state \in Concluded, finish(o, state)
    PROVE  Inv' /\ Outbox!Next
<1>1. /\ op[o].state = "accepted" /\ publish(o)
      /\ op' = [op EXCEPT ![o].state = state]
      /\ UNCHANGED <<process, instance, receipts, turn, batch, waking>>
  BY DEF finish, unsettled, processVars, turnVars
<1>2. delivery[o].state = "none" /\ o \notin Range(journal)
  BY <1>1 DEF Inv, RowsOK, JournalOK
<1>3. journal' = Append(journal, o) /\ delivery' = published(o)
  BY <1>1, <1>2 DEF publish
<1>4. /\ journal' \in Seq(Ops) /\ delivery' \in [Ops -> Deliveries]
      /\ JournalOK' /\ BatchStaysLeased' /\ TurnOK' /\ delivery'[o].state = "ready"
      /\ \A p \in Ops : DeliveryOK(delivery'[p]) /\ (p # o => delivery'[p] = delivery[p])
  BY <1>1, <1>2, <1>3, PublishRows
<1>5. /\ TypeOK'
      /\ op'[o].state = state
      /\ \A p \in Ops : p # o => op'[p] = op[p]
  BY <1>1, <1>4 DEF Inv, TypeOK, OpRows, SystemSignalsAssumption
<1>6. \A p \in Ops : RowMoves(p)
  BY <1>1, <1>2, <1>4, <1>5 DEF RowMoves, Publishes, Stays, Redelivers
<1>7. RowsOK' /\ CommittedOnce' /\ Outbox!Next
  BY <1>4, <1>5, <1>6, RowsMove DEF Inv
<1>8. Pending' \subseteq Pending
  BY <1>1, <1>4, <1>5 DEF Pending, Accepted, Outstanding, Concluded
<1>9. BacklogOK'
  BY <1>8, BacklogShrinks DEF Inv, SystemSignalsAssumption
<1> QED
  BY <1>4, <1>5, <1>7, <1>9 DEF Inv

----------------------------------------------------------------------------
(* The steps that acknowledge and prune.                                   *)

\* What the prune leaves of D, in which what was prunable still is.
LEMMA PruneRows ==
    ASSUME SystemSignalsAssumption, TypeOK, JournalOK, NEW D \in [Ops -> Deliveries],
           \A o \in Ops : DeliveryOK(D[o])
    PROVE  /\ prunedDelivery(D) \in [Ops -> Deliveries]
           /\ prunedOps \in [Ops -> OpRows]
           /\ prunedJournal \in Seq(Ops)
           /\ Range(prunedJournal) = {o \in Ops : delivery[o].state # "none"} \ prunable
           /\ \A o \in Ops : /\ DeliveryOK(prunedDelivery(D)[o])
                             /\ o \in prunable =>
                                  prunedDelivery(D)[o] = NoDelivery /\ prunedOps[o] = NoOp
                             /\ o \notin prunable =>
                                  prunedDelivery(D)[o] = D[o] /\ prunedOps[o] = op[o]
<1>1. NoDelivery \in Deliveries /\ DeliveryOK(NoDelivery) /\ NoOp \in OpRows
  BY DEF NoDelivery, Deliveries, DeliveryOK, NoOp, OpRows, SystemSignalsAssumption
<1>2. op \in [Ops -> OpRows] /\ journal \in Seq(Ops)
  BY DEF TypeOK
<1>3. prunedJournal \in Seq(Ops) /\ Range(prunedJournal) = Range(journal) \cap (Ops \ prunable)
  BY <1>2, KeptRange DEF prunedJournal
<1> QED
  BY <1>1, <1>2, <1>3 DEF prunedDelivery, prunedOps, JournalOK

LEMMA CommitStep ==
    ASSUME SystemSignalsAssumption, Inv, Commit
    PROVE  Inv' /\ Outbox!Next
<1> DEFINE D == acknowledged(delivery)
<1>1. /\ Serving /\ turn # NoToken
      /\ delivery' = prunedDelivery(D) /\ op' = prunedOps /\ journal' = prunedJournal
      /\ turn' = NoToken /\ batch' = {} /\ waking' = IF waking = "running" THEN "no" ELSE waking
      /\ receipts' = [o \in Ops |->
                        IF o \in prunable THEN 0
                        ELSE IF o \in batch /\ receipts[o] < 2 THEN receipts[o] + 1
                        ELSE receipts[o]]
      /\ UNCHANGED <<process, instance>>
  BY DEF Commit, over, processVars
<1>2. \A o \in batch : o \in Ops /\ delivery[o].state = "leased"
  BY <1>1 DEF Inv, BatchStaysLeased, Leased
<1>3. ASSUME NEW o \in Ops
      PROVE  /\ D[o] \in Deliveries /\ DeliveryOK(D[o])
             /\ D[o].state = IF o \in batch THEN "acknowledged" ELSE delivery[o].state
  <2>1. delivery[o] \in Deliveries /\ DeliveryOK(delivery[o])
    BY DEF Inv, TypeOK, RowsOK
  <2>2. LET e == [NoDelivery EXCEPT !.state = "acknowledged", !.attempts = delivery[o].attempts]
        IN  e \in Deliveries /\ e.state = "acknowledged" /\ e.token = NoToken
    BY <2>1, NoDeliveryRow DEF Deliveries
  <2> QED  BY <2>1, <2>2 DEF acknowledged, DeliveryOK, SystemSignalsAssumption
<1>4. D \in [Ops -> Deliveries]
  BY <1>3 DEF acknowledged
<1> HIDE DEF D
<1>5. /\ delivery' \in [Ops -> Deliveries] /\ op' \in [Ops -> OpRows] /\ journal' \in Seq(Ops)
      /\ Range(journal') = {o \in Ops : delivery[o].state # "none"} \ prunable
      /\ \A o \in Ops : /\ DeliveryOK(delivery'[o])
                        /\ o \in prunable => delivery'[o] = NoDelivery /\ op'[o] = NoOp
                        /\ o \notin prunable => delivery'[o] = D[o] /\ op'[o] = op[o]
  BY <1>1, <1>3, <1>4, PruneRows DEF Inv
<1>6. ASSUME NEW o \in Ops
      PROVE  /\ receipts[o] \in 0..1
             /\ receipts'[o] = IF o \in prunable THEN 0
                              ELSE IF o \in batch THEN receipts[o] + 1 ELSE receipts[o]
  BY <1>1 DEF Inv, CommittedOnce
<1>7. receipts' \in [Ops -> 0..2]
  <2>1. \A o \in Ops : receipts'[o] \in 0..2
    BY <1>6
  <2> QED  BY <1>1, <2>1
<1>8. TypeOK'
  BY <1>1, <1>5, <1>7 DEF Inv, TypeOK
<1>9. ASSUME NEW o \in Ops
      PROVE  RowMoves(o)
  <2>1. CASE o \in prunable
    BY <1>5, <1>6, <2>1 DEF prunable, RowMoves, Prunes, NoDelivery, NoOp
  <2>2. CASE o \notin prunable /\ o \in batch
    BY <1>2, <1>3, <1>5, <1>6, <2>2 DEF RowMoves, Receives
  <2>3. CASE o \notin prunable /\ o \notin batch
    BY <1>3, <1>5, <1>6, <2>3 DEF RowMoves, Stays, Redelivers
  <2> QED  BY <2>1, <2>2, <2>3
<1>10. RowsOK' /\ CommittedOnce' /\ Outbox!Next
  BY <1>5, <1>8, <1>9, RowsMove DEF Inv
<1>11. JournalOK'
  <2>1. \A o \in Ops : delivery'[o].state # "none" <=> delivery[o].state # "none" /\ o \notin prunable
    BY <1>2, <1>3, <1>5 DEF NoDelivery
  <2> QED  BY <1>5, <2>1 DEF JournalOK
<1>12. BacklogOK'
  <2>1. Pending' \subseteq Pending
    BY <1>3, <1>5 DEF Pending, Accepted, Outstanding, NoOp, NoDelivery
  <2> QED  BY <2>1, BacklogShrinks DEF Inv, SystemSignalsAssumption
<1>13. BatchStaysLeased' /\ TurnOK'
  BY <1>1 DEF BatchStaysLeased, TurnOK, Serving
<1> QED
  BY <1>8, <1>10, <1>11, <1>12, <1>13 DEF Inv

LEMMA ReconciledStep ==
    ASSUME SystemSignalsAssumption, Inv, Reconciled
    PROVE  Inv' /\ Outbox!Next
<1> DEFINE D == retryAll(delivery, staleLeases)
<1>1. /\ process' = "up"
      /\ delivery' = prunedDelivery(D) /\ op' = prunedOps /\ journal' = prunedJournal
      /\ receipts' = [o \in Ops |-> IF o \in prunable THEN 0 ELSE receipts[o]]
      /\ UNCHANGED <<instance, turn, batch, waking>>
  BY DEF Reconciled, turnVars
<1>2. /\ D \in [Ops -> Deliveries]
      /\ \A o \in Ops : /\ DeliveryOK(D[o]) /\ Redelivers(delivery[o], D[o])
                        /\ o \notin staleLeases => D[o] = delivery[o]
                        /\ o \in staleLeases => D[o].state \in {"ready", "dead_letter"}
  BY RetryAllRows DEF Inv, TypeOK, RowsOK, staleLeases
<1> HIDE DEF D
<1>3. /\ delivery' \in [Ops -> Deliveries] /\ op' \in [Ops -> OpRows] /\ journal' \in Seq(Ops)
      /\ Range(journal') = {o \in Ops : delivery[o].state # "none"} \ prunable
      /\ \A o \in Ops : /\ DeliveryOK(delivery'[o])
                        /\ o \in prunable => delivery'[o] = NoDelivery /\ op'[o] = NoOp
                        /\ o \notin prunable => delivery'[o] = D[o] /\ op'[o] = op[o]
  BY <1>1, <1>2, PruneRows DEF Inv
<1>4. receipts' \in [Ops -> 0..2]
  BY <1>1 DEF Inv, TypeOK
<1>5. TypeOK'
  BY <1>1, <1>3, <1>4 DEF Inv, TypeOK
<1>6. ASSUME NEW o \in Ops
      PROVE  RowMoves(o)
  <2>1. CASE o \in prunable
    BY <1>1, <1>3, <2>1 DEF prunable, RowMoves, Prunes, NoDelivery, NoOp
  <2>2. CASE o \notin prunable
    BY <1>1, <1>2, <1>3, <2>2 DEF RowMoves, Stays
  <2> QED  BY <2>1, <2>2
<1>7. RowsOK' /\ CommittedOnce' /\ Outbox!Next
  BY <1>3, <1>5, <1>6, RowsMove DEF Inv
<1>8. JournalOK'
  <2>1. \A o \in Ops : delivery'[o].state # "none" <=> delivery[o].state # "none" /\ o \notin prunable
    BY <1>2, <1>3 DEF NoDelivery, Redelivers
  <2> QED  BY <1>3, <2>1 DEF JournalOK
<1>9. BacklogOK'
  <2>1. Pending' \subseteq Pending
    BY <1>2, <1>3 DEF Pending, Accepted, Outstanding, NoOp, NoDelivery, Redelivers
  <2> QED  BY <2>1, BacklogShrinks DEF Inv, SystemSignalsAssumption
<1>10. ASSUME turn # NoToken, NEW o \in Ops
       PROVE  /\ o \in Leased => delivery'[o] = delivery[o]
              /\ delivery'[o].state = "leased" => delivery'[o] = delivery[o]
  <2>1. o \in Leased => o \notin staleLeases /\ o \notin prunable
    BY <1>10 DEF Inv, BatchStaysLeased, TurnOK, Leased, staleLeases, prunable
  <2> QED  BY <1>2, <1>3, <2>1 DEF NoDelivery
<1>11. BatchStaysLeased'
  BY <1>1, <1>10 DEF Inv, BatchStaysLeased, Leased
<1>12. TurnOK'
  <2>1. ASSUME turn # NoToken, NEW o \in batch
        PROVE  delivery'[o].holder = instance
    <3>1. o \in Ops /\ o \in Leased /\ delivery[o].holder = instance
      BY <2>1 DEF Inv, BatchStaysLeased, Leased, TurnOK
    <3> QED  BY <1>10, <2>1, <3>1
  <2> QED  BY <1>1, <2>1 DEF TurnOK
<1> QED
  BY <1>5, <1>7, <1>8, <1>9, <1>11, <1>12 DEF Inv

----------------------------------------------------------------------------
(* The theorems.                                                           *)

LEMMA InitInv == SystemSignalsAssumption /\ Init => Inv /\ Outbox!Init
<1> SUFFICES ASSUME SystemSignalsAssumption, Init PROVE Inv /\ Outbox!Init
  OBVIOUS
<1>1. /\ \A o \in Ops : delivery[o] = NoDelivery /\ op[o] = NoOp
      /\ journal = <<>> /\ turn = NoToken /\ process = "up"
  BY DEF Init
<1>2. TypeOK
  <2>1. NoOp \in OpRows
    BY DEF NoOp, OpRows, SystemSignalsAssumption
  <2>2. 1 \in 1..MaxInstances
    BY DEF SystemSignalsAssumption
  <2> QED  BY <2>1, <2>2, NoDeliveryRow DEF Init, TypeOK
<1>3. RowsOK /\ CommittedOnce /\ BatchStaysLeased /\ TurnOK
  <2>1. NoToken \notin Tokens
    BY DEF SystemSignalsAssumption
  <2> QED  BY <1>1, <2>1, NoDeliveryRow DEF Init, RowsOK, DeliveryOK, CommittedOnce, BatchStaysLeased, TurnOK, NoOp
<1>4. JournalOK
  <2>1. DOMAIN journal = {}
    BY <1>1
  <2> QED  BY <1>1, <2>1, NoDeliveryRow DEF JournalOK, Range
<1>5. BacklogOK
  <2>1. Pending = {}
    BY <1>1, NoDeliveryRow DEF Pending, Accepted, Outstanding, NoOp
  <2> QED  BY <2>1, FS_EmptySet DEF BacklogOK, SystemSignalsAssumption
<1>6. Outbox!Init
  BY <1>1, NoDeliveryRow DEF Outbox!Init, outcome, notice, NoOp
<1> QED
  BY <1>2, <1>3, <1>4, <1>5, <1>6 DEF Inv

LEMMA StepInv ==
    SystemSignalsAssumption /\ Inv /\ [Next]_vars => Inv' /\ [Outbox!Next]_Outbox!outboxVars
<1> SUFFICES ASSUME SystemSignalsAssumption, Inv, [Next]_vars
             PROVE  Inv' /\ [Outbox!Next]_Outbox!outboxVars
  OBVIOUS
<1>1. ASSUME NEW o \in Ops, Begin(o)  PROVE Inv' /\ Outbox!Next
  BY <1>1, BeginStep
<1>2. ASSUME NEW o \in Ops, Emit(o)  PROVE Inv' /\ Outbox!Next
  BY <1>2, EmitStep
<1>3. ASSUME NEW o \in Ops, Pass(o)  PROVE Inv' /\ Outbox!Next
  BY <1>3, PassStep
<1>4. ASSUME NEW o \in Ops, NEW state \in Concluded, Settle(o, state)  PROVE Inv' /\ Outbox!Next
  BY <1>4, FinishStep DEF Settle
<1>5. CASE Claim(FALSE)
  BY <1>5, ClaimStep
<1>6. CASE TurnEnds
  BY <1>6, CommitStep, TurnEndsStep DEF TurnEnds
<1>7. CASE Dispatch
  BY <1>7, ProcessStep
<1>8. CASE WakeUpRuns
  BY <1>8, WakeFailsStep, ClaimStep DEF WakeUpRuns
<1>9. CASE Crash
  BY <1>9, ProcessStep
<1>10. CASE Recovers
  <2>1. ASSUME NEW o \in Ops, ReconcileOp(o)  PROVE Inv' /\ Outbox!Next
    BY <2>1, FinishStep DEF ReconcileOp, reconciledAs, Concluded
  <2> QED  BY <1>10, <2>1, ProcessStep, ReconciledStep DEF Recovers
<1>11. CASE UNCHANGED vars
  <2>1. UNCHANGED <<process, instance, op, journal, delivery, turn, batch, waking, receipts>>
    BY <1>11 DEF vars
  <2>2. Inv'
    BY <2>1 DEF Inv, TypeOK, RowsOK, JournalOK, CommittedOnce, BatchStaysLeased, Leased, TurnOK,
                BacklogOK, Pending, Accepted, Outstanding
  <2>3. UNCHANGED Outbox!outboxVars
    BY <2>1 DEF Outbox!outboxVars, outcome, notice
  <2> QED  BY <2>2, <2>3
<1> QED
  BY <1>1, <1>2, <1>3, <1>4, <1>5, <1>6, <1>7, <1>8, <1>9, <1>10, <1>11 DEF Next

\* The tables stay well formed, and Inv holds, in every reachable state.
THEOREM SignalsInvariant == Spec => []Inv
<1>1. Init => Inv
  BY InitInv, SystemSignalsAssumption
<1>2. Inv /\ [Next]_vars => Inv'
  BY StepInv, SystemSignalsAssumption
<1> QED  BY <1>1, <1>2, PTL DEF Spec

\* Type correctness of the tables and of the process's memory.
THEOREM SignalsTyped == Spec => []TypeOK
<1>1. Inv => TypeOK
  BY DEF Inv
<1> QED  BY <1>1, SignalsInvariant, PTL

\* A signal is acknowledged exactly when one reply was committed with it, for
\* every number of restarts, failed turns, expired leases and retries
\* (commitSystemSignalTranscript, claimSystemSignals, reconcileSystemSignals).
THEOREM SignalsCommittedOnce == Spec => []CommittedOnce
<1>1. Inv => CommittedOnce
  BY DEF Inv
<1> QED  BY <1>1, SignalsInvariant, PTL

\* While a turn runs its batch stays leased to it, and no row that an earlier
\* turn or process left behind carries its token (claimSystemSignals).
THEOREM SignalsBatchStaysLeased == Spec => []BatchStaysLeased
<1>1. Inv => BatchStaysLeased
  BY DEF Inv
<1> QED  BY <1>1, SignalsInvariant, PTL

\* What is accepted and what is published never exceed the backlog together,
\* so that publish has room whenever an operation is finished.
THEOREM SignalsBacklogReserved == Spec => []BacklogReserved
<1>1. Inv => BacklogReserved
  BY DEF Inv, BacklogOK, BacklogReserved, Pending
<1> QED  BY <1>1, SignalsInvariant, PTL

\* What finishSystemOperation relies on: an operation that is to be finished has
\* no event yet, and there is room for one, so that publish does not throw.
PublishHasRoom ==
    \A o \in Ops : unsettled(o) =>
        o \notin Range(journal) /\ Cardinality(Outstanding) < MaxBacklog

\* publish neither throws in finishSystemOperation nor halfway through
\* reconcileSystemSignals, however many processes left operations behind.
THEOREM PublishNeverThrows == Spec => []PublishHasRoom
<1>1. ASSUME Inv, NEW o \in Ops, unsettled(o)
      PROVE  o \notin Range(journal) /\ Cardinality(Outstanding) < MaxBacklog
  <2>1. o \in Pending /\ o \notin Outstanding /\ o \notin Range(journal) /\ Outstanding \subseteq Pending
    BY <1>1 DEF Inv, RowsOK, JournalOK, unsettled, Pending, Accepted, Outstanding
  <2>2. /\ IsFiniteSet(Outstanding) /\ IsFiniteSet(Outstanding \cup {o})
        /\ Cardinality(Outstanding \cup {o}) <= Cardinality(Pending)
    BY <1>1, <2>1, FS_Subset DEF Inv, BacklogOK
  <2>3. Cardinality(Outstanding \cup {o}) = Cardinality(Outstanding) + 1
    BY <2>1, <2>2, FS_AddElement
  <2>4. Cardinality(Outstanding) \in Nat /\ Cardinality(Pending) \in Nat
    BY <1>1, <2>2, FS_CardinalityType DEF Inv, BacklogOK
  <2>5. Cardinality(Pending) <= MaxBacklog /\ MaxBacklog \in Nat
    BY <1>1, SystemSignalsAssumption DEF Inv, BacklogOK
  <2> QED  BY <2>1, <2>2, <2>3, <2>4, <2>5
<1>2. Inv => PublishHasRoom
  BY <1>1 DEF PublishHasRoom
<1> QED  BY <1>2, SignalsInvariant, PTL

\* The tables implement SignalOutbox: every transaction of the store moves each
\* operation along an edge of the outbox, or leaves it where it is.
THEOREM SignalsImplementOutbox == Spec => ImplementsOutbox
<1>1. Init => Outbox!Init
  BY InitInv, SystemSignalsAssumption
<1>2. Inv /\ [Next]_vars => [Outbox!Next]_Outbox!outboxVars
  BY StepInv, SystemSignalsAssumption
<1> QED  BY <1>1, <1>2, SignalsInvariant, PTL DEF Spec, ImplementsOutbox, Outbox!Spec

----------------------------------------------------------------------------
(* The rows and the poll of the scheduled tasks.                           *)

LEMMA TaskRowTypes ==
    ASSUME NEW s \in Schedules, NEW due \in BOOLEAN, NEW state \in {"stored", "unborn", "gone"}
    PROVE  Row(s, due) \in TaskRows /\ Absent(state) \in TaskRows
<1> DEFINE x == CHOOSE u \in Schedules : TRUE
<1>1. x \in Schedules
  OBVIOUS
<1> HIDE DEF x
<1>2. Row(s, due) \in TaskRows /\ Row(x, FALSE) \in TaskRows
  BY <1>1 DEF Row, TaskRows
<1>3. [Row(x, FALSE) EXCEPT !.state = state] \in TaskRows
  BY <1>2 DEF TaskRows
<1> QED  BY <1>2, <1>3 DEF Absent, x

LEMMA NextRunTypes == \A s : nextRuns(s) \subseteq BOOLEAN
  BY DEF nextRuns

LEMMA MarkTyped ==
    ASSUME TriggerTypeOK, NEW f \in Firings, markTaskRan(f)
    PROVE  tasks' \in [Tasks -> TaskRows]
<1>1. tasks \in [Tasks -> TaskRows] /\ f.task \in Tasks /\ f.schedule \in Schedules /\ tasks[f.task] \in TaskRows
  BY DEF TriggerTypeOK, Firings
<1> DEFINE x == [tasks[f.task] EXCEPT !.computedFrom = f.schedule, !.due = nextDue(@)]
<1>2. x \in TaskRows /\ Absent("gone") \in TaskRows
  <2>1. Absent("gone") \in TaskRows
    BY <1>1, TaskRowTypes
  <2>2. x \in TaskRows
    BY <1>1 DEF TaskRows, nextDue
  <2> QED  BY <2>1, <2>2
<1>3. \/ tasks' = tasks
      \/ tasks' = [tasks EXCEPT ![f.task] = Absent("gone")]
      \/ tasks' = [tasks EXCEPT ![f.task] = x]
  BY <1>1 DEF markTaskRan
<1> HIDE DEF x
<1> QED  BY <1>1, <1>2, <1>3

\* A stored row is edited.
LEMMA TaskEdits ==
    ASSUME TriggerTypeOK, NEW t \in Tasks, NEW s \in Schedules,
           createScheduledTask(t, s) \/ updateScheduledTask(t, s) \/ updateEnabled(t)
             \/ deleteScheduledTask(t) \/ TimeComes(t)
    PROVE  TriggerTypeOK'
<1>1. tasks \in [Tasks -> TaskRows] /\ tasks[t] \in TaskRows
  BY DEF TriggerTypeOK
<1>2. UNCHANGED <<keyLocked, tickPhase, snapshot, manualRuns, boots>>
  BY DEF createScheduledTask, updateScheduledTask, updateEnabled, deleteScheduledTask, TimeComes
<1>3. \E x \in TaskRows : tasks' = [tasks EXCEPT ![t] = x]
  <2>1. CASE createScheduledTask(t, s)
    BY <2>1, TaskRowTypes, NextRunTypes DEF createScheduledTask
  <2>2. CASE updateScheduledTask(t, s)
    <3>1. PICK due \in BOOLEAN :
            tasks' = [tasks EXCEPT ![t].schedule = s, ![t].computedFrom = s, ![t].due = due]
      BY <2>2, NextRunTypes DEF updateScheduledTask
    <3> DEFINE x == [tasks[t] EXCEPT !.schedule = s, !.computedFrom = s, !.due = due]
    <3>2. x \in TaskRows /\ tasks' = [tasks EXCEPT ![t] = x]
      BY <1>1, <3>1 DEF TaskRows
    <3> HIDE DEF x
    <3> QED  BY <3>2
  <2>3. CASE updateEnabled(t)
    <3> DEFINE x == [tasks[t] EXCEPT !.enabled = ~@]
    <3>1. x \in TaskRows
      BY <1>1 DEF TaskRows
    <3>2. tasks' = [tasks EXCEPT ![t] = x]
      BY <1>1, <2>3 DEF updateEnabled
    <3> HIDE DEF x
    <3> QED  BY <3>1, <3>2
  <2>4. CASE deleteScheduledTask(t)
    BY <2>4, TaskRowTypes DEF deleteScheduledTask
  <2>5. CASE TimeComes(t)
    <3> DEFINE x == [tasks[t] EXCEPT !.due = TRUE]
    <3>1. x \in TaskRows /\ tasks' = [tasks EXCEPT ![t] = x]
      BY <1>1, <2>5 DEF TimeComes, TaskRows
    <3> HIDE DEF x
    <3> QED  BY <3>1
  <2> QED  BY <2>1, <2>2, <2>3, <2>4, <2>5
<1>4. tasks' \in [Tasks -> TaskRows]
  BY <1>1, <1>3
<1> QED  BY <1>2, <1>4 DEF TriggerTypeOK

LEMMA FiringTypes ==
    ASSUME TriggerTypeOK, NEW t \in Tasks
    PROVE  firingOf(t) \in Firings
  BY DEF TriggerTypeOK, firingOf, Firings, TaskRows

\* Rows, firings and the poll have their types, and outside a tick's last
\* phase no firing of the poll is open.
THEOREM TriggersAreTyped == TriggerSpec => []TriggerTypeOK
<1>1. TriggerInit => TriggerTypeOK
  <2> SUFFICES ASSUME TriggerInit PROVE TriggerTypeOK
    OBVIOUS
  <2>1. Absent("unborn") \in TaskRows
    <3>1. PICK s \in CronSchedules : TRUE
      BY TriggerAssumption
    <3>2. s \in Schedules /\ TRUE \in BOOLEAN
      BY DEF Schedules
    <3> QED  BY <3>2, TaskRowTypes
  <2>2. 1 \in 1..MaxBoots
    BY TriggerAssumption
  <2> QED  BY <2>1, <2>2 DEF TriggerInit, TriggerTypeOK
<1>2. TriggerTypeOK /\ [TriggerNext]_triggerVars => TriggerTypeOK'
  <2> SUFFICES ASSUME TriggerTypeOK, [TriggerNext]_triggerVars PROVE TriggerTypeOK'
    OBVIOUS
  <2>1. CASE UNCHANGED triggerVars
    BY <2>1 DEF triggerVars, TriggerTypeOK
  <2>2. ASSUME NEW t \in Tasks, NEW s \in Schedules,
               createScheduledTask(t, s) \/ updateScheduledTask(t, s) \/ updateEnabled(t)
                 \/ deleteScheduledTask(t) \/ TimeComes(t)
        PROVE  TriggerTypeOK'
    BY <2>2, TaskEdits
  <2>3. ASSUME NEW t \in Tasks, RunNow(t) PROVE TriggerTypeOK'
    BY <2>3, FiringTypes DEF RunNow, TriggerTypeOK
  <2>4. CASE Tick
    BY <2>4 DEF Tick, TriggerTypeOK
  <2>5. CASE GetDueFirings
    BY <2>5, FiringTypes DEF GetDueFirings, TriggerTypeOK
  <2>6. CASE FiringEnds
    <3>1. PICK f \in snapshot : markTaskRan(f) /\ snapshot' = snapshot \ {f}
      BY <2>6 DEF FiringEnds
    <3>2. f \in Firings
      BY DEF TriggerTypeOK
    <3>3. tasks' \in [Tasks -> TaskRows]
      BY <3>1, <3>2, MarkTyped
    <3> QED  BY <2>6, <3>1, <3>3 DEF FiringEnds, TriggerTypeOK
  <2>7. CASE TickEnds
    BY <2>7 DEF TickEnds, TriggerTypeOK
  <2>8. ASSUME NEW f \in manualRuns, ManualRunEnds(f) PROVE TriggerTypeOK'
    <3>1. tasks' \in [Tasks -> TaskRows]
      BY <2>8, MarkTyped DEF ManualRunEnds, TriggerTypeOK
    <3> QED  BY <2>8, <3>1 DEF ManualRunEnds, TriggerTypeOK
  <2>9. CASE Unlock
    BY <2>9 DEF Unlock, TriggerTypeOK
  <2>10. CASE Reboot
    BY <2>10, TriggerAssumption DEF Reboot, TriggerTypeOK
  <2>11. \E s \in Schedules : TRUE
    BY TriggerAssumption DEF Schedules
  <2> QED  BY <2>1, <2>2, <2>3, <2>4, <2>5, <2>6, <2>7, <2>8, <2>9, <2>10, <2>11 DEF TriggerNext
<1> QED  BY <1>1, <1>2, PTL DEF TriggerSpec

====
