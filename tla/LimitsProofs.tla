---- MODULE LimitsProofs ----
(***************************************************************************)
(* The limits that end a run or a handoff are exact: the idle watchdog and *)
(* the wall-clock watchdog of a run (RunWatchdog), for every limit and set *)
(* of tools, and the budget of a delegating turn (Delegation), for every   *)
(* set of agents and turns, limit, price and number of handoffs.           *)
(***************************************************************************)
EXTENDS RunWatchdog, Delegation, Folds, SubsequencesProofs, FiniteSetTheorems, TLAPS

----------------------------------------------------------------------------
(* The idle watchdog. Nothing here depends on the wall-clock watchdog.     *)


\* The idle timer of a running run is never overdue and comes no later than
\* IdleMs after the last chunk, unless a tool is executing; while one is, a
\* check may be due at once, and a pause ends IdleMs from now at the latest,
\* so that the tool's result finds the timer in reach.
IdleInv ==
    /\ now \in Nat /\ lastChunkAt \in Nat /\ lastChunkAt <= now
    /\ idleTimer \in [does : {"check", "schedule"}, at : Nat]
    /\ status \in {"running", "settled", "idle_timeout", "max_timeout"}
    /\ status = "running" =>
        /\ now <= idleTimer.at
        /\ Inflight = {} => idleTimer.at <= lastChunkAt + IdleMs
        /\ idleTimer.at <= now + IdleMs
    /\ status = "idle_timeout" => Inflight = {} /\ now - lastChunkAt >= IdleMs

LEMMA IdleInit == RunWatchdogAssumption /\ Init => IdleInv
  BY DEF Init, IdleInv, RunWatchdogAssumption

LEMMA IdleNext == RunWatchdogAssumption /\ IdleInv /\ [Next]_vars => IdleInv'
<1> SUFFICES ASSUME RunWatchdogAssumption, IdleInv, [Next]_vars
             PROVE  IdleInv'
  OBVIOUS
<1>1. IdleMs \in Nat \ {0}
  BY DEF RunWatchdogAssumption
<1>2. CASE Chunk
  BY <1>1, <1>2 DEF Chunk, IdleInv, Inflight
<1>3. ASSUME NEW t \in Tools, ToolCall(t)
      PROVE  IdleInv'
  BY <1>1, <1>3 DEF ToolCall, IdleInv, Inflight
<1>4. ASSUME NEW t \in Tools, ToolResult(t)
      PROVE  IdleInv'
  <2>1. status = "running" /\ lastChunkAt' = now /\ UNCHANGED <<now, status, idleTimer>>
    BY <1>4 DEF ToolResult
  <2> QED  BY <1>1, <2>1 DEF IdleInv
<1>5. CASE Settle
  BY <1>5 DEF Settle, IdleInv, Inflight
<1>6. CASE IdleCheck
  <2>1. UNCHANGED <<now, lastChunkAt, Inflight>> /\ status = "running"
    BY <1>6 DEF IdleCheck, Inflight
  <2>2. CASE /\ now - lastChunkAt < IdleMs
             /\ idleTimer' = scheduleIdleWatchdog(lastChunkAt)
             /\ UNCHANGED status
    BY <1>1, <2>1, <2>2 DEF IdleInv, scheduleIdleWatchdog, Larger
  <2>3. CASE /\ paused
             /\ idleTimer' = [does |-> "schedule", at |-> now + IdleMs]
             /\ UNCHANGED status
    BY <1>1, <2>1, <2>3 DEF IdleInv, paused
  <2>4. CASE /\ now - lastChunkAt >= IdleMs
             /\ ~paused
             /\ status' = "idle_timeout"
             /\ UNCHANGED idleTimer
    BY <2>1, <2>4 DEF IdleInv, paused
  <2> QED  BY <1>6, <2>2, <2>3, <2>4 DEF IdleCheck
<1>7. CASE IdleSchedule
  <2>1. UNCHANGED <<now, lastChunkAt, Inflight, status>> /\ status = "running" /\ idleTimer.at = now
    BY <1>7 DEF IdleSchedule, Inflight
  <2>2. idleTimer' = [does |-> "check", at |-> Larger(now, lastChunkAt + IdleMs)]
    BY <1>7 DEF IdleSchedule, scheduleIdleWatchdog
  <2> QED  BY <1>1, <2>1, <2>2 DEF IdleInv, Larger
<1>8. CASE MaxCheck
  <2>1. UNCHANGED <<now, lastChunkAt, Inflight, idleTimer>> /\ status = "running"
        /\ status' \in {"running", "max_timeout"}
    BY <1>8 DEF MaxCheck, Inflight
  <2> QED  BY <2>1 DEF IdleInv
<1>9. CASE Tick
  <2>1. UNCHANGED <<status, lastChunkAt, Inflight, idleTimer>> /\ now' = now + 1
        /\ status = "running" /\ idleTimer.at > now
    BY <1>9 DEF Tick, Inflight
  <2> QED  BY <1>1, <2>1 DEF IdleInv
<1>10. CASE UNCHANGED vars
  BY <1>10 DEF vars, IdleInv, Inflight
<1> QED
  BY <1>2, <1>3, <1>4, <1>5, <1>6, <1>7, <1>8, <1>9, <1>10 DEF Next

\* The idle watchdog kills a run exactly when it has been silent for IdleMs
\* with no tool executing: never later, however pauses and results fell, and
\* never earlier.
THEOREM IdleWatchdogExact == Spec => []SilenceBounded
<1>1. Init => IdleInv
  BY IdleInit, RunWatchdogAssumption
<1>2. IdleInv /\ [Next]_vars => IdleInv'
  BY IdleNext, RunWatchdogAssumption
<1>3. IdleInv => SilenceBounded
  BY RunWatchdogAssumption DEF IdleInv, SilenceBounded, RunWatchdogAssumption
<1> QED  BY <1>1, <1>2, <1>3, PTL DEF Spec

----------------------------------------------------------------------------
(* Sums.                                                                   *)

\* Induction over the subsets of a finite set, with the property as a set.
LEMMA SubsetInduction ==
    ASSUME NEW D, IsFiniteSet(D), NEW P, {} \in P,
           \A S \in SUBSET D : S # {} /\ (\A x \in S : S \ {x} \in P) => S \in P
    PROVE  SUBSET D \subseteq P
<1> DEFINE T == {n \in Nat : \A S \in SUBSET D : Cardinality(S) = n => S \in P}
<1>1. ASSUME NEW S \in SUBSET D
      PROVE  /\ IsFiniteSet(S) /\ Cardinality(S) \in Nat /\ (Cardinality(S) = 0 <=> S = {})
             /\ \A x \in S : S \ {x} \in SUBSET D /\ Cardinality(S \ {x}) = Cardinality(S) - 1
  <2>1. IsFiniteSet(S)
    BY FS_Subset
  <2> QED  BY <2>1, FS_CardinalityType, FS_EmptySet, FS_RemoveElement
<1>2. 0 \in T
  BY <1>1
<1>3. ASSUME NEW n \in T PROVE n + 1 \in T
  <2> SUFFICES ASSUME NEW S \in SUBSET D, Cardinality(S) = n + 1 PROVE S \in P
    BY <1>3
  <2>1. S # {} /\ \A x \in S : S \ {x} \in SUBSET D /\ Cardinality(S \ {x}) = n
    BY <1>1, <1>3
  <2>2. \A x \in S : S \ {x} \in P
    BY <1>3, <2>1
  <2> QED  BY <2>1, <2>2
<1>4. T = Nat
  <2>1. T \in SUBSET Nat
    OBVIOUS
  <2> HIDE DEF T
  <2> QED  BY <1>2, <1>3, <2>1, NatSetInduction
<1> QED  BY <1>1, <1>4

\* What SumFunction adds up, set by set.
picked(S) == CHOOSE x \in S : TRUE
added(g, f, S) == IF S = {} THEN 0 ELSE f[picked(S)] + g[S \ {picked(S)}]
Adds(g, f) == g = [S \in SUBSET DOMAIN f |-> added(g, f, S)]
sums(f) == CHOOSE g : Adds(g, f)

LEMMA SumIsOfSums ==
    ASSUME NEW f
    PROVE  SumFunction(f) = sums(f)[DOMAIN f]
<1>1. SumFunction(f) = MapThenFoldSet(+, 0, LAMBDA i : f[i], LAMBDA s : CHOOSE x \in s : TRUE, DOMAIN f)
  BY Zenon DEF SumFunction, SumFunctionOnSet, FoldFunctionOnSet
<1>2. @ = sums(f)[DOMAIN f]
  BY Zenon DEF MapThenFoldSet, sums, Adds, added, picked
<1> QED  BY <1>1, <1>2

\* The functions that a sum of natural numbers can be taken of.
Summands(f) == IsFiniteSet(DOMAIN f) /\ f \in [DOMAIN f -> Nat]

LEMMA SumsExist ==
    ASSUME NEW f, Summands(f)
    PROVE  Adds(sums(f), f)
<1> DEFINE D == DOMAIN f
           Upto(g, n) == \A S \in SUBSET D : Cardinality(S) <= n => g[S] = added(g, f, S)
           T == {n \in Nat : \E g \in [SUBSET D -> Nat] : Upto(g, n)}
<1>0. IsFiniteSet(D) /\ f \in [D -> Nat]
  BY DEF Summands
<1> HIDE DEF D
<1>1. ASSUME NEW S \in SUBSET D
      PROVE  /\ Cardinality(S) \in Nat /\ (Cardinality(S) = 0 <=> S = {})
             /\ Cardinality(S) <= Cardinality(D)
             /\ S # {} => /\ picked(S) \in S /\ S \ {picked(S)} \in SUBSET D
                          /\ Cardinality(S \ {picked(S)}) = Cardinality(S) - 1
  <2>1. IsFiniteSet(S) /\ Cardinality(S) <= Cardinality(D)
    BY <1>0, FS_Subset
  <2>2. S # {} => picked(S) \in S
    BY DEF picked
  <2> QED  BY <2>1, <2>2, FS_CardinalityType, FS_EmptySet, FS_RemoveElement
<1>2. 0 \in T
  <2> DEFINE g == [S \in SUBSET D |-> 0]
  <2>1. \A S \in SUBSET D : Cardinality(S) <= 0 => g[S] = added(g, f, S)
    BY <1>1 DEF added
  <2> QED  BY <2>1
<1>3. ASSUME NEW n \in T PROVE n + 1 \in T
  <2>1. PICK g \in [SUBSET D -> Nat] : Upto(g, n)
    BY <1>3
  <2> DEFINE h == [S \in SUBSET D |-> IF Cardinality(S) <= n THEN g[S] ELSE added(g, f, S)]
  <2>2. ASSUME NEW S \in SUBSET D PROVE added(g, f, S) \in Nat
    <3>1. CASE S = {}
      BY <3>1 DEF added
    <3>2. CASE S # {}
      <4>1. f[picked(S)] \in Nat /\ g[S \ {picked(S)}] \in Nat
        BY <1>0, <1>1, <3>2
      <4> QED  BY <3>2, <4>1 DEF added
    <3> QED  BY <3>1, <3>2
  <2>3. h \in [SUBSET D -> Nat]
    BY <2>2
  <2>4. \A S \in SUBSET D : h[S] = IF Cardinality(S) <= n THEN g[S] ELSE added(g, f, S)
    OBVIOUS
  <2> HIDE DEF h
  <2>5. ASSUME NEW S \in SUBSET D, Cardinality(S) <= n + 1
        PROVE  h[S] = added(h, f, S)
    <3>1. h[S] = added(g, f, S)
      BY <2>1, <2>4
    <3>2. S # {} => h[S \ {picked(S)}] = g[S \ {picked(S)}]
      <4>1. n \in Nat
        BY <1>3
      <4> QED  BY <1>1, <2>4, <2>5, <4>1
    <3> QED  BY <3>1, <3>2 DEF added
  <2> QED  BY <1>3, <2>3, <2>5
<1>4. T = Nat
  <2>1. T \in SUBSET Nat
    OBVIOUS
  <2> HIDE DEF T
  <2> QED  BY <1>2, <1>3, <2>1, NatSetInduction
<1>5. Cardinality(D) \in T
  BY <1>0, <1>4, FS_CardinalityType
<1>6. PICK g \in [SUBSET D -> Nat] : Upto(g, Cardinality(D))
  BY <1>5
<1>7. g = [S \in SUBSET D |-> added(g, f, S)]
  BY <1>1, <1>6
<1>8. Adds(g, f)
  BY <1>7 DEF Adds, D
<1> QED  BY <1>8 DEF sums

\* A sum takes any of its summands out.
LEMMA SumsFacts ==
    ASSUME NEW f, Summands(f), NEW S \in SUBSET DOMAIN f
    PROVE  /\ sums(f)[S] \in Nat /\ sums(f)[{}] = 0
           /\ \A x \in S : sums(f)[S] = f[x] + sums(f)[S \ {x}]
<1> DEFINE D == DOMAIN f
           g == sums(f)
           N == {R \in SUBSET D : g[R] \in Nat}
           P == {R \in SUBSET D : \A x \in R : g[R] = f[x] + g[R \ {x}]}
<1>1. IsFiniteSet(D) /\ f \in [D -> Nat] /\ \A R \in SUBSET D : g[R] = added(g, f, R)
  <2>1. g = [R \in SUBSET DOMAIN f |-> added(g, f, R)]
    BY SumsExist DEF Adds
  <2> HIDE DEF g
  <2>2. \A R \in SUBSET D : g[R] = added(g, f, R)
    BY <2>1
  <2> QED  BY <2>2 DEF Summands
<1> HIDE DEF g, D
<1>2. g[{}] = 0
  BY <1>1 DEF added
<1>3. ASSUME NEW R \in SUBSET D, R # {}
      PROVE  picked(R) \in R /\ g[R] = f[picked(R)] + g[R \ {picked(R)}]
  BY <1>1, <1>3 DEF added, picked
<1>4. SUBSET D \subseteq N
  <2>1. {} \in N
    BY <1>2
  <2>2. ASSUME NEW R \in SUBSET D, R # {}, \A x \in R : R \ {x} \in N
        PROVE  R \in N
    <3>1. f[picked(R)] \in Nat /\ g[R \ {picked(R)}] \in Nat
      BY <1>1, <1>3, <2>2
    <3> QED  BY <1>3, <2>2, <3>1
  <2> HIDE DEF N
  <2> QED  BY <1>1, <2>1, <2>2, SubsetInduction
<1>5. SUBSET D \subseteq P
  <2>1. {} \in P
    OBVIOUS
  <2>2. ASSUME NEW R \in SUBSET D, R # {}, \A x \in R : R \ {x} \in P
        PROVE  R \in P
    <3> SUFFICES ASSUME NEW x \in R PROVE g[R] = f[x] + g[R \ {x}]
      OBVIOUS
    <3> DEFINE y == picked(R)
               Q == (R \ {x}) \ {y}
    <3>1. y \in R /\ g[R] = f[y] + g[R \ {y}]
      BY <1>3, <2>2
    <3> HIDE DEF y
    <3>2. CASE x = y
      BY <3>1, <3>2
    <3>3. CASE x # y
      <4>1. Q = (R \ {y}) \ {x} /\ x \in R \ {y} /\ y \in R \ {x} /\ Q \in SUBSET D
        BY <3>1, <3>3
      <4>2. g[R \ {x}] = f[y] + g[Q]
        BY <2>2, <4>1
      <4>3. g[R \ {y}] = f[x] + g[Q]
        BY <2>2, <3>1, <4>1
      <4> HIDE DEF Q
      <4>4. g[Q] \in Nat /\ f[x] \in Nat /\ f[y] \in Nat
        BY <1>1, <1>4, <3>1, <4>1
      <4> QED  BY <3>1, <4>2, <4>3, <4>4
    <3> QED  BY <3>2, <3>3
  <2> HIDE DEF P
  <2> QED  BY <1>1, <2>1, <2>2, SubsetInduction
<1> QED  BY <1>2, <1>4, <1>5 DEF g, D

\* Functions that agree on a set have the same sum there.
LEMMA SameSums ==
    ASSUME NEW e, Summands(e), NEW f, Summands(f), NEW R, R \subseteq DOMAIN e, R \subseteq DOMAIN f,
           \A x \in R : e[x] = f[x]
    PROVE  sums(e)[R] = sums(f)[R]
<1> DEFINE P == {S \in SUBSET R : sums(e)[S] = sums(f)[S]}
<1>1. IsFiniteSet(R)
  BY FS_Subset DEF Summands
<1>2. {} \in P
  <2>1. sums(e)[{}] = 0 /\ sums(f)[{}] = 0
    BY SumsFacts
  <2> QED  BY <2>1
<1>3. ASSUME NEW S \in SUBSET R, S # {}, \A x \in S : S \ {x} \in P
      PROVE  S \in P
  <2>1. PICK x \in S : TRUE
    BY <1>3
  <2>2. sums(e)[S] = e[x] + sums(e)[S \ {x}] /\ sums(f)[S] = f[x] + sums(f)[S \ {x}]
    BY SumsFacts
  <2>3. e[x] = f[x] /\ sums(e)[S \ {x}] = sums(f)[S \ {x}]
    BY <1>3
  <2> QED  BY <2>2, <2>3
<1>4. SUBSET R \subseteq P
  <2> HIDE DEF P
  <2> QED  BY <1>1, <1>2, <1>3, SubsetInduction
<1> QED  BY <1>4

LEMMA SumTypes ==
    ASSUME NEW f, Summands(f)
    PROVE  SumFunction(f) \in Nat /\ (DOMAIN f = {} => SumFunction(f) = 0)
<1>1. SumFunction(f) = sums(f)[DOMAIN f]
  BY SumIsOfSums
<1>2. sums(f)[DOMAIN f] \in Nat /\ sums(f)[{}] = 0
  BY SumsFacts
<1> QED  BY <1>1, <1>2

\* One summand more: g is f and the summand at x.
LEMMA SumWith ==
    ASSUME NEW f, Summands(f), NEW x, x \notin DOMAIN f,
           NEW g, Summands(g), DOMAIN g = DOMAIN f \cup {x}, \A y \in DOMAIN f : g[y] = f[y]
    PROVE  SumFunction(g) = g[x] + SumFunction(f)
<1>1. sums(g)[DOMAIN g] = g[x] + sums(g)[DOMAIN g \ {x}]
  <2> DEFINE D == DOMAIN g
  <2>1. D \in SUBSET DOMAIN g /\ x \in D
    OBVIOUS
  <2> HIDE DEF D
  <2>2. \A y \in D : sums(g)[D] = g[y] + sums(g)[D \ {y}]
    BY <2>1, SumsFacts
  <2> QED  BY <2>1, <2>2 DEF D
<1>2. DOMAIN g \ {x} = DOMAIN f
  OBVIOUS
<1>3. sums(g)[DOMAIN f] = sums(f)[DOMAIN f]
  BY SameSums
<1> QED  BY <1>1, <1>2, <1>3, SumIsOfSums

\* One summand changed.
LEMMA SumChanged ==
    ASSUME NEW f, Summands(f), NEW g, Summands(g), DOMAIN g = DOMAIN f, NEW x \in DOMAIN f,
           \A y \in DOMAIN f : y # x => g[y] = f[y]
    PROVE  \E rest \in Nat : SumFunction(f) = f[x] + rest /\ SumFunction(g) = g[x] + rest
<1> DEFINE R == DOMAIN f \ {x}
<1>1. sums(f)[DOMAIN f] = f[x] + sums(f)[R] /\ sums(g)[DOMAIN f] = g[x] + sums(g)[R]
  BY SumsFacts
<1>2. R \subseteq DOMAIN f /\ \A y \in R : g[y] = f[y]
  OBVIOUS
<1>3. sums(f)[R] \in Nat
  BY <1>2, SumsFacts
<1>4. sums(f)[R] = sums(g)[R]
  <2> HIDE DEF R
  <2> QED  BY <1>2, SameSums
<1> QED  BY <1>1, <1>3, <1>4, SumIsOfSums

\* Every summand has grown by one.
LEMMA SumGrown ==
    ASSUME NEW f, Summands(f), NEW g, Summands(g), DOMAIN g = DOMAIN f,
           \A y \in DOMAIN f : g[y] = f[y] + 1
    PROVE  SumFunction(g) = SumFunction(f) + Cardinality(DOMAIN f)
<1> DEFINE D == DOMAIN f
           P == {S \in SUBSET D : sums(g)[S] = sums(f)[S] + Cardinality(S)}
<1>1. IsFiniteSet(D)
  BY DEF Summands
<1>2. {} \in P
  <2>1. sums(f)[{}] = 0 /\ sums(g)[{}] = 0 /\ Cardinality({}) = 0
    BY SumsFacts, FS_EmptySet
  <2> QED  BY <2>1
<1>3. ASSUME NEW S \in SUBSET D, S # {}, \A x \in S : S \ {x} \in P
      PROVE  S \in P
  <2>1. PICK x \in S : TRUE
    BY <1>3
  <2>2. sums(f)[S] = f[x] + sums(f)[S \ {x}] /\ sums(g)[S] = g[x] + sums(g)[S \ {x}]
    BY SumsFacts
  <2>3. sums(g)[S \ {x}] = sums(f)[S \ {x}] + Cardinality(S \ {x})
    BY <1>3
  <2>4. Cardinality(S) \in Nat /\ Cardinality(S \ {x}) = Cardinality(S) - 1
    BY <1>1, FS_Subset, FS_CardinalityType, FS_RemoveElement
  <2>5. f[x] \in Nat /\ sums(f)[S \ {x}] \in Nat /\ g[x] = f[x] + 1
    BY SumsFacts DEF Summands
  <2> QED  BY <2>2, <2>3, <2>4, <2>5
<1>4. SUBSET D \subseteq P
  <2> HIDE DEF P
  <2> QED  BY <1>1, <1>2, <1>3, SubsetInduction
<1> QED  BY <1>4, SumIsOfSums

----------------------------------------------------------------------------
(* The wall-clock watchdog.                                                *)

\* How long each of the tools has run by `until`.
durations(from, until) == [t \in DOMAIN from |-> until - from[t]]

\* The time that is not agent time is tool time, exactly so until two tools
\* overlap; some timer then comes no later than the agent time is spent.
WallInv ==
    /\ TypeOK /\ IsFiniteSet(Inflight) /\ startedAt \in [Inflight -> Nat]
    /\ now - agentTime <= discounted(startedAt, toolTimeDone, now)
    /\ ~overlapped => /\ \A t, u \in Inflight : t = u
                      /\ now - agentTime = discounted(startedAt, toolTimeDone, now)
    /\ status = "max_timeout" => agentTime >= MaxMs
    /\ status = "running" /\ ~overlapped =>
         \E x \in maxTimers : now <= x /\ agentTime + (x - now) <= MaxMs

LEMMA WallTypes ==
    ASSUME TypeOK
    PROVE  /\ now \in Nat /\ lastChunkAt \in Nat /\ lastChunkAt <= now /\ toolTimeDone \in Nat
           /\ agentTime \in Nat /\ agentTime <= now /\ maxTimers \in SUBSET Nat
           /\ IdleMs \in Nat \ {0} /\ MaxMs \in Nat \ {0}
           /\ \A t \in Inflight : startedAt[t] \in Nat /\ startedAt[t] <= now
  BY RunWatchdogAssumption DEF TypeOK

LEMMA DurationsAdd ==
    ASSUME NEW from, NEW until \in Nat, IsFiniteSet(DOMAIN from),
           \A t \in DOMAIN from : from[t] \in Nat /\ from[t] <= until
    PROVE  /\ Summands(durations(from, until)) /\ DOMAIN durations(from, until) = DOMAIN from
           /\ \A t \in DOMAIN from : durations(from, until)[t] = until - from[t]
           /\ SumFunction(durations(from, until)) \in Nat
           /\ DOMAIN from = {} => SumFunction(durations(from, until)) = 0
<1> DEFINE f == durations(from, until)
<1>1. DOMAIN f = DOMAIN from /\ \A t \in DOMAIN from : f[t] = until - from[t] /\ f[t] \in Nat
  BY DEF durations
<1>2. f \in [DOMAIN f -> Nat]
  BY <1>1 DEF durations
<1> HIDE DEF f
<1>3. Summands(f)
  BY <1>1, <1>2 DEF Summands
<1> QED  BY <1>1, <1>3, SumTypes DEF f

\* A number of milliseconds of a timer that is armed for it.
LEMMA TimerArmed ==
    ASSUME NEW from, NEW done \in Nat, now \in Nat, NEW sum \in Nat, MaxMs \in Nat,
           sum = discounted(from, done, now)
    PROVE  /\ effectiveElapsedMs(from, done, now) = (IF now > sum THEN now - sum ELSE 0)
           /\ scheduleMaxWatchdog(from, done) \in Nat
           /\ scheduleMaxWatchdog(from, done) >= now
           /\ now >= sum /\ now - sum <= MaxMs => scheduleMaxWatchdog(from, done) = now + (MaxMs - (now - sum))
<1> DEFINE e == effectiveElapsedMs(from, done, now)
<1>1. e = (IF now > sum THEN now - sum ELSE 0)
  BY DEF effectiveElapsedMs, Larger
<1> HIDE DEF e
<1>2. scheduleMaxWatchdog(from, done) = now + (IF 0 > MaxMs - e THEN 0 ELSE MaxMs - e)
  BY DEF scheduleMaxWatchdog, Larger, e
<1> QED  BY <1>1, <1>2 DEF e

LEMMA WallInit == RunWatchdogAssumption /\ Init => WallInv
<1> SUFFICES ASSUME Init PROVE WallInv
  BY RunWatchdogAssumption
<1>1. /\ now = 0 /\ status = "running" /\ lastChunkAt = 0 /\ startedAt = [t \in {} |-> 0]
      /\ toolTimeDone = 0 /\ idleTimer = [does |-> "check", at |-> IdleMs]
      /\ maxTimers = {MaxMs} /\ agentTime = 0 /\ overlapped = FALSE
  BY DEF Init
<1>2. Inflight = {} /\ DOMAIN startedAt = {} /\ IsFiniteSet({})
  BY <1>1, FS_EmptySet DEF Inflight
<1>3. TypeOK
  <2>1. /\ now \in 0..Horizon /\ lastChunkAt \in 0..now /\ agentTime \in 0..now
        /\ toolTimeDone \in Nat /\ maxTimers \in SUBSET Nat
    BY <1>1, RunWatchdogAssumption
  <2>2. idleTimer \in [does : {"check", "schedule"}, at : Nat]
    BY <1>1, RunWatchdogAssumption
  <2>3. Inflight \subseteq Tools /\ \A t \in Inflight : startedAt[t] \in 0..now
    BY <1>2
  <2> QED  BY <1>1, <2>1, <2>2, <2>3 DEF TypeOK
<1>4. SumFunction(durations(startedAt, 0)) = 0
  BY <1>2, DurationsAdd
<1>5. discounted(startedAt, toolTimeDone, now) = 0
  BY <1>1, <1>4 DEF discounted, durations
<1> QED  BY <1>1, <1>2, <1>3, <1>5, RunWatchdogAssumption DEF WallInv

\* What both clocks show together.
LEMMA WallFacts ==
    ASSUME WallInv
    PROVE  \E sum \in Nat :
             /\ discounted(startedAt, toolTimeDone, now) = toolTimeDone + sum
             /\ sum = SumFunction(durations(startedAt, now))
             /\ Summands(durations(startedAt, now))
<1>1. /\ IsFiniteSet(DOMAIN startedAt) /\ now \in Nat
      /\ \A t \in DOMAIN startedAt : startedAt[t] \in Nat /\ startedAt[t] <= now
  BY WallTypes DEF WallInv, Inflight
<1>2. Summands(durations(startedAt, now)) /\ SumFunction(durations(startedAt, now)) \in Nat
  BY <1>1, DurationsAdd
<1> QED  BY <1>2 DEF discounted, durations

\* Clocks, tools and wall-clock timers stay.
LEMMA WallStays ==
    ASSUME WallInv, TypeOK', UNCHANGED <<now, startedAt, toolTimeDone, maxTimers, agentTime, overlapped>>,
           status' = "running" => status = "running", status' = "max_timeout" => status = "max_timeout"
    PROVE  WallInv'
  BY DEF WallInv, Inflight, discounted

LEMMA ToolCallKeeps ==
    ASSUME WallInv, NEW t \in Tools, ToolCall(t)
    PROVE  WallInv'
<1> DEFINE f == durations(startedAt, now)
           g == durations(startedAt', now)
<1>1. /\ status = "running" /\ t \notin Inflight /\ lastChunkAt' = now
      /\ startedAt' = [u \in Inflight \cup {t} |-> IF u = t THEN now ELSE startedAt[u]]
      /\ overlapped' = (overlapped \/ Inflight # {})
      /\ UNCHANGED <<now, status, toolTimeDone, idleTimer, maxTimers, agentTime>>
  BY DEF ToolCall
<1>2. /\ TypeOK /\ IsFiniteSet(Inflight) /\ startedAt \in [Inflight -> Nat] /\ Inflight \subseteq Tools
      /\ overlapped \in BOOLEAN
  BY DEF WallInv, TypeOK
<1>3. /\ Inflight' = Inflight \cup {t} /\ DOMAIN startedAt' = Inflight \cup {t}
      /\ \A u \in Inflight : startedAt'[u] = startedAt[u]
      /\ startedAt'[t] = now
  BY <1>1 DEF Inflight
<1>4. IsFiniteSet(Inflight') /\ startedAt' \in [Inflight' -> Nat]
  BY <1>1, <1>2, <1>3, FS_AddElement, WallTypes
<1>5. TypeOK'
  <2>1. \A u \in Inflight' : startedAt'[u] \in 0..now
    BY <1>1, <1>2, <1>3, WallTypes
  <2>2. overlapped' \in BOOLEAN /\ lastChunkAt' \in 0..now
    BY <1>1, <1>2, WallTypes
  <2>3. Inflight' \subseteq Tools
    BY <1>2, <1>3
  <2> QED  BY <1>1, <1>2, <2>1, <2>2, <2>3 DEF TypeOK
<1>6. /\ Summands(f) /\ DOMAIN f = Inflight /\ SumFunction(f) \in Nat
      /\ \A u \in Inflight : f[u] = now - startedAt[u]
  BY <1>2, WallTypes, DurationsAdd DEF Inflight
<1>7. /\ Summands(g) /\ DOMAIN g = Inflight \cup {t} /\ SumFunction(g) \in Nat
      /\ \A u \in Inflight \cup {t} : g[u] = now - startedAt'[u]
  <2>1. /\ now \in Nat /\ IsFiniteSet(DOMAIN startedAt')
        /\ \A u \in DOMAIN startedAt' : startedAt'[u] \in Nat /\ startedAt'[u] <= now
    BY <1>2, <1>3, <1>4, WallTypes
  <2> QED  BY <1>3, <2>1, DurationsAdd
<1> HIDE DEF f, g
<1>8. g[t] = 0 /\ \A u \in Inflight : g[u] = f[u]
  BY <1>2, <1>3, <1>6, <1>7, WallTypes
<1>9. SumFunction(g) = g[t] + SumFunction(f)
  BY <1>1, <1>6, <1>7, <1>8, SumWith
<1>10. discounted(startedAt, toolTimeDone, now)' = discounted(startedAt, toolTimeDone, now)
  BY <1>1, <1>6, <1>8, <1>9 DEF discounted, durations, f, g
<1>11. ~overlapped' => ~overlapped /\ \A u, v \in Inflight' : u = v
  BY <1>1, <1>2, <1>3
<1> QED  BY <1>1, <1>4, <1>5, <1>10, <1>11 DEF WallInv

LEMMA ToolResultKeeps ==
    ASSUME WallInv, NEW t \in Tools, ToolResult(t)
    PROVE  WallInv'
<1> DEFINE from == [u \in Inflight \ {t} |-> startedAt[u]]
           done == toolTimeDone + toolTime(t)
           f == durations(startedAt, now)
           g == durations(from, now)
<1>1. /\ status = "running" /\ t \in Inflight /\ lastChunkAt' = now
      /\ startedAt' = from /\ toolTimeDone' = done
      /\ maxTimers' = maxTimers \cup {scheduleMaxWatchdog(from, done)}
      /\ UNCHANGED <<now, status, idleTimer, agentTime, overlapped>>
  BY DEF ToolResult
<1>2. /\ TypeOK /\ IsFiniteSet(Inflight) /\ startedAt \in [Inflight -> Nat] /\ Inflight \subseteq Tools
      /\ now \in Nat /\ toolTimeDone \in Nat /\ agentTime \in Nat /\ MaxMs \in Nat
      /\ maxTimers \in SUBSET Nat
      /\ \A u \in Inflight : startedAt[u] \in Nat /\ startedAt[u] <= now
  BY WallTypes DEF WallInv, TypeOK
<1>3. /\ DOMAIN from = Inflight \ {t} /\ \A u \in Inflight \ {t} : from[u] = startedAt[u]
      /\ from \in [Inflight \ {t} -> Nat]
  BY <1>2
<1> HIDE DEF from
<1>4. Inflight' = Inflight \ {t} /\ IsFiniteSet(Inflight \ {t})
  BY <1>1, <1>2, <1>3, FS_RemoveElement DEF Inflight
<1>5. done \in Nat /\ done = toolTimeDone + (now - startedAt[t])
  BY <1>1, <1>2 DEF toolTime
<1> HIDE DEF done
<1>6. /\ Summands(f) /\ DOMAIN f = Inflight /\ SumFunction(f) \in Nat
      /\ \A u \in Inflight : f[u] = now - startedAt[u]
  BY <1>2, DurationsAdd DEF Inflight
<1>7. /\ Summands(g) /\ DOMAIN g = Inflight \ {t} /\ SumFunction(g) \in Nat
      /\ \A u \in Inflight \ {t} : g[u] = now - from[u]
  BY <1>2, <1>3, <1>4, DurationsAdd
<1> HIDE DEF f, g
<1>8. SumFunction(f) = f[t] + SumFunction(g)
  <2>1. DOMAIN f = DOMAIN g \cup {t} /\ t \notin DOMAIN g /\ \A u \in DOMAIN g : f[u] = g[u]
    BY <1>1, <1>3, <1>6, <1>7
  <2> QED  BY <1>6, <1>7, <2>1, SumWith
<1>9. f[t] = now - startedAt[t] /\ f[t] \in Nat
  BY <1>1, <1>2, <1>6
<1>10. done + SumFunction(g) = toolTimeDone + SumFunction(f)
  BY <1>2, <1>5, <1>6, <1>7, <1>8, <1>9
<1>11. /\ discounted(startedAt, toolTimeDone, now) = toolTimeDone + SumFunction(f)
       /\ discounted(from, done, now) = done + SumFunction(g)
       /\ discounted(startedAt, toolTimeDone, now)' = done + SumFunction(g)
  BY <1>1 DEF discounted, durations, f, g
<1>12. scheduleMaxWatchdog(from, done) \in Nat
  <2> DEFINE sum == done + SumFunction(g)
  <2>1. sum \in Nat
    BY <1>5, <1>7
  <2> QED  BY <1>2, <1>5, <1>11, <2>1, TimerArmed
<1>13. TypeOK'
  <2>1. \A u \in Inflight' : startedAt'[u] \in 0..now
    BY <1>1, <1>2, <1>3, <1>4
  <2>2. lastChunkAt' \in 0..now /\ toolTimeDone' \in Nat /\ Inflight' \subseteq Tools
    BY <1>1, <1>2, <1>4, <1>5
  <2> DEFINE due == scheduleMaxWatchdog(from, done)
  <2>3. due \in Nat /\ maxTimers' = maxTimers \cup {due}
    BY <1>1, <1>12
  <2> HIDE DEF due
  <2>4. maxTimers' \in SUBSET Nat
    BY <1>2, <2>3
  <2> QED  BY <1>1, <1>2, <2>1, <2>2, <2>4 DEF TypeOK
<1>14. startedAt' \in [Inflight' -> Nat] /\ IsFiniteSet(Inflight')
  BY <1>1, <1>3, <1>4
<1>15. ~overlapped => \A u, v \in Inflight' : u = v
  BY <1>4 DEF WallInv
<1> QED  BY <1>1, <1>10, <1>11, <1>13, <1>14, <1>15 DEF WallInv

LEMMA MaxCheckKeeps ==
    ASSUME WallInv, MaxCheck
    PROVE  WallInv'
<1> DEFINE next == scheduleMaxWatchdog(startedAt, toolTimeDone)
           e == effectiveElapsedMs(startedAt, toolTimeDone, now)
           sum == discounted(startedAt, toolTimeDone, now)
<1>1. /\ status = "running" /\ now \in maxTimers
      /\ UNCHANGED <<now, lastChunkAt, startedAt, toolTimeDone, idleTimer, agentTime, overlapped>>
  BY DEF MaxCheck
<1>2. /\ TypeOK /\ now \in Nat /\ toolTimeDone \in Nat /\ agentTime \in Nat /\ agentTime <= now
      /\ MaxMs \in Nat \ {0} /\ maxTimers \in SUBSET Nat
  BY WallTypes DEF WallInv
<1>3. sum \in Nat
  BY <1>2, WallFacts
<1>4. /\ now - agentTime <= sum
      /\ ~overlapped => now - agentTime = sum
  BY DEF WallInv
<1>5. /\ e = (IF now > sum THEN now - sum ELSE 0) /\ next \in Nat /\ next >= now
      /\ now >= sum /\ now - sum <= MaxMs => next = now + (MaxMs - (now - sum))
  <2> DEFINE s == sum
  <2>1. s \in Nat /\ s = discounted(startedAt, toolTimeDone, now)
    BY <1>3
  <2> HIDE DEF s
  <2>2. /\ e = (IF now > s THEN now - s ELSE 0) /\ next \in Nat /\ next >= now
        /\ now >= s /\ now - s <= MaxMs => next = now + (MaxMs - (now - s))
    BY <1>2, <2>1, TimerArmed
  <2> QED  BY <2>2 DEF s
<1>6. \/ e < MaxMs /\ maxTimers' = (maxTimers \ {now}) \cup {next} /\ status' = status
      \/ ~(e < MaxMs) /\ maxTimers' = maxTimers \ {now} /\ status' = "max_timeout"
  BY DEF MaxCheck
<1>7. sum' = sum /\ Inflight' = Inflight
  BY <1>1 DEF discounted, Inflight
<1> HIDE DEF next, e, sum
<1>8. TypeOK'
  BY <1>1, <1>2, <1>5, <1>6, <1>7 DEF TypeOK
<1>9. status' = "max_timeout" => agentTime' >= MaxMs
  BY <1>1, <1>2, <1>3, <1>4, <1>5, <1>6
<1>10. status' = "running" /\ ~overlapped' => next \in maxTimers' /\ now <= next /\ agentTime + (next - now) <= MaxMs
  BY <1>1, <1>2, <1>3, <1>4, <1>5, <1>6
<1> QED  BY <1>1, <1>7, <1>8, <1>9, <1>10 DEF WallInv, sum

LEMMA TickKeeps ==
    ASSUME WallInv, Tick
    PROVE  WallInv'
<1> DEFINE f == durations(startedAt, now)
           g == durations(startedAt, now + 1)
<1>1. /\ status = "running" /\ now < Horizon /\ now \notin maxTimers /\ now' = now + 1
      /\ agentTime' = agentTime + (IF Inflight = {} THEN 1 ELSE 0)
      /\ UNCHANGED <<status, lastChunkAt, startedAt, toolTimeDone, idleTimer, maxTimers, overlapped>>
  BY DEF Tick
<1>2. /\ TypeOK /\ IsFiniteSet(Inflight)
      /\ now \in Nat /\ toolTimeDone \in Nat /\ agentTime \in Nat /\ MaxMs \in Nat
      /\ maxTimers \in SUBSET Nat /\ agentTime <= now
      /\ \A u \in Inflight : startedAt[u] \in Nat /\ startedAt[u] <= now
  BY WallTypes DEF WallInv
<1>3. Inflight' = Inflight /\ Inflight = DOMAIN startedAt
  BY <1>1 DEF Inflight
<1>4. /\ Summands(f) /\ DOMAIN f = Inflight /\ SumFunction(f) \in Nat
      /\ Inflight = {} => SumFunction(f) = 0
      /\ \A u \in Inflight : f[u] = now - startedAt[u]
  BY <1>2, <1>3, DurationsAdd
<1>5. /\ Summands(g) /\ DOMAIN g = Inflight /\ SumFunction(g) \in Nat
      /\ \A u \in Inflight : g[u] = (now + 1) - startedAt[u]
  <2>1. now + 1 \in Nat /\ \A u \in Inflight : startedAt[u] \in Nat /\ startedAt[u] <= now + 1
    BY <1>2
  <2> QED  BY <1>2, <1>3, <2>1, DurationsAdd
<1> HIDE DEF f, g
<1>6. SumFunction(g) = SumFunction(f) + Cardinality(Inflight)
  <2>1. \A u \in Inflight : g[u] = f[u] + 1
    BY <1>2, <1>4, <1>5
  <2> QED  BY <1>4, <1>5, <2>1, SumGrown
<1>7. /\ discounted(startedAt, toolTimeDone, now) = toolTimeDone + SumFunction(f)
      /\ discounted(startedAt, toolTimeDone, now)' = toolTimeDone + SumFunction(g)
  BY <1>1 DEF discounted, durations, f, g
<1>8. /\ Cardinality(Inflight) \in Nat
      /\ (Inflight = {} <=> Cardinality(Inflight) = 0)
      /\ ~overlapped => Cardinality(Inflight) <= 1
  <2>1. Cardinality(Inflight) \in Nat /\ (Inflight = {} <=> Cardinality(Inflight) = 0)
    BY <1>2, FS_CardinalityType, FS_EmptySet
  <2>2. ASSUME ~overlapped, Inflight # {} PROVE Cardinality(Inflight) = 1
    <3>1. PICK u \in Inflight : TRUE
      BY <2>2
    <3>2. Inflight = {u}
      BY <2>2, <3>1 DEF WallInv
    <3> QED  BY <3>2, FS_Singleton
  <2> QED  BY <2>1, <2>2
<1>9. agentTime' \in Nat /\ agentTime' <= now' /\ now' \in 0..Horizon
  BY <1>1, <1>2, RunWatchdogAssumption
<1>10. TypeOK'
  <2>1. lastChunkAt' \in 0..now' /\ \A u \in Inflight' : startedAt'[u] \in 0..now'
    BY <1>1, <1>2, <1>3, WallTypes
  <2> QED  BY <1>1, <1>2, <1>3, <1>9, <2>1 DEF TypeOK
<1>11. /\ now' - agentTime' <= discounted(startedAt, toolTimeDone, now)'
       /\ ~overlapped => now' - agentTime' = discounted(startedAt, toolTimeDone, now)'
  <2>1. /\ now - agentTime <= toolTimeDone + SumFunction(f)
        /\ ~overlapped => now - agentTime = toolTimeDone + SumFunction(f)
    BY <1>7 DEF WallInv
  <2>2. CASE Inflight = {}
    <3>1. agentTime' = agentTime + 1 /\ SumFunction(g) = SumFunction(f)
      BY <1>1, <1>4, <1>6, <1>8, <2>2
    <3> QED  BY <1>1, <1>2, <1>4, <1>7, <2>1, <3>1
  <2>3. CASE Inflight # {}
    <3>1. /\ agentTime' = agentTime /\ SumFunction(g) >= SumFunction(f) + 1
          /\ ~overlapped => SumFunction(g) = SumFunction(f) + 1
      BY <1>1, <1>2, <1>4, <1>6, <1>8, <2>3
    <3> QED  BY <1>1, <1>2, <1>4, <1>5, <1>7, <2>1, <3>1
  <2> QED  BY <2>2, <2>3
<1>12. ~overlapped => \E x \in maxTimers' : now' <= x /\ agentTime' + (x - now') <= MaxMs
  <2> SUFFICES ASSUME ~overlapped
               PROVE  \E x \in maxTimers' : now' <= x /\ agentTime' + (x - now') <= MaxMs
    OBVIOUS
  <2>1. PICK x \in maxTimers : now <= x /\ agentTime + (x - now) <= MaxMs
    BY <1>1 DEF WallInv
  <2>2. x \in Nat /\ x # now /\ agentTime' <= agentTime + 1 /\ agentTime' \in Nat
    BY <1>1, <1>2, <2>1
  <2>3. now' <= x /\ agentTime' + (x - now') <= MaxMs
    BY <1>1, <1>2, <2>1, <2>2
  <2> QED  BY <1>1, <2>1, <2>3
<1>13. startedAt' \in [Inflight' -> Nat] /\ IsFiniteSet(Inflight') /\ status' # "max_timeout"
       /\ (~overlapped' => \A u, v \in Inflight' : u = v)
  BY <1>1, <1>3 DEF WallInv
<1> QED  BY <1>1, <1>10, <1>11, <1>12, <1>13 DEF WallInv

\* The idle watchdog moves its own timer, or ends the run.
LEMMA IdleMovesKeep ==
    ASSUME WallInv, Chunk \/ Settle \/ IdleCheck \/ IdleSchedule
    PROVE  WallInv'
<1>1. TypeOK /\ now \in Nat /\ lastChunkAt \in Nat /\ lastChunkAt <= now /\ IdleMs \in Nat
  BY WallTypes DEF WallInv
<1>2. scheduleIdleWatchdog(lastChunkAt) \in [does : {"check", "schedule"}, at : Nat]
  BY <1>1 DEF scheduleIdleWatchdog, Larger
<1>3. [does |-> "schedule", at |-> now + IdleMs] \in [does : {"check", "schedule"}, at : Nat]
  BY <1>1
<1>4. /\ UNCHANGED <<now, startedAt, toolTimeDone, maxTimers, agentTime, overlapped>>
      /\ status = "running" /\ status' \in {"running", "settled", "idle_timeout"}
      /\ lastChunkAt' \in {lastChunkAt, now}
  BY DEF Chunk, Settle, IdleCheck, IdleSchedule
<1>5. idleTimer' \in {idleTimer, scheduleIdleWatchdog(lastChunkAt), [does |-> "schedule", at |-> now + IdleMs]}
  BY DEF Chunk, Settle, IdleCheck, IdleSchedule
<1>6. idleTimer' \in [does : {"check", "schedule"}, at : Nat]
  BY <1>1, <1>2, <1>3, <1>5 DEF TypeOK
<1>7. TypeOK'
  BY <1>1, <1>4, <1>6 DEF TypeOK, Inflight
<1> QED  BY <1>4, <1>7, WallStays

LEMMA WallNext == WallInv /\ [Next]_vars => WallInv'
<1> SUFFICES ASSUME WallInv, [Next]_vars PROVE WallInv'
  OBVIOUS
<1>1. CASE UNCHANGED vars
  <2>1. TypeOK'
    BY <1>1 DEF vars, WallInv, TypeOK, Inflight
  <2> QED  BY <1>1, <2>1, WallStays DEF vars
<1> QED
  BY <1>1, ToolCallKeeps, ToolResultKeeps, MaxCheckKeeps, TickKeeps, IdleMovesKeep DEF Next

LEMMA WallInvImplies == WallInv => TypeOK /\ WallClockSound
<1> SUFFICES ASSUME WallInv PROVE WallClockSound
  BY DEF WallInv
<1>1. status = "max_timeout" => agentTime >= MaxMs
  BY DEF WallInv
<1>2. ASSUME status = "running", ~overlapped PROVE agentTime <= MaxMs
  <2>1. PICK x \in maxTimers : now <= x /\ agentTime + (x - now) <= MaxMs
    BY <1>2 DEF WallInv
  <2>2. x \in Nat /\ now \in Nat /\ agentTime \in Nat /\ MaxMs \in Nat
    BY WallTypes DEF WallInv
  <2> QED  BY <2>1, <2>2
<1> QED  BY <1>1, <1>2 DEF WallClockSound

\* The variables of a run's watchdogs have their types in every state.
THEOREM WatchdogTyped == Spec => []TypeOK
  BY RunWatchdogAssumption, WallInit, WallNext, WallInvImplies, PTL DEF Spec

\* The wall clock kills no run early, and with one tool at a time none late.
THEOREM WallClockIsSound == Spec => []WallClockSound
  BY RunWatchdogAssumption, WallInit, WallNext, WallInvImplies, PTL DEF Spec

----------------------------------------------------------------------------
(* The budget of a delegating turn.                                        *)

Turns == DOMAIN root \cup Handoffs

\* A turn owns, or waits for, the thread of its own agent.
Placed ==
    \A a \in Agents :
        /\ owner[a] # NoTurn => owner[a] \in Turns /\ agentOf(owner[a]) = a
        /\ \A t \in pending[a] : t \in Turns /\ agentOf(t) = a

\* Above a handoff are turns of other agents.
Chained ==
    \A h \in Handoffs :
        /\ handoff[h].root \in DOMAIN root /\ handoff[h].parent \in Turns
        /\ \A u \in handoff[h].chain : u \in Turns /\ agentOf(u) # handoff[h].agent

Spending == \A h \in Handoffs : handoff[h].reserved > 0 => handoff[h].phase = "streaming"

\* A budget out of which `held` is reserved.
Solvent(b, held) ==
    /\ b.reserved = held
    /\ ~b.overran => b.committed + b.reserved <= b.maxCostUsd
    /\ b.overran => Price > 0 /\ (b.exceeded \/ b.committed >= b.maxCostUsd)

Budgeted == \A r \in DOMAIN root : Solvent(root[r], SumFunction(reservations(r)))

DelegationInv == DelegationTypeOK /\ Placed /\ Chained /\ Spending /\ Budgeted

LEMMA DelegationTypes ==
    ASSUME DelegationTypeOK
    PROVE  /\ Len(handoff) \in Nat /\ DOMAIN handoff = Handoffs /\ Handoffs \subseteq 1..MaxHandoffs
           /\ handoff \in [Handoffs -> HandoffRecords]
           /\ \A h \in Handoffs : handoff[h] \in HandoffRecords /\ h \notin Roots
           /\ \A r \in DOMAIN root : root[r] \in RootRecords /\ r \in Roots
           /\ NoTurn \notin Turns /\ Turns \subseteq Roots \cup (1..MaxHandoffs)
           /\ Price \in Nat /\ MaxHandoffs \in Nat
<1>1. /\ handoff \in Seq(HandoffRecords) /\ Len(handoff) <= MaxHandoffs /\ DOMAIN root \subseteq Roots
      /\ root \in [DOMAIN root -> RootRecords]
  BY DEF DelegationTypeOK
<1>2. /\ NoTurn \notin Roots \cup (1..MaxHandoffs) /\ Roots \cap (1..MaxHandoffs) = {}
      /\ Price \in Nat /\ MaxHandoffs \in Nat
  BY DelegationAssumption
<1>3. Len(handoff) \in Nat /\ DOMAIN handoff = Handoffs /\ handoff \in [Handoffs -> HandoffRecords]
  BY <1>1 DEF Handoffs
<1>4. Handoffs \subseteq 1..MaxHandoffs
  BY <1>1, <1>2, <1>3 DEF Handoffs
<1> QED  BY <1>1, <1>2, <1>3, <1>4 DEF Turns

LEMMA AsSequence ==
    ASSUME NEW S, NEW n \in Nat, NEW f \in [1..n -> S]
    PROVE  f \in Seq(S) /\ Len(f) = n
  OBVIOUS

----------------------------------------------------------------------------
(* The records.                                                            *)

\* What never changes of a handoff.
Kin(c, d) == d.root = c.root /\ d.parent = c.parent /\ d.agent = c.agent /\ d.chain = c.chain

LEMMA HandoffUpdates ==
    ASSUME NEW c \in HandoffRecords, NEW x \in BOOLEAN, NEW phase \in HandoffPhases
    PROVE  /\ LET d == [c EXCEPT !.told = "abandoned"]
              IN  d \in HandoffRecords /\ Kin(c, d) /\ d.phase = c.phase /\ d.reserved = c.reserved
           /\ LET d == [c EXCEPT !.aborted = TRUE]
              IN  d \in HandoffRecords /\ Kin(c, d) /\ d.phase = c.phase /\ d.reserved = c.reserved
           /\ LET d == [c EXCEPT !.phase = phase, !.aborted = x]
              IN  d \in HandoffRecords /\ Kin(c, d) /\ d.phase = phase /\ d.reserved = c.reserved
           /\ LET d == [c EXCEPT !.reserved = Price]
              IN  d \in HandoffRecords /\ Kin(c, d) /\ d.phase = c.phase /\ d.reserved = Price
           /\ LET d == [c EXCEPT !.phase = "settled", !.reserved = 0, !.told = "answered"]
              IN  d \in HandoffRecords /\ Kin(c, d) /\ d.phase = "settled" /\ d.reserved = 0
  BY DEF HandoffRecords, HandoffPhases, Kin

\* The money of a budget.
SameMoney(b, c) ==
    /\ c.reserved = b.reserved /\ c.committed = b.committed /\ c.maxCostUsd = b.maxCostUsd
    /\ c.exceeded = b.exceeded /\ c.overran = b.overran

LEMMA RootUpdates ==
    ASSUME NEW b \in RootRecords, NEW phase \in {"idle", "queued", "running", "done"}
    PROVE  /\ [b EXCEPT !.phase = phase] \in RootRecords /\ SameMoney(b, [b EXCEPT !.phase = phase])
           /\ [b EXCEPT !.stopped = TRUE] \in RootRecords /\ SameMoney(b, [b EXCEPT !.stopped = TRUE])
           /\ [b EXCEPT !.expired = TRUE] \in RootRecords /\ SameMoney(b, [b EXCEPT !.expired = TRUE])
           /\ [b EXCEPT !.calls = @ + 1] \in RootRecords /\ SameMoney(b, [b EXCEPT !.calls = @ + 1])
<1>1. [b EXCEPT !.phase = phase] \in RootRecords /\ SameMoney(b, [b EXCEPT !.phase = phase])
  BY DEF RootRecords, SameMoney
<1>2. [b EXCEPT !.stopped = TRUE] \in RootRecords /\ SameMoney(b, [b EXCEPT !.stopped = TRUE])
  BY DEF RootRecords, SameMoney
<1>3. [b EXCEPT !.expired = TRUE] \in RootRecords /\ SameMoney(b, [b EXCEPT !.expired = TRUE])
  BY DEF RootRecords, SameMoney
<1>4. [b EXCEPT !.calls = @ + 1] \in RootRecords /\ SameMoney(b, [b EXCEPT !.calls = @ + 1])
  BY DEF RootRecords, SameMoney
<1> QED  BY <1>1, <1>2, <1>3, <1>4

LEMMA SettledTypes ==
    ASSUME NEW b \in RootRecords, NEW amount \in {0, Price}, NEW actual \in Actual, Price \in Nat
    PROVE  settledBudget(b, amount, actual) \in RootRecords
<1> DEFINE paid == charged(amount, actual)
           committed == b.committed + paid
           reserved == IF b.reserved > amount THEN b.reserved - amount ELSE 0
           exceeded == IF actual > amount \/ committed >= b.maxCostUsd
                       THEN actual > amount \/ committed > b.maxCostUsd ELSE b.exceeded
           overran == b.overran \/ actual > amount
<1>1. CASE amount = 0
  BY <1>1 DEF settledBudget
<1>2. CASE amount # 0
  <2>1. paid \in Nat /\ amount \in Nat
    BY DEF Actual, charged
  <2>2. b.reserved \in Nat /\ b.committed \in Nat /\ b.exceeded \in BOOLEAN /\ b.overran \in BOOLEAN
    BY DEF RootRecords
  <2>3. settledBudget(b, amount, actual)
          = [b EXCEPT !.reserved = reserved, !.committed = committed, !.exceeded = exceeded, !.overran = overran]
    BY <1>2, <2>2 DEF settledBudget
  <2> HIDE DEF paid
  <2>4. committed \in Nat /\ reserved \in Nat
    BY <2>1, <2>2
  <2>5. overran \in BOOLEAN /\ exceeded \in BOOLEAN
    <3> HIDE DEF committed
    <3>1. (actual > amount \/ committed > b.maxCostUsd) \in BOOLEAN
      OBVIOUS
    <3> QED  BY <2>2, <3>1
  <2> HIDE DEF committed, reserved, exceeded, overran
  <2> QED  BY <2>3, <2>4, <2>5 DEF RootRecords
<1> QED  BY <1>1, <1>2

\* What a reservation is settled for comes out of the budget; only an overrun
\* takes it over its ceiling, and closes it.
LEMMA SettledBudgets ==
    ASSUME NEW b \in RootRecords, NEW amount \in {0, Price}, NEW actual \in Actual, NEW rest \in Nat,
           Price \in Nat, Solvent(b, amount + rest)
    PROVE  /\ settledBudget(b, amount, actual) \in RootRecords
           /\ Solvent(settledBudget(b, amount, actual), rest)
<1> DEFINE c == settledBudget(b, amount, actual)
           paid == charged(amount, actual)
           overrun == actual > amount
<1>1. CASE amount = 0
  BY <1>1 DEF settledBudget
<1>2. CASE amount # 0
  <2>1. amount = Price /\ Price > 0 /\ actual \in Nat
    BY <1>2 DEF Actual
  <2>2. paid \in Nat /\ overrun \in BOOLEAN /\ (~overrun => paid <= amount)
    BY <2>1 DEF charged
  <2> DEFINE committed == b.committed + paid
             reserved == IF b.reserved > amount THEN b.reserved - amount ELSE 0
             exceeded == IF overrun \/ committed >= b.maxCostUsd
                         THEN overrun \/ committed > b.maxCostUsd ELSE b.exceeded
             overran == b.overran \/ overrun
  <2>3. /\ b.reserved \in Nat /\ b.committed \in Nat /\ b.maxCostUsd \in Nat
        /\ b.exceeded \in BOOLEAN /\ b.overran \in BOOLEAN
    BY DEF RootRecords
  <2>4. c = [b EXCEPT !.reserved = reserved, !.committed = committed, !.exceeded = exceeded,
                      !.overran = overran]
    BY <1>2, <2>3 DEF settledBudget
  <2> HIDE DEF c, paid, overrun
  <2>5. committed \in Nat /\ committed = b.committed + paid
    BY <2>2, <2>3
  <2>6. /\ b.reserved = amount + rest
        /\ ~b.overran => b.committed + b.reserved <= b.maxCostUsd
        /\ b.overran => b.exceeded \/ b.committed >= b.maxCostUsd
    BY DEF Solvent
  <2> HIDE DEF committed
  <2>7. /\ exceeded \in BOOLEAN /\ overran \in BOOLEAN
        /\ overran <=> b.overran \/ overrun
        /\ overrun \/ committed > b.maxCostUsd => exceeded
        /\ b.exceeded /\ committed < b.maxCostUsd => exceeded
    <3>1. CASE overrun
      BY <2>3, <2>5, <3>1
    <3>2. CASE ~overrun /\ committed >= b.maxCostUsd
      BY <2>3, <2>5, <3>2
    <3>3. CASE ~overrun /\ ~(committed >= b.maxCostUsd)
      BY <2>3, <2>5, <3>3
    <3> QED  BY <3>1, <3>2, <3>3
  <2>8. reserved = rest
    <3>1. b.reserved = amount + rest /\ (IF b.reserved > amount THEN b.reserved - amount ELSE 0) = reserved
      BY <2>6
    <3> HIDE DEF reserved
    <3> QED  BY <2>1, <3>1
  <2> HIDE DEF reserved, exceeded, overran
  <2>9. /\ c \in RootRecords
        /\ c.reserved = rest /\ c.committed = committed /\ c.maxCostUsd = b.maxCostUsd
        /\ c.exceeded = exceeded /\ c.overran = overran
    BY <2>4, <2>5, <2>7, <2>8 DEF RootRecords
  <2>10. ~overran => committed + rest <= b.maxCostUsd
    BY <2>1, <2>2, <2>3, <2>5, <2>6, <2>7
  <2>11. overran => exceeded \/ committed >= b.maxCostUsd
    BY <2>2, <2>3, <2>5, <2>6, <2>7
  <2>12. Solvent(c, rest)
    BY <2>1, <2>9, <2>10, <2>11 DEF Solvent
  <2> QED  BY <2>9, <2>12 DEF c
<1> QED  BY <1>1, <1>2

LEMMA ReservedBudgets ==
    ASSUME NEW b \in RootRecords, NEW r, NEW rest \in Nat, Price \in Nat, Solvent(b, rest), reservable(r, b)
    PROVE  [b EXCEPT !.reserved = @ + Price] \in RootRecords /\ Solvent([b EXCEPT !.reserved = @ + Price], Price + rest)
<1> DEFINE c == [b EXCEPT !.reserved = @ + Price]
<1>1. /\ b.reserved \in Nat /\ b.committed \in Nat /\ b.maxCostUsd \in Nat
      /\ b.exceeded \in BOOLEAN /\ b.overran \in BOOLEAN
  BY DEF RootRecords
<1>2. c \in RootRecords
  BY <1>1 DEF RootRecords
<1>3. /\ c.reserved = b.reserved + Price /\ c.committed = b.committed /\ c.maxCostUsd = b.maxCostUsd
      /\ c.exceeded = b.exceeded /\ c.overran = b.overran
  BY DEF RootRecords
<1> HIDE DEF c
<1>4. ~b.exceeded /\ b.committed + b.reserved + Price <= b.maxCostUsd
  BY DEF reservable
<1> QED  BY <1>1, <1>2, <1>3, <1>4 DEF Solvent, c

----------------------------------------------------------------------------
(* What a step does to the sums.                                           *)

\* The handoffs as they stand after a step that queues none.
Rewritten == DOMAIN handoff' = Handoffs /\ handoff' \in [Handoffs -> HandoffRecords]

LEMMA RewrittenSequence ==
    ASSUME DelegationTypeOK, Rewritten
    PROVE  /\ handoff' \in Seq(HandoffRecords) /\ Len(handoff') = Len(handoff) /\ Handoffs' = Handoffs
           /\ \A h \in Handoffs : handoff'[h] \in HandoffRecords
<1>1. Len(handoff) \in Nat
  BY DelegationTypes
<1>2. handoff' \in [1..Len(handoff) -> HandoffRecords]
  BY DEF Rewritten, Handoffs
<1>3. handoff' \in Seq(HandoffRecords) /\ Len(handoff') = Len(handoff)
  BY <1>1, <1>2, AsSequence
<1> QED  BY <1>2, <1>3 DEF Handoffs

\* What each of the calls has reserved for root r.
heldBy(calls, r) == [h \in 1..Len(calls) |-> IF calls[h].root = r THEN calls[h].reserved ELSE 0]

LEMMA Reservations ==
    ASSUME NEW calls \in Seq(HandoffRecords), NEW r
    PROVE  /\ Summands(heldBy(calls, r)) /\ DOMAIN heldBy(calls, r) = 1..Len(calls)
           /\ \A h \in 1..Len(calls) : heldBy(calls, r)[h] = (IF calls[h].root = r THEN calls[h].reserved ELSE 0)
<1> DEFINE n == Len(calls)
<1>1. n \in Nat /\ \A h \in 1..n : calls[h] \in HandoffRecords
  OBVIOUS
<1>2. \A h \in 1..n : calls[h].reserved \in Nat
  BY <1>1, DelegationAssumption DEF HandoffRecords
<1>3. heldBy(calls, r) = [h \in 1..n |-> IF calls[h].root = r THEN calls[h].reserved ELSE 0]
  BY DEF heldBy
<1> HIDE DEF n
<1>4. /\ DOMAIN heldBy(calls, r) = 1..n /\ heldBy(calls, r) \in [1..n -> Nat]
      /\ \A h \in 1..n : heldBy(calls, r)[h] = (IF calls[h].root = r THEN calls[h].reserved ELSE 0)
  BY <1>2, <1>3
<1>5. IsFiniteSet(1..n)
  BY <1>1, FS_Interval
<1> QED  BY <1>4, <1>5 DEF Summands, n

LEMMA NextReservations ==
    ASSUME DelegationTypeOK', NEW r
    PROVE  /\ Summands(reservations(r)') /\ DOMAIN reservations(r)' = Handoffs'
           /\ \A h \in Handoffs' :
                reservations(r)'[h] = (IF handoff'[h].root = r THEN handoff'[h].reserved ELSE 0)
<1> DEFINE g == reservations(r)'
<1>1. g = heldBy(handoff', r) /\ Handoffs' = 1..Len(handoff')
  BY DEF reservations, Handoffs, heldBy
<1>2. handoff' \in Seq(HandoffRecords)
  BY DEF DelegationTypeOK
<1> HIDE DEF g
<1>3. /\ Summands(g) /\ DOMAIN g = 1..Len(handoff')
      /\ \A h \in 1..Len(handoff') : g[h] = (IF handoff'[h].root = r THEN handoff'[h].reserved ELSE 0)
  BY <1>1, <1>2, Reservations
<1> QED  BY <1>1, <1>3 DEF g

\* No budget and no reservation changes.
LEMMA BudgetsStay ==
    ASSUME DelegationTypeOK, Budgeted, Rewritten, DOMAIN root' = DOMAIN root,
           \A r \in DOMAIN root : SameMoney(root[r], root'[r]),
           \A h \in Handoffs : handoff'[h].root = handoff[h].root /\ handoff'[h].reserved = handoff[h].reserved
    PROVE  Budgeted'
<1>1. ASSUME NEW r \in DOMAIN root
      PROVE  reservations(r)' = reservations(r)
  BY RewrittenSequence DEF reservations
<1>2. ASSUME NEW r \in DOMAIN root
      PROVE  Solvent(root'[r], SumFunction(reservations(r)'))
  <2> DEFINE held == SumFunction(reservations(r))
  <2>1. Solvent(root[r], held) /\ SameMoney(root[r], root'[r])
    BY DEF Budgeted
  <2>2. SumFunction(reservations(r)') = held
    BY <1>1
  <2> HIDE DEF heldBy
  <2>3. Solvent(root'[r], held)
    BY <2>1 DEF Solvent, SameMoney
  <2> QED  BY <2>2, <2>3
<1> QED  BY <1>2 DEF Budgeted

\* The reservation of h changes, and the budget of its root with it.
LEMMA BudgetMoves ==
    ASSUME DelegationInv, Rewritten, DelegationTypeOK', NEW h \in Handoffs, NEW b,
           root' = [root EXCEPT ![handoff[h].root] = b],
           \A g \in Handoffs : handoff'[g].root = handoff[g].root,
           \A g \in Handoffs : g # h => handoff'[g].reserved = handoff[g].reserved,
           \A rest \in Nat : Solvent(budgetOf(h), handoff[h].reserved + rest)
                               => Solvent(b, handoff'[h].reserved + rest)
    PROVE  Budgeted'
<1>1. /\ DelegationTypeOK /\ Budgeted /\ handoff[h].root \in DOMAIN root /\ DOMAIN root' = DOMAIN root
      /\ root'[handoff[h].root] = b /\ budgetOf(h) = root[handoff[h].root]
      /\ \A r \in DOMAIN root : r # handoff[h].root => root'[r] = root[r]
  BY DEF DelegationInv, Chained, budgetOf
<1>2. ASSUME NEW r \in DOMAIN root
      PROVE  Solvent(root'[r], SumFunction(reservations(r)'))
  <2> DEFINE f == reservations(r)
             g == reservations(r)'
  <2>1. /\ Summands(f) /\ DOMAIN f = Handoffs
        /\ \A i \in Handoffs : f[i] = (IF handoff[i].root = r THEN handoff[i].reserved ELSE 0)
    <3>1. f = heldBy(handoff, r) /\ Handoffs = 1..Len(handoff)
      BY DEF reservations, Handoffs, heldBy
    <3>2. handoff \in Seq(HandoffRecords)
      BY <1>1 DEF DelegationTypeOK
    <3> HIDE DEF f
    <3> QED  BY <3>1, <3>2, Reservations
  <2>2. /\ Summands(g) /\ DOMAIN g = Handoffs
        /\ \A i \in Handoffs : g[i] = (IF handoff[i].root = r THEN handoff'[i].reserved ELSE 0)
    <3>1. Handoffs' = Handoffs
      BY <1>1, RewrittenSequence
    <3> QED  BY <3>1, NextReservations
  <2>3. Solvent(root[r], SumFunction(f))
    BY <1>1 DEF Budgeted
  <2> HIDE DEF f, g
  <2>4. PICK rest \in Nat : SumFunction(f) = f[h] + rest /\ SumFunction(g) = g[h] + rest
    BY <2>1, <2>2, SumChanged
  <2>5. CASE r = handoff[h].root
    <3>1. f[h] = handoff[h].reserved /\ g[h] = handoff'[h].reserved
      BY <2>1, <2>2, <2>5
    <3>2. Solvent(budgetOf(h), handoff[h].reserved + rest)
      BY <1>1, <2>3, <2>4, <2>5, <3>1
    <3>3. Solvent(b, handoff'[h].reserved + rest)
      BY <3>2
    <3> QED  BY <1>1, <2>4, <2>5, <3>1, <3>3 DEF g
  <2>6. CASE r # handoff[h].root
    <3>1. f[h] = 0 /\ g[h] = 0
      BY <2>1, <2>2, <2>6
    <3>2. SumFunction(f) = SumFunction(g)
      BY <2>4, <3>1
    <3> QED  BY <1>1, <2>3, <2>6, <3>2 DEF g
  <2> QED  BY <2>5, <2>6
<1> QED  BY <1>1, <1>2 DEF Budgeted

\* A handoff is queued that has reserved nothing.
LEMMA BudgetsGrow ==
    ASSUME DelegationTypeOK, DelegationTypeOK', Budgeted, NEW c, handoff' = Append(handoff, c), c.reserved = 0,
           DOMAIN root' = DOMAIN root, \A r \in DOMAIN root : SameMoney(root[r], root'[r])
    PROVE  Budgeted'
<1>1. /\ Len(handoff) \in Nat /\ DOMAIN handoff = Handoffs /\ handoff \in Seq(HandoffRecords)
      /\ Handoffs = 1..Len(handoff)
  BY DelegationTypes DEF DelegationTypeOK, Handoffs
<1> DEFINE n == Len(handoff) + 1
<1>2. /\ Handoffs' = Handoffs \cup {n} /\ n \notin Handoffs
      /\ \A h \in Handoffs : handoff'[h] = handoff[h]
      /\ handoff'[n] = c
  BY <1>1 DEF Handoffs
<1> HIDE DEF n
<1>3. ASSUME NEW r \in DOMAIN root
      PROVE  Solvent(root'[r], SumFunction(reservations(r)'))
  <2> DEFINE f == reservations(r)
             g == reservations(r)'
  <2>1. /\ Summands(f) /\ DOMAIN f = Handoffs
        /\ \A i \in Handoffs : f[i] = (IF handoff[i].root = r THEN handoff[i].reserved ELSE 0)
    <3>1. f = heldBy(handoff, r) /\ Handoffs = 1..Len(handoff)
      BY DEF reservations, Handoffs, heldBy
    <3>2. handoff \in Seq(HandoffRecords)
      BY <1>1 DEF DelegationTypeOK
    <3> HIDE DEF f
    <3> QED  BY <3>1, <3>2, Reservations
  <2>2. /\ Summands(g) /\ DOMAIN g = Handoffs'
        /\ \A i \in Handoffs' : g[i] = (IF handoff'[i].root = r THEN handoff'[i].reserved ELSE 0)
    BY NextReservations
  <2>3. Solvent(root[r], SumFunction(f)) /\ SameMoney(root[r], root'[r])
    BY DEF Budgeted
  <2>4. SumFunction(f) \in Nat
    BY <2>1, SumTypes
  <2> HIDE DEF f, g
  <2>5. g[n] = 0 /\ \A i \in Handoffs : g[i] = f[i]
    <3>1. handoff'[n].reserved = 0 /\ n \in Handoffs'
      BY <1>2
    <3>2. g[n] = 0
      BY <2>2, <3>1
    <3>3. ASSUME NEW i \in Handoffs PROVE g[i] = f[i]
      <4>1. handoff'[i] = handoff[i] /\ i \in Handoffs'
        BY <1>2
      <4>2. handoff'[i].root = handoff[i].root /\ handoff'[i].reserved = handoff[i].reserved
        BY <4>1
      <4> QED  BY <2>1, <2>2, <4>1, <4>2
    <3> QED  BY <3>2, <3>3
  <2>6. SumFunction(g) = g[n] + SumFunction(f)
    BY <1>2, <2>1, <2>2, <2>5, SumWith
  <2>7. SumFunction(g) = SumFunction(f)
    BY <2>4, <2>5, <2>6
  <2>8. Solvent(root'[r], SumFunction(f))
    <3> DEFINE held == SumFunction(f)
    <3>1. Solvent(root[r], held)
      BY <2>3
    <3> HIDE DEF heldBy
    <3>2. Solvent(root'[r], held)
      BY <2>3, <3>1 DEF Solvent, SameMoney
    <3> QED  BY <3>2 DEF heldBy
  <2> QED  BY <2>7, <2>8 DEF g
<1> QED  BY <1>3 DEF Budgeted

----------------------------------------------------------------------------
(* What a step does to the queues.                                         *)

\* The queue of a moves on: a new turn may come, a waiting one may be next.
Moves(a, new) ==
    /\ owner' \in [Agents -> Roots \cup (1..MaxHandoffs) \cup {NoTurn}]
    /\ pending' \in [Agents -> SUBSET (Roots \cup (1..MaxHandoffs))]
    /\ owner'[a] \in {owner[a], NoTurn} \cup pending[a] \cup new
    /\ pending'[a] \subseteq pending[a] \cup new
    /\ \A x \in Agents : x # a => owner'[x] = owner[x] /\ pending'[x] = pending[x]

LEMMA Stands ==
    ASSUME DelegationTypeOK, NEW a, UNCHANGED <<owner, pending>>
    PROVE  Moves(a, {})
  BY DEF DelegationTypeOK, Moves

LEMMA Leaving ==
    ASSUME DelegationTypeOK, NEW a \in Agents, leaves(a)
    PROVE  Moves(a, {})
<1>1. CASE Queue!Release(a)
  BY <1>1 DEF DelegationTypeOK, Moves, Queue!Release
<1>2. CASE \E t \in pending[a] : Queue!HandOver(a, t)
  BY <1>2 DEF DelegationTypeOK, Moves, Queue!HandOver
<1> QED  BY <1>1, <1>2 DEF leaves

LEMMA Enqueuing ==
    ASSUME DelegationTypeOK, NEW a \in Agents, NEW t \in Roots \cup (1..MaxHandoffs), enqueued(a, t)
    PROVE  Moves(a, {t})
<1>1. CASE Queue!Take(a, t)
  BY <1>1 DEF DelegationTypeOK, Moves, Queue!Take
<1>2. CASE Queue!Wait(a, t)
  BY <1>2 DEF DelegationTypeOK, Moves, Queue!Wait
<1> QED  BY <1>1, <1>2 DEF enqueued

\* Every turn keeps its agent, and those above it.
Remembered == \A t \in Turns : t \in Turns' /\ agentOf(t)' = agentOf(t)

LEMMA PlacesKept ==
    ASSUME Placed, Remembered, NEW a, NEW new, Moves(a, new),
           \A t \in new : t \in Turns' /\ agentOf(t)' = a
    PROVE  Placed'
<1>1. ASSUME NEW x \in Agents, NEW t, t # NoTurn, t = owner'[x] \/ t \in pending'[x]
      PROVE  t \in Turns' /\ agentOf(t)' = x
  <2>1. \/ t \in Turns /\ agentOf(t) = x
        \/ t \in new /\ x = a
    BY <1>1 DEF Placed, Moves
  <2>2. t \in Turns => t \in Turns' /\ agentOf(t)' = agentOf(t)
    BY DEF Remembered
  <2> QED  BY <2>1, <2>2
<1>2. ASSUME NEW x \in Agents
      PROVE  /\ owner'[x] # NoTurn => owner'[x] \in Turns' /\ agentOf(owner[x])' = x
             /\ \A t \in pending'[x] : t \in Turns' /\ agentOf(t)' = x
  <2>1. \A t : t # NoTurn /\ (t = owner'[x] \/ t \in pending'[x]) => t \in Turns' /\ agentOf(t)' = x
    BY <1>1
  <2>2. \A t \in pending'[x] : t # NoTurn
    BY DelegationAssumption DEF Moves
  <2>3. ASSUME owner'[x] # NoTurn PROVE owner'[x] \in Turns' /\ agentOf(owner[x])' = x
    BY <2>1, <2>3 DEF agentOf
  <2> QED  BY <2>1, <2>2, <2>3
<1> QED  BY <1>2 DEF Placed

\* No handoff is queued, and each keeps its place in the tree.
Familiar ==
    /\ Rewritten /\ root' \in [DOMAIN root -> RootRecords]
    /\ \A h \in Handoffs : Kin(handoff[h], handoff'[h])
    /\ \A h \in Handoffs : handoff'[h].reserved > 0 => handoff'[h].phase = "streaming"

LEMMA FamiliarKeeps ==
    ASSUME DelegationInv, Familiar, Budgeted', NEW a, NEW new, Moves(a, new),
           \A t \in new : t \in DOMAIN root /\ Home[t] = a
    PROVE  DelegationInv'
<1>1. DelegationTypeOK /\ Placed /\ Chained
  BY DEF DelegationInv
<1>2. /\ handoff' \in Seq(HandoffRecords) /\ Len(handoff') = Len(handoff) /\ Handoffs' = Handoffs
      /\ DOMAIN root' = DOMAIN root
  BY <1>1, RewrittenSequence DEF Familiar
<1>3. DelegationTypeOK'
  BY <1>1, <1>2 DEF DelegationTypeOK, Familiar, Moves
<1>4. Turns' = Turns
  BY <1>2 DEF Turns
<1>5. ASSUME NEW t \in Turns
      PROVE  agentOf(t)' = agentOf(t)
  <2>1. CASE t \in Roots
    BY <2>1 DEF agentOf
  <2>2. CASE t \notin Roots
    <3>1. t \in Handoffs
      BY <1>1, <2>2, DelegationTypes DEF Turns
    <3> QED  BY <2>2, <3>1 DEF agentOf, Familiar, Kin
  <2> QED  BY <2>1, <2>2
<1>6. Remembered
  BY <1>4, <1>5 DEF Remembered
<1>7. Placed'
  <2>1. \A t \in new : t \in Turns' /\ agentOf(t)' = a
    BY <1>1, <1>4, DelegationTypes DEF Turns, agentOf
  <2> QED  BY <1>1, <1>6, <2>1, PlacesKept
<1>8. Chained'
  <2> SUFFICES ASSUME NEW h \in Handoffs
               PROVE  /\ handoff'[h].root \in DOMAIN root' /\ handoff'[h].parent \in Turns'
                      /\ \A u \in handoff'[h].chain : u \in Turns' /\ agentOf(u)' # handoff'[h].agent
    BY <1>2 DEF Chained
  <2>1. Kin(handoff[h], handoff'[h])
    BY DEF Familiar
  <2> QED  BY <1>1, <1>2, <1>4, <1>5, <2>1 DEF Chained, Kin
<1>9. Spending'
  BY <1>2 DEF Spending, Familiar
<1> QED  BY <1>3, <1>7, <1>8, <1>9 DEF DelegationInv

----------------------------------------------------------------------------
(* The steps.                                                              *)

LEMMA Unhearing ==
    ASSUME NEW t, NEW calls \in [Handoffs -> HandoffRecords]
    PROVE  /\ Unheard(t, calls) \in [Handoffs -> HandoffRecords]
           /\ \A g \in Handoffs :
                LET d == Unheard(t, calls)[g]
                IN  Kin(calls[g], d) /\ d.phase = calls[g].phase /\ d.reserved = calls[g].reserved
<1> DEFINE f == Unheard(t, calls)
           silenced(g) == [calls[g] EXCEPT !.told = "abandoned"]
<1>1. DOMAIN f = Handoffs /\ f = [g \in Handoffs |-> f[g]]
      /\ \A g \in Handoffs : f[g] = silenced(g) \/ f[g] = calls[g]
  BY DEF Unheard
<1>2. \A g \in Handoffs : /\ silenced(g) \in HandoffRecords /\ Kin(calls[g], silenced(g))
                         /\ silenced(g).phase = calls[g].phase /\ silenced(g).reserved = calls[g].reserved
  <2>1. "settled" \in HandoffPhases
    BY DEF HandoffPhases
  <2> QED  BY <2>1, HandoffUpdates
<1>3. \A g \in Handoffs : Kin(calls[g], calls[g])
  BY DEF Kin
<1> HIDE DEF f, silenced
<1>4. \A g \in Handoffs : /\ f[g] \in HandoffRecords /\ Kin(calls[g], f[g])
                         /\ f[g].phase = calls[g].phase /\ f[g].reserved = calls[g].reserved
  BY <1>1, <1>2, <1>3
<1>5. f \in [Handoffs -> HandoffRecords]
  BY <1>1, <1>4
<1> QED  BY <1>4, <1>5 DEF f

\* Only a queue moves: turns and money stay.
LEMMA Spreads ==
    ASSUME DelegationInv, Rewritten, root' \in [DOMAIN root -> RootRecords],
           NEW a, NEW new, Moves(a, new), \A t \in new : t \in DOMAIN root /\ Home[t] = a,
           \A r \in DOMAIN root : SameMoney(root[r], root'[r]),
           \A h \in Handoffs : /\ Kin(handoff[h], handoff'[h]) /\ handoff'[h].reserved = handoff[h].reserved
                               /\ handoff'[h].phase = handoff[h].phase
    PROVE  DelegationInv'
<1>1. DelegationTypeOK /\ Spending /\ Budgeted
  BY DEF DelegationInv
<1>2. Familiar
  BY <1>1 DEF Spending, Familiar
<1>3. Budgeted'
  <2>1. \A h \in Handoffs : handoff'[h].root = handoff[h].root
    BY DEF Kin
  <2> QED  BY <1>1, <2>1, BudgetsStay
<1> QED  BY <1>1, <1>2, <1>3, FamiliarKeeps

LEMMA SettlesKeeps ==
    ASSUME DelegationInv, NEW h \in Handoffs, NEW b \in RootRecords, settles(h, b),
           \A rest \in Nat : Solvent(budgetOf(h), handoff[h].reserved + rest) => Solvent(b, rest)
    PROVE  DelegationInv'
<1> DEFINE calls == [handoff EXCEPT ![h].phase = "settled", ![h].reserved = 0, ![h].told = "answered"]
           ended == [handoff[h] EXCEPT !.phase = "settled", !.reserved = 0, !.told = "answered"]
<1>1. /\ DelegationTypeOK /\ Spending /\ Budgeted /\ handoff \in [Handoffs -> HandoffRecords]
      /\ handoff[h] \in HandoffRecords /\ root \in [DOMAIN root -> RootRecords]
  BY DelegationTypes DEF DelegationInv, DelegationTypeOK
<1>2. /\ leaves(handoff[h].agent) /\ root' = [root EXCEPT ![handoff[h].root] = b]
      /\ handoff' = Unheard(h, calls)
  BY DEF settles
<1>3. calls = [handoff EXCEPT ![h] = ended]
  BY <1>1
<1> HIDE DEF calls
<1>4. ended \in HandoffRecords /\ Kin(handoff[h], ended) /\ ended.phase = "settled" /\ ended.reserved = 0
  <2>1. "settled" \in HandoffPhases
    BY DEF HandoffPhases
  <2> QED  BY <1>1, <2>1, HandoffUpdates
<1> HIDE DEF ended
<1>5. /\ calls \in [Handoffs -> HandoffRecords] /\ calls[h] = ended
      /\ \A g \in Handoffs : g # h => calls[g] = handoff[g]
  BY <1>1, <1>3, <1>4
<1>6. \A g \in Handoffs : Kin(calls[g], handoff'[g]) /\ handoff'[g].phase = calls[g].phase
                          /\ handoff'[g].reserved = calls[g].reserved
  BY <1>2, <1>5, Unhearing
<1>7. Rewritten /\ root' \in [DOMAIN root -> RootRecords]
  BY <1>1, <1>2, <1>5, Unhearing DEF Rewritten
<1>8. /\ \A g \in Handoffs : Kin(handoff[g], handoff'[g])
      /\ \A g \in Handoffs : g # h => handoff'[g].reserved = handoff[g].reserved
      /\ \A g \in Handoffs : g # h => handoff'[g].phase = handoff[g].phase
      /\ handoff'[h].reserved = 0
  <2>1. ASSUME NEW g \in Handoffs
        PROVE  /\ Kin(handoff[g], handoff'[g])
               /\ g # h => /\ handoff'[g].reserved = handoff[g].reserved
                           /\ handoff'[g].phase = handoff[g].phase
    <3>1. CASE g = h
      BY <1>4, <1>5, <1>6, <3>1 DEF Kin
    <3>2. CASE g # h
      BY <1>5, <1>6, <3>2 DEF Kin
    <3> QED  BY <3>1, <3>2
  <2>2. handoff'[h].reserved = 0
    BY <1>4, <1>5, <1>6
  <2> QED  BY <2>1, <2>2
<1>9. Familiar
  BY <1>1, <1>7, <1>8 DEF Familiar, Spending
<1>10. handoff[h].agent \in Agents
  BY <1>1 DEF HandoffRecords
<1>11. Moves(handoff[h].agent, {})
  BY <1>1, <1>2, <1>10, Leaving
<1>12. DelegationTypeOK'
  <2>1. handoff' \in Seq(HandoffRecords) /\ Len(handoff') = Len(handoff) /\ DOMAIN root' = DOMAIN root
    BY <1>1, <1>7, RewrittenSequence
  <2> QED  BY <1>1, <1>7, <1>11, <2>1 DEF DelegationTypeOK, Moves
<1>13. Budgeted'
  <2>1. \A rest \in Nat : Solvent(budgetOf(h), handoff[h].reserved + rest)
                            => Solvent(b, handoff'[h].reserved + rest)
    <3> SUFFICES ASSUME NEW rest \in Nat, Solvent(budgetOf(h), handoff[h].reserved + rest)
                 PROVE  Solvent(b, handoff'[h].reserved + rest)
      OBVIOUS
    <3>1. Solvent(b, rest)
      OBVIOUS
    <3>2. handoff'[h].reserved + rest = rest
      BY <1>8
    <3> QED  BY <3>1, <3>2
  <2>2. \A g \in Handoffs : handoff'[g].root = handoff[g].root
    BY <1>8 DEF Kin
  <2> QED  BY <1>2, <1>7, <1>8, <1>12, <2>1, <2>2, BudgetMoves
<1> QED  BY <1>9, <1>10, <1>11, <1>13, FamiliarKeeps

\* A handoff settles that has reserved nothing.
LEMMA SettlesEarly ==
    ASSUME DelegationInv, NEW h \in Handoffs, handoff[h].phase # "streaming", settles(h, budgetOf(h))
    PROVE  DelegationInv'
<1>1. handoff[h].reserved = 0 /\ budgetOf(h) \in RootRecords
  <2>1. handoff[h].reserved \in Nat /\ ~(handoff[h].reserved > 0)
    BY DelegationTypes DEF DelegationInv, Spending, HandoffRecords
  <2>2. budgetOf(h) \in RootRecords
    BY DelegationTypes DEF DelegationInv, Chained, budgetOf
  <2> QED  BY <2>1, <2>2
<1>2. \A rest \in Nat : handoff[h].reserved + rest = rest
  BY <1>1
<1>3. \A rest \in Nat : Solvent(budgetOf(h), handoff[h].reserved + rest) => Solvent(budgetOf(h), rest)
  BY <1>2
<1> QED  BY <1>1, <1>3, SettlesKeeps

\* A handoff settles whose last inference has cost `actual`.
LEMMA SettlesLate ==
    ASSUME DelegationInv, NEW h \in Handoffs, NEW actual \in Actual,
           settles(h, settledBudget(budgetOf(h), handoff[h].reserved, actual))
    PROVE  DelegationInv'
<1> DEFINE b == budgetOf(h)
           c == settledBudget(b, handoff[h].reserved, actual)
<1>1. b \in RootRecords /\ handoff[h].reserved \in {0, Price} /\ Price \in Nat
  BY DelegationTypes DEF DelegationInv, Chained, budgetOf, HandoffRecords
<1> HIDE DEF b
<1>2. \A rest \in Nat : Solvent(b, handoff[h].reserved + rest) => c \in RootRecords /\ Solvent(c, rest)
  BY <1>1, SettledBudgets
<1>3. c \in RootRecords
  BY <1>1, SettledTypes
<1> HIDE DEF c
<1> QED  BY <1>2, <1>3, SettlesKeeps DEF b, c

LEMMA RootTurnsKeep ==
    ASSUME DelegationInv, NEW r \in DOMAIN root,
           RootStarts(r) \/ RootRuns(r) \/ RootEnds(r) \/ Stop(r) \/ Deadline(r)
    PROVE  DelegationInv'
<1> DEFINE phased(phase) == [root EXCEPT ![r].phase = phase]
           hits(hit) == [h \in DOMAIN handoff |-> IF h \in hit THEN [handoff[h] EXCEPT !.aborted = TRUE] ELSE handoff[h]]
<1>1. /\ DelegationTypeOK /\ Spending /\ Budgeted /\ handoff \in [Handoffs -> HandoffRecords]
      /\ root \in [DOMAIN root -> RootRecords] /\ root[r] \in RootRecords /\ r \in Roots
      /\ DOMAIN handoff = Handoffs /\ Home[r] \in Agents
  BY DelegationTypes, DelegationAssumption DEF DelegationInv, DelegationTypeOK
<1>2. ASSUME NEW x, x \in RootRecords, SameMoney(root[r], x), root' = [root EXCEPT ![r] = x]
      PROVE  /\ root' \in [DOMAIN root -> RootRecords] /\ DOMAIN root' = DOMAIN root
             /\ \A s \in DOMAIN root : SameMoney(root[s], root'[s])
  BY <1>1, <1>2 DEF SameMoney
<1>3. ASSUME NEW phase \in {"queued", "running", "done"}, root' = phased(phase)
      PROVE  /\ root' \in [DOMAIN root -> RootRecords] /\ DOMAIN root' = DOMAIN root
             /\ \A s \in DOMAIN root : SameMoney(root[s], root'[s])
  <2> DEFINE x == [root[r] EXCEPT !.phase = phase]
  <2>1. x \in RootRecords /\ SameMoney(root[r], x)
    BY <1>1, RootUpdates
  <2>2. root' = [root EXCEPT ![r] = x]
    BY <1>3
  <2> HIDE DEF x
  <2> QED  BY <1>2, <2>1, <2>2
<1>4. ASSUME handoff' = handoff
      PROVE  Rewritten /\ \A h \in Handoffs : Kin(handoff[h], handoff'[h]) /\ handoff'[h].reserved = handoff[h].reserved
                                               /\ handoff'[h].phase = handoff[h].phase
  BY <1>1, <1>4 DEF Rewritten, Kin
<1>5. ASSUME handoff' = Unheard(r, handoff)
      PROVE  Rewritten /\ \A h \in Handoffs : Kin(handoff[h], handoff'[h]) /\ handoff'[h].reserved = handoff[h].reserved
                                               /\ handoff'[h].phase = handoff[h].phase
  BY <1>1, <1>5, Unhearing DEF Rewritten
<1>6. ASSUME NEW hit, aborting(hit)
      PROVE  Rewritten /\ \A h \in Handoffs : Kin(handoff[h], handoff'[h]) /\ handoff'[h].reserved = handoff[h].reserved
                                               /\ handoff'[h].phase = handoff[h].phase
  <2> DEFINE hurt(h) == [handoff[h] EXCEPT !.aborted = TRUE]
             f == handoff'
  <2>1. DOMAIN f = Handoffs /\ f = [h \in Handoffs |-> f[h]]
        /\ \A h \in Handoffs : f[h] = hurt(h) \/ f[h] = handoff[h]
    BY <1>1, <1>6 DEF aborting
  <2>2. \A h \in Handoffs : /\ hurt(h) \in HandoffRecords /\ Kin(handoff[h], hurt(h))
                           /\ hurt(h).phase = handoff[h].phase /\ hurt(h).reserved = handoff[h].reserved
    <3>1. "settled" \in HandoffPhases
      BY DEF HandoffPhases
    <3> QED  BY <1>1, <3>1, HandoffUpdates
  <2>3. \A h \in Handoffs : Kin(handoff[h], handoff[h]) /\ handoff[h] \in HandoffRecords
    BY <1>1 DEF Kin
  <2> HIDE DEF hurt, f
  <2>4. \A h \in Handoffs : /\ f[h] \in HandoffRecords /\ Kin(handoff[h], f[h])
                           /\ f[h].phase = handoff[h].phase /\ f[h].reserved = handoff[h].reserved
    BY <2>1, <2>2, <2>3
  <2>5. f \in [Handoffs -> HandoffRecords]
    BY <2>1, <2>4
  <2> QED  BY <2>1, <2>4, <2>5 DEF f, Rewritten
<1> HIDE DEF phased
<1>7. CASE RootStarts(r)
  <2>1. enqueued(Home[r], r) /\ root' = phased("queued") /\ handoff' = handoff
    BY <1>7 DEF RootStarts, phased
  <2>2. Moves(Home[r], {r})
    BY <1>1, <2>1, Enqueuing
  <2>3. /\ root' \in [DOMAIN root -> RootRecords] /\ DOMAIN root' = DOMAIN root
        /\ \A s \in DOMAIN root : SameMoney(root[s], root'[s])
    BY <1>3, <2>1
  <2> QED  BY <1>1, <1>4, <2>1, <2>2, <2>3, Spreads
<1>8. CASE RootRuns(r)
  <2>1. root' = phased("running") /\ UNCHANGED <<owner, pending, handoff>>
    BY <1>8 DEF RootRuns, phased
  <2>2. Moves(Home[r], {})
    BY <1>1, <2>1, Stands
  <2>3. /\ root' \in [DOMAIN root -> RootRecords] /\ DOMAIN root' = DOMAIN root
        /\ \A s \in DOMAIN root : SameMoney(root[s], root'[s])
    BY <1>3, <2>1
  <2> QED  BY <1>4, <2>1, <2>2, <2>3, Spreads
<1>9. CASE RootEnds(r)
  <2>1. leaves(Home[r]) /\ root' = phased("done") /\ handoff' = Unheard(r, handoff)
    BY <1>9 DEF RootEnds, phased
  <2>2. Moves(Home[r], {})
    BY <1>1, <2>1, Leaving
  <2>3. /\ root' \in [DOMAIN root -> RootRecords] /\ DOMAIN root' = DOMAIN root
        /\ \A s \in DOMAIN root : SameMoney(root[s], root'[s])
    BY <1>3, <2>1
  <2> QED  BY <1>5, <2>1, <2>2, <2>3, Spreads
<1>10. CASE Stop(r)
  <2> DEFINE x == [root[r] EXCEPT !.stopped = TRUE]
  <2>1. UNCHANGED <<owner, pending>> /\ root' = [root EXCEPT ![r] = x] /\ \E hit : aborting(hit)
    BY <1>10 DEF Stop
  <2>2. x \in RootRecords /\ SameMoney(root[r], x)
    BY <1>1, RootUpdates
  <2> HIDE DEF x
  <2>3. /\ root' \in [DOMAIN root -> RootRecords] /\ DOMAIN root' = DOMAIN root
        /\ \A s \in DOMAIN root : SameMoney(root[s], root'[s])
    BY <1>2, <2>1, <2>2
  <2>4. Moves(Home[r], {})
    BY <1>1, <2>1, Stands
  <2> QED  BY <1>6, <2>1, <2>3, <2>4, Spreads
<1>11. CASE Deadline(r)
  <2> DEFINE x == [root[r] EXCEPT !.expired = TRUE]
  <2>1. UNCHANGED <<owner, pending>> /\ root' = [root EXCEPT ![r] = x] /\ \E hit : aborting(hit)
    BY <1>11 DEF Deadline
  <2>2. x \in RootRecords /\ SameMoney(root[r], x)
    BY <1>1, RootUpdates
  <2> HIDE DEF x
  <2>3. /\ root' \in [DOMAIN root -> RootRecords] /\ DOMAIN root' = DOMAIN root
        /\ \A s \in DOMAIN root : SameMoney(root[s], root'[s])
    BY <1>2, <2>1, <2>2
  <2>4. Moves(Home[r], {})
    BY <1>1, <2>1, Stands
  <2> QED  BY <1>6, <2>1, <2>3, <2>4, Spreads
<1> QED  BY <1>7, <1>8, <1>9, <1>10, <1>11

LEMMA BecomesKeeps ==
    ASSUME DelegationInv, NEW h \in Handoffs, NEW phase \in HandoffPhases, NEW aborted \in BOOLEAN,
           handoff[h].phase # "streaming", becomes(h, phase, aborted)
    PROVE  DelegationInv'
<1> DEFINE c == [handoff[h] EXCEPT !.phase = phase, !.aborted = aborted]
<1>1. /\ DelegationTypeOK /\ Spending /\ Budgeted /\ handoff \in [Handoffs -> HandoffRecords]
      /\ handoff[h] \in HandoffRecords /\ root \in [DOMAIN root -> RootRecords]
  BY DelegationTypes DEF DelegationInv, DelegationTypeOK
<1>2. handoff' = [handoff EXCEPT ![h] = c] /\ UNCHANGED <<owner, pending, root>>
  BY <1>1 DEF becomes
<1>3. c \in HandoffRecords /\ Kin(handoff[h], c) /\ c.reserved = handoff[h].reserved
  BY <1>1 DEF HandoffRecords, Kin
<1> HIDE DEF c
<1>4. /\ Rewritten /\ handoff'[h] = c
      /\ \A g \in Handoffs : g # h => handoff'[g] = handoff[g]
  BY <1>1, <1>2, <1>3 DEF Rewritten
<1>5. ~(handoff[h].reserved > 0)
  BY <1>1 DEF Spending
<1>6. Familiar
  <2>1. \A g \in Handoffs : Kin(handoff[g], handoff'[g])
    BY <1>3, <1>4 DEF Kin
  <2>2. \A g \in Handoffs : handoff'[g].reserved > 0 => handoff'[g].phase = "streaming"
    BY <1>1, <1>3, <1>4, <1>5 DEF Spending
  <2> QED  BY <1>1, <1>2, <1>4, <2>1, <2>2 DEF Familiar
<1>7. Budgeted'
  <2>1. \A g \in Handoffs : handoff'[g].root = handoff[g].root /\ handoff'[g].reserved = handoff[g].reserved
    BY <1>3, <1>4 DEF Kin
  <2>2. \A r \in DOMAIN root : SameMoney(root[r], root'[r])
    BY <1>2 DEF SameMoney
  <2> QED  BY <1>1, <1>2, <1>4, <2>1, <2>2, BudgetsStay
<1>8. Moves(handoff[h].agent, {})
  BY <1>1, <1>2, Stands
<1> QED  BY <1>6, <1>7, <1>8, FamiliarKeeps

\* From its place in the queue to the stream.
LEMMA EarlyStepsKeep ==
    ASSUME DelegationInv, NEW h \in Handoffs, Pick(h) \/ Authorize(h) \/ Prepare(h)
    PROVE  DelegationInv'
<1>1. handoff[h].phase # "streaming"
  BY DEF Pick, Authorize, Prepare, at
<1>2. signalAborted(handoff[h].parent) \in BOOLEAN
  <2>1. handoff[h].parent \in Turns
    BY DEF DelegationInv, Chained
  <2> QED  BY <2>1, DelegationTypes DEF DelegationInv, Turns, signalAborted, RootRecords, HandoffRecords
<1>3. \/ settles(h, budgetOf(h))
      \/ \E phase \in HandoffPhases, aborted \in BOOLEAN : becomes(h, phase, aborted)
  <2>1. {"authorizing", "preparing", "streaming"} \subseteq HandoffPhases
    BY DEF HandoffPhases
  <2>2. CASE Pick(h)
    BY <2>1, <2>2 DEF Pick
  <2>3. CASE Authorize(h)
    BY <1>2, <2>1, <2>3 DEF Authorize
  <2>4. CASE Prepare(h)
    BY <2>1, <2>4 DEF Prepare
  <2> QED  BY <2>2, <2>3, <2>4
<1> QED  BY <1>1, <1>3, SettlesEarly, BecomesKeeps

LEMMA AbandonKeeps ==
    ASSUME DelegationInv, NEW h \in Handoffs, Abandon(h)
    PROVE  DelegationInv'
<1> DEFINE c == [handoff[h] EXCEPT !.told = "abandoned"]
<1>1. /\ DelegationTypeOK /\ handoff \in [Handoffs -> HandoffRecords] /\ handoff[h] \in HandoffRecords
      /\ root \in [DOMAIN root -> RootRecords]
  BY DelegationTypes DEF DelegationInv, DelegationTypeOK
<1>2. handoff' = [handoff EXCEPT ![h] = c] /\ UNCHANGED <<owner, pending, root>>
  BY <1>1 DEF Abandon
<1>3. c \in HandoffRecords /\ Kin(handoff[h], c) /\ c.reserved = handoff[h].reserved /\ c.phase = handoff[h].phase
  <2>1. "settled" \in HandoffPhases
    BY DEF HandoffPhases
  <2> QED  BY <1>1, <2>1, HandoffUpdates
<1> HIDE DEF c
<1>4. /\ Rewritten /\ handoff'[h] = c
      /\ \A g \in Handoffs : g # h => handoff'[g] = handoff[g]
  BY <1>1, <1>2, <1>3 DEF Rewritten
<1>5. \A g \in Handoffs : Kin(handoff[g], handoff'[g]) /\ handoff'[g].reserved = handoff[g].reserved
                          /\ handoff'[g].phase = handoff[g].phase
  BY <1>3, <1>4 DEF Kin
<1>6. \A r \in DOMAIN root : SameMoney(root[r], root'[r])
  BY <1>2 DEF SameMoney
<1>7. Moves(handoff[h].agent, {})
  BY <1>1, <1>2, Stands
<1> QED  BY <1>1, <1>2, <1>4, <1>5, <1>6, <1>7, Spreads

LEMMA InferKeeps ==
    ASSUME DelegationInv, NEW h \in Handoffs, NEW actual \in Actual, Infer(h, actual)
    PROVE  DelegationInv'
<1> DEFINE b == settledBudget(budgetOf(h), handoff[h].reserved, actual)
           d == [b EXCEPT !.reserved = @ + Price]
           c == [handoff[h] EXCEPT !.reserved = Price]
           r == handoff[h].root
<1>1. CASE settles(h, b)
  BY <1>1, SettlesLate
<1>2. CASE ~settles(h, b)
  <2>1. /\ handoff[h].phase = "streaming" /\ reservable(r, b) /\ root' = [root EXCEPT ![r] = d]
        /\ handoff' = [handoff EXCEPT ![h].reserved = Price] /\ UNCHANGED <<owner, pending>>
    BY <1>2 DEF Infer, at
  <2>2. /\ DelegationTypeOK /\ Spending /\ Budgeted /\ handoff \in [Handoffs -> HandoffRecords]
        /\ handoff[h] \in HandoffRecords /\ root \in [DOMAIN root -> RootRecords] /\ Price \in Nat
        /\ r \in DOMAIN root /\ budgetOf(h) \in RootRecords
    BY DelegationTypes DEF DelegationInv, DelegationTypeOK, Chained, budgetOf
  <2>3. c \in HandoffRecords /\ Kin(handoff[h], c) /\ c.reserved = Price /\ c.phase = "streaming"
    <3>1. "settled" \in HandoffPhases
      BY DEF HandoffPhases
    <3> QED  BY <2>1, <2>2, <3>1, HandoffUpdates
  <2>4. handoff' = [handoff EXCEPT ![h] = c]
    BY <2>1, <2>2
  <2> HIDE DEF c
  <2>5. /\ Rewritten /\ handoff'[h] = c
        /\ \A g \in Handoffs : g # h => handoff'[g] = handoff[g]
    BY <2>2, <2>3, <2>4 DEF Rewritten
  <2>6. handoff[h].reserved \in {0, Price}
    BY <2>2 DEF HandoffRecords
  <2>7. b \in RootRecords
    BY <2>2, <2>6, SettledTypes
  <2>8. ASSUME NEW rest \in Nat, Solvent(budgetOf(h), handoff[h].reserved + rest)
        PROVE  Solvent(d, Price + rest)
    <3>1. Solvent(b, rest)
      BY <2>2, <2>6, <2>8, SettledBudgets
    <3> HIDE DEF b
    <3> QED  BY <2>1, <2>2, <2>7, <3>1, ReservedBudgets
  <2>9. d \in RootRecords
    <3> HIDE DEF b
    <3>1. b.reserved \in Nat
      BY <2>7 DEF RootRecords
    <3> QED  BY <2>2, <2>7, <3>1 DEF RootRecords
  <2> HIDE DEF b, d
  <2>10. root' \in [DOMAIN root -> RootRecords]
    BY <2>1, <2>2, <2>9
  <2>11. \A g \in Handoffs : Kin(handoff[g], handoff'[g])
    BY <2>3, <2>5 DEF Kin
  <2>12. Familiar
    <3>1. \A g \in Handoffs : handoff'[g].reserved > 0 => handoff'[g].phase = "streaming"
      BY <2>2, <2>3, <2>5 DEF Spending
    <3> QED  BY <2>5, <2>10, <2>11, <3>1 DEF Familiar
  <2>13. Moves(handoff[h].agent, {})
    BY <2>1, <2>2, Stands
  <2>14. DelegationTypeOK'
    <3>1. handoff' \in Seq(HandoffRecords) /\ Len(handoff') = Len(handoff) /\ DOMAIN root' = DOMAIN root
      BY <2>2, <2>5, <2>10, RewrittenSequence
    <3> QED  BY <2>1, <2>2, <2>10, <3>1 DEF DelegationTypeOK
  <2>15. Budgeted'
    <3>1. \A g \in Handoffs : handoff'[g].root = handoff[g].root
      BY <2>11 DEF Kin
    <3>2. \A g \in Handoffs : g # h => handoff'[g].reserved = handoff[g].reserved
      BY <2>5
    <3>3. \A rest \in Nat : Solvent(budgetOf(h), handoff[h].reserved + rest)
                             => Solvent(d, handoff'[h].reserved + rest)
      BY <2>3, <2>5, <2>8
    <3> QED  BY <2>1, <2>5, <2>14, <3>1, <3>2, <3>3, BudgetMoves
  <2> QED  BY <2>12, <2>13, <2>15, FamiliarKeeps
<1> QED  BY <1>1, <1>2

\* What Delegate appends.
LEMMA NewHandoff ==
    ASSUME DelegationInv, NEW t \in Turns, NEW a \in Agents, acyclic(t, a)
    PROVE  LET c == newHandoff(t, a)
           IN  /\ c \in HandoffRecords /\ c.agent = a /\ c.reserved = 0
               /\ c.root = rootOf(t) /\ rootOf(t) \in DOMAIN root /\ c.parent = t
               /\ \A u \in c.chain : u \in Turns /\ agentOf(u) # a
<1>1. /\ DelegationTypeOK /\ Turns \subseteq Roots \cup (1..MaxHandoffs) /\ DOMAIN root \subseteq Roots
      /\ \A h \in Handoffs : handoff[h] \in HandoffRecords /\ h \notin Roots
  BY DelegationTypes DEF DelegationInv, DelegationTypeOK
<1>2. rootOf(t) \in DOMAIN root /\ \A u \in chainOf(t) : u \in Turns
  <2>1. CASE t \in Roots
    BY <1>1, <2>1 DEF rootOf, chainOf, Turns
  <2>2. CASE t \notin Roots
    BY <1>1, <2>2 DEF rootOf, chainOf, Turns, DelegationInv, Chained
  <2> QED  BY <2>1, <2>2
<1> DEFINE chain == chainOf(t) \cup {t}
<1>3. \A u \in chain : u \in Turns /\ agentOf(u) # a
  BY <1>2 DEF acyclic
<1>4. newHandoff(t, a) = [phase |-> "queued", root |-> rootOf(t), parent |-> t, agent |-> a,
                          chain |-> chain, told |-> "open", aborted |-> FALSE, reserved |-> 0]
  BY DEF newHandoff
<1> HIDE DEF chain
<1> QED  BY <1>1, <1>2, <1>3, <1>4 DEF HandoffRecords, HandoffPhases

LEMMA DelegateKeeps ==
    ASSUME DelegationInv, NEW t \in Turns, NEW a \in Agents, Delegate(t, a)
    PROVE  DelegationInv'
<1> DEFINE c == newHandoff(t, a)
           r == rootOf(t)
           x == [root[r] EXCEPT !.calls = @ + 1]
<1>1. /\ DelegationTypeOK /\ Placed /\ Chained /\ Spending /\ Budgeted /\ handoff \in [Handoffs -> HandoffRecords]
      /\ root \in [DOMAIN root -> RootRecords] /\ handoff \in Seq(HandoffRecords) /\ Len(handoff) \in Nat
      /\ DOMAIN root \subseteq Roots /\ MaxHandoffs \in Nat /\ Roots \cap (1..MaxHandoffs) = {}
      /\ Turns \subseteq Roots \cup (1..MaxHandoffs) /\ DOMAIN handoff = Handoffs /\ Handoffs = 1..Len(handoff)
  BY DelegationTypes, DelegationAssumption DEF DelegationInv, DelegationTypeOK, Handoffs
<1>0. PICK n : n = Len(handoff) + 1
  OBVIOUS
<1>2. /\ acyclic(t, a) /\ Len(handoff) < MaxHandoffs /\ root' = [root EXCEPT ![r].calls = @ + 1]
      /\ \/ handoff' = Append(handoff, c) /\ enqueued(a, n)
         \/ UNCHANGED <<owner, pending, handoff>>
  BY <1>0 DEF Delegate
<1>3. /\ c \in HandoffRecords /\ c.agent = a /\ c.reserved = 0
      /\ c.root = r /\ r \in DOMAIN root /\ c.parent = t
      /\ \A u \in c.chain : u \in Turns /\ agentOf(u) # a
  BY <1>2, NewHandoff
<1> HIDE DEF c, r
<1>4. x \in RootRecords /\ SameMoney(root[r], x)
  BY <1>1, <1>3, RootUpdates
<1>5. root' = [root EXCEPT ![r] = x]
  BY <1>1, <1>2, <1>3
<1> HIDE DEF x
<1>6. /\ root' \in [DOMAIN root -> RootRecords] /\ DOMAIN root' = DOMAIN root
      /\ \A s \in DOMAIN root : SameMoney(root[s], root'[s])
  BY <1>1, <1>3, <1>4, <1>5 DEF SameMoney
<1>7. CASE UNCHANGED <<owner, pending, handoff>>
  <2>1. Rewritten /\ \A h \in Handoffs : Kin(handoff[h], handoff'[h]) /\ handoff'[h].reserved = handoff[h].reserved
                                         /\ handoff'[h].phase = handoff[h].phase
    BY <1>1, <1>7 DEF Rewritten, Kin
  <2>2. Moves(a, {})
    BY <1>1, <1>7, Stands
  <2> QED  BY <1>6, <2>1, <2>2, Spreads
<1>8. CASE handoff' = Append(handoff, c) /\ enqueued(a, n)
  <2>1. /\ handoff' \in Seq(HandoffRecords) /\ Len(handoff') = n /\ n \in 1..MaxHandoffs
        /\ Handoffs' = Handoffs \cup {n} /\ n \notin Handoffs /\ handoff'[n] = c
        /\ \A h \in Handoffs : handoff'[h] = handoff[h]
    <3>1. /\ handoff' \in Seq(HandoffRecords) /\ Len(handoff') = n
          /\ handoff'[n] = c /\ \A h \in 1..Len(handoff) : handoff'[h] = handoff[h]
      BY <1>0, <1>1, <1>3, <1>8
    <3>2. n \in 1..MaxHandoffs /\ 1..n = (1..Len(handoff)) \cup {n} /\ n \notin 1..Len(handoff)
      BY <1>0, <1>1, <1>2
    <3>3. Handoffs' = 1..n
      BY <3>1 DEF Handoffs
    <3> QED  BY <1>1, <3>1, <3>2, <3>3
  <2>2. n \notin Roots
    BY <1>1, <2>1
  <2>3. Moves(a, {n})
    BY <1>1, <1>8, <2>1, Enqueuing
  <2>4. DelegationTypeOK'
    BY <1>1, <1>6, <2>1, <2>3 DEF DelegationTypeOK, Moves
  <2>5. Turns' = Turns \cup {n} /\ agentOf(n)' = a
    <3>1. Turns' = Turns \cup {n}
      BY <1>6, <2>1 DEF Turns
    <3>2. agentOf(n)' = handoff'[n].agent
      BY <2>2 DEF agentOf
    <3> QED  BY <1>3, <2>1, <3>1, <3>2
  <2>6. ASSUME NEW u \in Turns
        PROVE  agentOf(u)' = agentOf(u)
    <3>1. u \in Roots \/ u \in Handoffs
      BY <1>1 DEF Turns
    <3> QED  BY <2>1, <3>1 DEF agentOf
  <2>7. Placed'
    <3>1. Remembered
      BY <2>5, <2>6 DEF Remembered
    <3>2. \A u \in {n} : u \in Turns' /\ agentOf(u)' = a
      BY <2>5
    <3> QED  BY <1>1, <2>3, <3>1, <3>2, PlacesKept
  <2>8. ASSUME NEW h \in Handoffs'
        PROVE  /\ handoff'[h].root \in DOMAIN root' /\ handoff'[h].parent \in Turns'
               /\ \A u \in handoff'[h].chain : u \in Turns' /\ agentOf(u)' # handoff'[h].agent
               /\ handoff'[h].reserved > 0 => handoff'[h].phase = "streaming"
    <3>1. CASE h = n
      BY <1>3, <1>6, <2>1, <2>5, <2>6, <3>1
    <3>2. CASE h # n
      BY <1>1, <1>6, <2>1, <2>5, <2>6, <3>2 DEF Chained, Spending
    <3> QED  BY <3>1, <3>2
  <2>9. Chained' /\ Spending'
    BY <2>8 DEF Chained, Spending
  <2>10. Budgeted'
    BY <1>1, <1>3, <1>6, <1>8, <2>4, BudgetsGrow
  <2> QED  BY <2>4, <2>7, <2>9, <2>10 DEF DelegationInv
<1> QED  BY <1>2, <1>7, <1>8

LEMMA DelegationStarts == DelegationInit => DelegationInv
<1> SUFFICES ASSUME DelegationInit PROVE DelegationInv
  OBVIOUS
<1>1. PICK limits \in Budgets :
        root = [r \in DOMAIN limits |->
                [phase |-> "idle", stopped |-> FALSE, expired |-> FALSE,
                 maxCalls |-> limits[r].maxCalls, maxCostUsd |-> limits[r].maxCostUsd,
                 calls |-> 0, committed |-> 0, reserved |-> 0, exceeded |-> FALSE, overran |-> FALSE]]
  BY DEF DelegationInit
<1>2. /\ handoff = <<>> /\ owner = [a \in Agents |-> NoTurn] /\ pending = [a \in Agents |-> {}]
  BY DEF DelegationInit, Queue!Init
<1>3. /\ DOMAIN limits \subseteq Roots /\ MaxHandoffs \in Nat
      /\ \A r \in DOMAIN limits : limits[r].maxCalls \in Nat /\ limits[r].maxCostUsd \in Nat
  BY DelegationAssumption
<1>4. Handoffs = {} /\ Len(handoff) = 0 /\ handoff \in Seq(HandoffRecords)
  BY <1>2 DEF Handoffs
<1>5. DOMAIN root = DOMAIN limits /\ \A r \in DOMAIN root : root[r] \in RootRecords
  BY <1>1, <1>3 DEF RootRecords
<1>6. root \in [DOMAIN root -> RootRecords]
  BY <1>1, <1>5
<1>7. DelegationTypeOK
  BY <1>2, <1>3, <1>4, <1>5, <1>6 DEF DelegationTypeOK
<1>8. Placed /\ Chained /\ Spending
  BY <1>2, <1>4 DEF Placed, Chained, Spending
<1>9. ASSUME NEW r \in DOMAIN root
      PROVE  Solvent(root[r], SumFunction(reservations(r)))
  <2> DEFINE f == reservations(r)
  <2>1. f = heldBy(handoff, r)
    BY DEF reservations, Handoffs, heldBy
  <2>2. Summands(f) /\ DOMAIN f = {}
    <3> HIDE DEF f
    <3> QED  BY <1>4, <2>1, Reservations DEF Handoffs
  <2> HIDE DEF f
  <2>3. SumFunction(f) = 0
    BY <2>2, SumTypes
  <2>4. /\ root[r].reserved = 0 /\ root[r].committed = 0 /\ ~root[r].overran /\ root[r].maxCostUsd \in Nat
    BY <1>1, <1>3
  <2>5. Solvent(root[r], 0)
    BY <2>4 DEF Solvent
  <2> QED  BY <2>3, <2>5 DEF f
<1> QED  BY <1>7, <1>8, <1>9 DEF DelegationInv, Budgeted

LEMMA DelegationSteps == DelegationInv /\ [DelegationNext]_delegationVars => DelegationInv'
<1> SUFFICES ASSUME DelegationInv, [DelegationNext]_delegationVars PROVE DelegationInv'
  OBVIOUS
<1>1. CASE UNCHANGED delegationVars
  BY <1>1 DEF delegationVars, DelegationInv, DelegationTypeOK, Placed, Turns, Handoffs, agentOf, Chained,
              Spending, Budgeted, reservations
<1>2. ASSUME NEW r \in DOMAIN root, RootStarts(r) \/ RootRuns(r) \/ RootEnds(r) \/ Stop(r) \/ Deadline(r)
      PROVE  DelegationInv'
  BY <1>2, RootTurnsKeep
<1>3. ASSUME NEW t \in DOMAIN root \cup Handoffs, NEW a \in Agents, Delegate(t, a)
      PROVE  DelegationInv'
  BY <1>3, DelegateKeeps DEF Turns
<1>4. ASSUME NEW h \in Handoffs, Abandon(h) \/ Pick(h) \/ Authorize(h) \/ Prepare(h)
      PROVE  DelegationInv'
  BY <1>4, AbandonKeeps, EarlyStepsKeep
<1>5. ASSUME NEW h \in Handoffs, StreamFails(h)
      PROVE  DelegationInv'
  <2>1. 0 \in Actual /\ settles(h, settledBudget(budgetOf(h), handoff[h].reserved, 0))
    BY <1>5, DelegationAssumption DEF Actual, StreamFails
  <2> QED  BY <2>1, SettlesLate
<1>6. ASSUME NEW h \in Handoffs, NEW actual \in Actual, Infer(h, actual) \/ StreamEnds(h, actual)
      PROVE  DelegationInv'
  <2>1. CASE Infer(h, actual)
    BY <2>1, InferKeeps
  <2>2. CASE StreamEnds(h, actual)
    <3>1. settles(h, settledBudget(budgetOf(h), handoff[h].reserved, actual))
      BY <2>2 DEF StreamEnds
    <3> QED  BY <3>1, SettlesLate
  <2> QED  BY <1>6, <2>1, <2>2
<1>7. CASE DelegationProgress
  BY <1>2, <1>4, <1>5, <1>6, <1>7 DEF DelegationProgress
<1> QED  BY <1>1, <1>2, <1>3, <1>7 DEF DelegationNext

LEMMA DelegationIsSafe == DelegationInv => DelegationSafety
<1> SUFFICES ASSUME DelegationInv PROVE DelegationSafety
  OBVIOUS
<1>1. BudgetHolds
  <2> SUFFICES ASSUME NEW r \in DOMAIN root
               PROVE  /\ root[r].reserved = SumFunction(reservations(r))
                      /\ ~root[r].overran => root[r].committed + root[r].reserved <= root[r].maxCostUsd
                      /\ root[r].overran => ~reservable(r, root[r])
    BY DEF BudgetHolds
  <2>1. Solvent(root[r], SumFunction(reservations(r))) /\ root[r] \in RootRecords /\ Price \in Nat
    BY DelegationTypes DEF DelegationInv, Budgeted
  <2>2. /\ root[r].reserved \in Nat /\ root[r].committed \in Nat /\ root[r].maxCostUsd \in Nat
    BY <2>1 DEF RootRecords
  <2>3. root[r].overran => ~reservable(r, root[r])
    BY <2>1, <2>2 DEF Solvent, reservable
  <2> QED  BY <2>1, <2>3 DEF Solvent
<1>2. NeverBehindItsChain
  <2> SUFFICES ASSUME NEW h \in Handoffs, NEW u \in handoff[h].chain
               PROVE  owner[handoff[h].agent] # u /\ u \notin pending[handoff[h].agent]
    BY DEF NeverBehindItsChain
  <2>1. u \in Turns /\ agentOf(u) # handoff[h].agent /\ u # NoTurn /\ handoff[h].agent \in Agents
    BY DelegationTypes DEF DelegationInv, Chained, HandoffRecords
  <2> QED  BY <2>1 DEF DelegationInv, Placed
<1> QED  BY <1>1, <1>2 DEF DelegationSafety

\* The delegated turns and their budgets are of their types.
THEOREM DelegationIsTyped == DelegationSpec => []DelegationTypeOK
<1>1. DelegationInv => DelegationTypeOK
  BY DEF DelegationInv
<1> QED  BY <1>1, DelegationStarts, DelegationSteps, PTL DEF DelegationSpec

\* However many turns delegate, stop, overrun and give up: what a budget has
\* reserved is what its unfinished turns hold, it is overspent by an overrun
\* only and then closed, and no handoff waits behind a turn that waits for it
\* (delegate.ts, delegation-budget.ts).
THEOREM DelegationKeepsToItsBudget == DelegationSpec => []DelegationSafety
<1> QED  BY DelegationStarts, DelegationSteps, DelegationIsSafe, PTL DEF DelegationSpec

====
