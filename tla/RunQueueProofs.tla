---- MODULE RunQueueProofs ----
(***************************************************************************)
(* Theorems about RunQueue for all threads, callers and depths.            *)
(*                                                                         *)
(* Every step is a composition of three moves on the triple (W, A, S) of   *)
(* lanes, owners and statuses: a push, a vacated slot, a shift. Each move  *)
(* keeps OnePlace, which is EveryCallHasOnePlace read at such a triple.    *)
(***************************************************************************)
EXTENDS RunQueue, TLAPS, SequenceTheorems

LaneSeqs == [Threads -> [Lanes -> Seq(Jobs)]]
Owners == [Threads -> Jobs \cup {NoJob}]
StatusMaps == [Jobs -> Statuses]

\* j stands at index i of the sequence s.
At(s, i, j) == i \in 1..Len(s) /\ s[i] = j

\* EveryCallHasOnePlace at lanes W, owners A and statuses S.
OnePlace(W, A, S) ==
    /\ \A j \in Jobs : S[j] = "queued" <=> \E t \in Threads, l \in Lanes, i \in Nat : At(W[t][l], i, j)
    /\ \A j \in Jobs : S[j] \in {"picked", "running"} <=> \E t \in Threads : A[t] = j
    /\ \A t, u \in Threads, l, m \in Lanes, i, k \in Nat, j \in Jobs :
        At(W[t][l], i, j) /\ At(W[u][m], k, j) => t = u /\ l = m /\ i = k
    /\ \A t, u \in Threads : A[t] = A[u] => t = u \/ A[t] = NoJob

LEMMA AtAppend ==
    ASSUME NEW s \in Seq(Jobs), NEW j \in Jobs, NEW i \in Nat, NEW k \in Jobs
    PROVE  At(Append(s, j), i, k) <=> At(s, i, k) \/ (i = Len(s) + 1 /\ k = j)
  BY DEF At

LEMMA AtTail ==
    ASSUME NEW s \in Seq(Jobs), s # <<>>, NEW i \in Nat, NEW k \in Jobs
    PROVE  /\ At(Tail(s), i, k) <=> i # 0 /\ At(s, i + 1, k)
           /\ At(s, 1, Head(s))
           /\ Head(s) \in Jobs
           /\ Tail(s) \in Seq(Jobs)
  BY HeadTailProperties, EmptySeq DEF At

\* The three moves.
Pushed(W, t, l, j) == [W EXCEPT ![t] = [W[t] EXCEPT ![l] = Append(W[t][l], j)]]
Shifted(W, t, l) == [W EXCEPT ![t] = [W[t] EXCEPT ![l] = Tail(W[t][l])]]

LEMMA PushKeepsOnePlace ==
    ASSUME NEW W \in LaneSeqs, NEW A \in Owners, NEW S \in StatusMaps,
           OnePlace(W, A, S),
           NEW t \in Threads, NEW l \in Lanes, NEW j \in Jobs, S[j] \in Free
    PROVE  /\ Pushed(W, t, l, j) \in LaneSeqs
           /\ [S EXCEPT ![j] = "queued"] \in StatusMaps
           /\ OnePlace(Pushed(W, t, l, j), A, [S EXCEPT ![j] = "queued"])
<1> DEFINE W1 == Pushed(W, t, l, j)
           S1 == [S EXCEPT ![j] = "queued"]
<1>1. W1 \in LaneSeqs /\ S1 \in StatusMaps
  BY DEF LaneSeqs, StatusMaps, Statuses, Pushed
<1>2. ASSUME NEW u \in Threads, NEW m \in Lanes, NEW i \in Nat, NEW k \in Jobs
      PROVE  At(W1[u][m], i, k) <=>
                At(W[u][m], i, k) \/ (u = t /\ m = l /\ k = j /\ i = Len(W[t][l]) + 1)
  BY AtAppend DEF LaneSeqs, Pushed
<1>3. \A u \in Threads, m \in Lanes, i \in Nat : ~At(W[u][m], i, j)
  BY DEF OnePlace, Free
<1>4. Len(W[t][l]) + 1 \in Nat
  BY DEF LaneSeqs
<1>5. ASSUME NEW k \in Jobs
      PROVE  S1[k] = "queued" <=> \E u \in Threads, m \in Lanes, i \in Nat : At(W1[u][m], i, k)
  BY <1>2, <1>3, <1>4 DEF OnePlace, StatusMaps
<1>6. ASSUME NEW k \in Jobs
      PROVE  S1[k] \in {"picked", "running"} <=> \E u \in Threads : A[u] = k
  BY DEF OnePlace, StatusMaps, Free
<1>7. \A u, v \in Threads, m, n \in Lanes, i, h \in Nat, k \in Jobs :
        At(W1[u][m], i, k) /\ At(W1[v][n], h, k) => u = v /\ m = n /\ i = h
  BY <1>2, <1>3 DEF OnePlace
<1> QED
  BY <1>1, <1>5, <1>6, <1>7 DEF OnePlace

LEMMA VacateKeepsOnePlace ==
    ASSUME NEW W \in LaneSeqs, NEW A \in Owners, NEW S \in StatusMaps,
           OnePlace(W, A, S), RunQueueAssumption,
           NEW t \in Threads, A[t] # NoJob, NEW o \in Free
    PROVE  /\ [A EXCEPT ![t] = NoJob] \in Owners
           /\ [S EXCEPT ![A[t]] = o] \in StatusMaps
           /\ OnePlace(W, [A EXCEPT ![t] = NoJob], [S EXCEPT ![A[t]] = o])
<1> DEFINE A1 == [A EXCEPT ![t] = NoJob]
           S1 == [S EXCEPT ![A[t]] = o]
<1>1. A1 \in Owners /\ S1 \in StatusMaps /\ A[t] \in Jobs
  BY DEF Owners, StatusMaps, Statuses
<1>2. \A u \in Threads : A1[u] = IF u = t THEN NoJob ELSE A[u]
  BY DEF Owners
<1>3. \A k \in Jobs : S1[k] = IF k = A[t] THEN o ELSE S[k]
  BY DEF StatusMaps
<1>4. S[A[t]] \in {"picked", "running"}
  BY <1>1 DEF OnePlace
<1>5. ASSUME NEW k \in Jobs
      PROVE  S1[k] = "queued" <=> \E u \in Threads, m \in Lanes, i \in Nat : At(W[u][m], i, k)
  BY <1>1, <1>3, <1>4 DEF OnePlace, Free
<1>6. ASSUME NEW k \in Jobs
      PROVE  S1[k] \in {"picked", "running"} <=> \E u \in Threads : A1[u] = k
  BY <1>1, <1>2, <1>3 DEF OnePlace, Free, RunQueueAssumption
<1>7. \A u, v \in Threads : A1[u] = A1[v] => u = v \/ A1[u] = NoJob
  BY <1>2 DEF OnePlace
<1> QED
  BY <1>1, <1>5, <1>6, <1>7 DEF OnePlace

LEMMA ShiftKeepsOnePlace ==
    ASSUME NEW W \in LaneSeqs, NEW A \in Owners, NEW S \in StatusMaps,
           OnePlace(W, A, S), RunQueueAssumption,
           NEW t \in Threads, A[t] = NoJob, NEW l \in Lanes, W[t][l] # <<>>
    PROVE  /\ Shifted(W, t, l) \in LaneSeqs
           /\ [A EXCEPT ![t] = Head(W[t][l])] \in Owners
           /\ [S EXCEPT ![Head(W[t][l])] = "picked"] \in StatusMaps
           /\ OnePlace(Shifted(W, t, l), [A EXCEPT ![t] = Head(W[t][l])],
                       [S EXCEPT ![Head(W[t][l])] = "picked"])
<1> DEFINE j == Head(W[t][l])
           W1 == Shifted(W, t, l)
           A1 == [A EXCEPT ![t] = j]
           S1 == [S EXCEPT ![j] = "picked"]
<1>1. W[t][l] \in Seq(Jobs) /\ j \in Jobs /\ At(W[t][l], 1, j) /\ Tail(W[t][l]) \in Seq(Jobs)
  BY AtTail DEF LaneSeqs
<1>2. W1 \in LaneSeqs /\ A1 \in Owners /\ S1 \in StatusMaps
  BY <1>1 DEF LaneSeqs, Owners, StatusMaps, Statuses, Shifted
<1>3. ASSUME NEW u \in Threads, NEW m \in Lanes, NEW i \in Nat, NEW k \in Jobs
      PROVE  At(W1[u][m], i, k) <=>
                IF u = t /\ m = l THEN i # 0 /\ At(W[u][m], i + 1, k) ELSE At(W[u][m], i, k)
  BY AtTail, <1>1 DEF LaneSeqs, Shifted
<1>4. \A u \in Threads : A1[u] = IF u = t THEN j ELSE A[u]
  BY DEF Owners
<1>5. \A k \in Jobs : S1[k] = IF k = j THEN "picked" ELSE S[k]
  BY DEF StatusMaps
<1>6. S[j] = "queued"
  BY <1>1 DEF OnePlace
<1>7. \A u \in Threads, m \in Lanes, i \in Nat : At(W[u][m], i, j) => u = t /\ m = l /\ i = 1
  BY <1>1 DEF OnePlace
<1>8. ASSUME NEW k \in Jobs
      PROVE  S1[k] = "queued" <=> \E u \in Threads, m \in Lanes, i \in Nat : At(W1[u][m], i, k)
  <2>1. CASE k = j
    BY <2>1, <1>3, <1>5, <1>7
  <2>2. CASE k # j
    <3>1. ASSUME NEW u \in Threads, NEW m \in Lanes, NEW i \in Nat, At(W[u][m], i, k)
          PROVE  \E h \in Nat : At(W1[u][m], h, k)
      <4>1. CASE u = t /\ m = l
        <5>1. i - 1 \in Nat /\ i - 1 # 0 /\ (i - 1) + 1 = i
          BY <4>1, <3>1, <2>2, <1>1 DEF At
        <5>2. At(W1[u][m], i - 1, k)
          BY <5>1, <4>1, <3>1, <1>3
        <5> QED  BY <5>1, <5>2
      <4>2. CASE ~(u = t /\ m = l)
        BY <4>2, <3>1, <1>3
      <4> QED  BY <4>1, <4>2
    <3>2. ASSUME NEW u \in Threads, NEW m \in Lanes, NEW i \in Nat, At(W1[u][m], i, k)
          PROVE  \E h \in Nat : At(W[u][m], h, k)
      BY <3>2, <1>3
    <3>3. S1[k] = S[k]
      BY <2>2, <1>5
    <3> QED  BY <3>1, <3>2, <3>3 DEF OnePlace
  <2> QED  BY <2>1, <2>2
<1>9. ASSUME NEW k \in Jobs
      PROVE  S1[k] \in {"picked", "running"} <=> \E u \in Threads : A1[u] = k
  BY <1>1, <1>4, <1>5, <1>6 DEF OnePlace, RunQueueAssumption
<1>10. ASSUME NEW u \in Threads, NEW v \in Threads, NEW m \in Lanes, NEW n \in Lanes,
              NEW i \in Nat, NEW h \in Nat, NEW k \in Jobs,
              At(W1[u][m], i, k), At(W1[v][n], h, k)
       PROVE  u = v /\ m = n /\ i = h
  <2>1. At(W[u][m], IF u = t /\ m = l THEN i + 1 ELSE i, k)
    BY <1>3, <1>10
  <2>2. At(W[v][n], IF v = t /\ n = l THEN h + 1 ELSE h, k)
    BY <1>3, <1>10
  <2>3. u = v /\ m = n /\ (IF u = t /\ m = l THEN i + 1 ELSE i) = (IF v = t /\ n = l THEN h + 1 ELSE h)
    BY <2>1, <2>2 DEF OnePlace
  <2> QED  BY <2>3
<1>11. \A u, v \in Threads : A1[u] = A1[v] => u = v \/ A1[u] = NoJob
  <2>1. \A u \in Threads : A[u] # j
    BY <1>1, <1>6 DEF OnePlace
  <2> QED  BY <2>1, <1>4 DEF OnePlace
<1> QED
  BY <1>1, <1>2, <1>8, <1>9, <1>10, <1>11 DEF OnePlace

----------------------------------------------------------------------------
(* The moves put together as the code does.                                *)

LaneLens(w) == Len(w["interactive"]) + Len(w["background"])

LEMMA LaneLensFacts ==
    ASSUME NEW w \in [Lanes -> Seq(Jobs)]
    PROVE  /\ Len(w["interactive"]) \in Nat
           /\ Len(w["background"]) \in Nat
           /\ LaneLens(w) \in Nat
           /\ \A l \in Lanes, j \in Jobs :
                LaneLens([w EXCEPT ![l] = Append(w[l], j)]) = LaneLens(w) + 1
           /\ \A l \in Lanes : w[l] # <<>> =>
                LaneLens([w EXCEPT ![l] = Tail(w[l])]) = LaneLens(w) - 1
<1> DEFINE a == Len(w["interactive"])
           b == Len(w["background"])
<1>1. a \in Nat /\ b \in Nat /\ LaneLens(w) = a + b
  BY DEF Lanes, LaneLens
<1>2. ASSUME NEW l \in Lanes, NEW s \in Seq(Jobs)
      PROVE  LaneLens([w EXCEPT ![l] = s]) =
                IF l = "interactive" THEN Len(s) + b ELSE a + Len(s)
  BY DEF Lanes, LaneLens
<1>3. ASSUME NEW l \in Lanes
      PROVE  /\ Len(w[l]) = IF l = "interactive" THEN a ELSE b
             /\ \A j \in Jobs : Append(w[l], j) \in Seq(Jobs) /\ Len(Append(w[l], j)) = Len(w[l]) + 1
             /\ w[l] # <<>> => Tail(w[l]) \in Seq(Jobs) /\ Len(Tail(w[l])) = Len(w[l]) - 1
  BY HeadTailProperties DEF Lanes
<1> HIDE DEF a, b
<1>4. ASSUME NEW l \in Lanes, NEW j \in Jobs
      PROVE  LaneLens([w EXCEPT ![l] = Append(w[l], j)]) = LaneLens(w) + 1
  <2>1. LaneLens([w EXCEPT ![l] = Append(w[l], j)]) =
          IF l = "interactive" THEN Len(Append(w[l], j)) + b ELSE a + Len(Append(w[l], j))
    BY <1>2, <1>3
  <2>2. Len(Append(w[l], j)) = IF l = "interactive" THEN a + 1 ELSE b + 1
    BY <1>3
  <2> QED  BY <1>1, <2>1, <2>2
<1>5. ASSUME NEW l \in Lanes, w[l] # <<>>
      PROVE  LaneLens([w EXCEPT ![l] = Tail(w[l])]) = LaneLens(w) - 1
  <2>1. LaneLens([w EXCEPT ![l] = Tail(w[l])]) =
          IF l = "interactive" THEN Len(Tail(w[l])) + b ELSE a + Len(Tail(w[l]))
    BY <1>2, <1>3, <1>5
  <2>2. Len(Tail(w[l])) = IF l = "interactive" THEN a - 1 ELSE b - 1
    BY <1>3, <1>5
  <2>3. LaneLens([w EXCEPT ![l] = Tail(w[l])]) =
          IF l = "interactive" THEN (a - 1) + b ELSE a + (b - 1)
    BY <2>1, <2>2, Zenon
  <2> QED  BY <1>1, <2>3
<1>6. LaneLens(w) \in Nat
  BY <1>1
<1> QED
  BY <1>1, <1>4, <1>5, <1>6 DEF a, b

\* Inv is inductive: where the calls are, and that no thread is stranded. The
\* second is needed because entryActive and entryLanes ignore an unregistered
\* thread's fields.
Inv == TypeOK /\ EveryCallHasOnePlace /\ NeverStalled /\ DepthBounded

\* The two spellings of the property, at any triple.
LEMMA PlaceForms ==
    ASSUME NEW W \in LaneSeqs, NEW A \in Owners, NEW S \in StatusMaps
    PROVE  OnePlace(W, A, S) <=>
      /\ \A j \in Jobs :
          /\ S[j] = "queued" <=> \E t \in Threads :
                j \in Range(W[t]["interactive"]) \cup Range(W[t]["background"])
          /\ S[j] \in {"picked", "running"} <=> \E t \in Threads : A[t] = j
      /\ \A t, u \in Threads : \A l, m \in Lanes :
          \A i \in DOMAIN W[t][l], k \in DOMAIN W[u][m] :
              W[t][l][i] = W[u][m][k] => <<t, l, i>> = <<u, m, k>>
      /\ \A t, u \in Threads : A[t] = A[u] => t = u \/ A[t] = NoJob
<1>1. ASSUME NEW t \in Threads, NEW l \in Lanes
      PROVE  /\ W[t][l] \in Seq(Jobs)
             /\ DOMAIN W[t][l] = 1..Len(W[t][l])
             /\ Len(W[t][l]) \in Nat
             /\ \A i \in 1..Len(W[t][l]) : W[t][l][i] \in Jobs
  BY DEF LaneSeqs
<1>2. ASSUME NEW t \in Threads, NEW l \in Lanes, NEW j \in Jobs
      PROVE  j \in Range(W[t][l]) <=> \E i \in Nat : At(W[t][l], i, j)
  BY <1>1 DEF Range, At
<1>3. ASSUME NEW j \in Jobs
      PROVE  (\E t \in Threads, l \in Lanes, i \in Nat : At(W[t][l], i, j)) <=>
             (\E t \in Threads : j \in Range(W[t]["interactive"]) \cup Range(W[t]["background"]))
  BY <1>2 DEF Lanes
<1>4. (\A t, u \in Threads, l, m \in Lanes, i, k \in Nat, j \in Jobs :
            At(W[t][l], i, j) /\ At(W[u][m], k, j) => t = u /\ l = m /\ i = k)
      <=> (\A t, u \in Threads : \A l, m \in Lanes :
            \A i \in DOMAIN W[t][l], k \in DOMAIN W[u][m] :
                W[t][l][i] = W[u][m][k] => <<t, l, i>> = <<u, m, k>>)
  <2>1. ASSUME NEW t \in Threads, NEW u \in Threads, NEW l \in Lanes, NEW m \in Lanes
        PROVE  (\A i, k \in Nat, j \in Jobs :
                    At(W[t][l], i, j) /\ At(W[u][m], k, j) => t = u /\ l = m /\ i = k)
               <=> (\A i \in DOMAIN W[t][l], k \in DOMAIN W[u][m] :
                        W[t][l][i] = W[u][m][k] => <<t, l, i>> = <<u, m, k>>)
    <3>1. ASSUME \A i, k \in Nat, j \in Jobs :
                    At(W[t][l], i, j) /\ At(W[u][m], k, j) => t = u /\ l = m /\ i = k,
                 NEW i \in DOMAIN W[t][l], NEW k \in DOMAIN W[u][m],
                 W[t][l][i] = W[u][m][k]
          PROVE  <<t, l, i>> = <<u, m, k>>
      <4>1. i \in Nat /\ k \in Nat /\ W[t][l][i] \in Jobs
        BY <1>1
      <4>2. At(W[t][l], i, W[t][l][i]) /\ At(W[u][m], k, W[t][l][i])
        BY <1>1, <3>1 DEF At
      <4> QED  BY <3>1, <4>1, <4>2
    <3>2. ASSUME \A i \in DOMAIN W[t][l], k \in DOMAIN W[u][m] :
                    W[t][l][i] = W[u][m][k] => <<t, l, i>> = <<u, m, k>>,
                 NEW i \in Nat, NEW k \in Nat, NEW j \in Jobs,
                 At(W[t][l], i, j), At(W[u][m], k, j)
          PROVE  t = u /\ l = m /\ i = k
      BY <3>2, <1>1 DEF At
    <3> QED  BY <3>1, <3>2
  <2> QED  BY <2>1
<1> QED
  BY <1>3, <1>4 DEF OnePlace

LEMMA Types ==
    TypeOK <=> /\ registered \in SUBSET Threads
               /\ active \in Owners
               /\ waiting \in LaneSeqs
               /\ status \in StatusMaps
               /\ deadline \in [Jobs -> Deadlines]
               /\ position \in [Jobs -> Nat]
               /\ served \in [Jobs -> 0..MaxDepth]
  BY DEF TypeOK, Owners, LaneSeqs, StatusMaps

\* drain, started with lanes w and statuses st on a thread without an owner.
LEMMA DrainStep ==
    ASSUME NEW t \in Threads, NEW w \in [Lanes -> Seq(Jobs)], NEW st \in StatusMaps,
           RunQueueAssumption,
           registered \in SUBSET Threads, active \in Owners, waiting \in LaneSeqs,
           OnePlace([waiting EXCEPT ![t] = w], [active EXCEPT ![t] = NoJob], st),
           LaneLens(w) <= MaxDepth,
           drain(t, w, st)
    PROVE  /\ waiting' \in LaneSeqs /\ active' \in Owners /\ status' \in StatusMaps
           /\ registered' \in SUBSET Threads
           /\ OnePlace(waiting', active', status')
           /\ active'[t] # NoJob <=> t \in registered'
           /\ waiting'[t] # Empty => active'[t] # NoJob
           /\ LaneLens(waiting'[t]) <= IF active'[t] = NoJob THEN MaxDepth ELSE MaxDepth - 1
           /\ \A u \in Threads \ {t} : /\ active'[u] = active[u]
                                       /\ waiting'[u] = waiting[u]
                                       /\ u \in registered' <=> u \in registered
<1> DEFINE W == [waiting EXCEPT ![t] = w]
           A == [active EXCEPT ![t] = NoJob]
<1>1. W \in LaneSeqs /\ A \in Owners /\ W[t] = w /\ A[t] = NoJob
  BY DEF LaneSeqs, Owners
<1>2. MaxDepth \in Nat
  BY DEF RunQueueAssumption
<1>3. ASSUME NEW l \in Lanes, mayShift(w, l),
             active' = [active EXCEPT ![t] = Head(w[l])],
             waiting' = [waiting EXCEPT ![t] = shifted(w, l)],
             status' = [st EXCEPT ![Head(w[l])] = "picked"],
             registered' = registered \cup {t}
      PROVE  /\ waiting' \in LaneSeqs /\ active' \in Owners /\ status' \in StatusMaps
             /\ OnePlace(waiting', active', status')
             /\ active'[t] # NoJob
             /\ LaneLens(waiting'[t]) <= MaxDepth - 1
  <2>1. w[l] # <<>> /\ w[l] \in Seq(Jobs)
    BY <1>3 DEF mayShift
  <2>2. Shifted(W, t, l) = waiting' /\ [A EXCEPT ![t] = Head(W[t][l])] = active'
    BY <1>1, <1>3 DEF Shifted, shifted, Owners, LaneSeqs
  <2>3. Head(w[l]) \in Jobs
    BY <2>1, HeadTailProperties
  <2>4. /\ waiting' \in LaneSeqs /\ active' \in Owners /\ status' \in StatusMaps
        /\ OnePlace(waiting', active', status')
    <3>1. OnePlace(W, A, st)
      OBVIOUS
    <3>2. [st EXCEPT ![Head(W[t][l])] = "picked"] = status'
      BY <1>1, <1>3
    <3> HIDE DEF W, A
    <3>3. /\ Shifted(W, t, l) \in LaneSeqs
          /\ [A EXCEPT ![t] = Head(W[t][l])] \in Owners
          /\ [st EXCEPT ![Head(W[t][l])] = "picked"] \in StatusMaps
          /\ OnePlace(Shifted(W, t, l), [A EXCEPT ![t] = Head(W[t][l])],
                      [st EXCEPT ![Head(W[t][l])] = "picked"])
      BY <3>1, <1>1, <2>1, ShiftKeepsOnePlace
    <3> QED  BY <3>2, <3>3, <2>2
  <2>5. active'[t] # NoJob
    BY <1>3, <2>3 DEF Owners, RunQueueAssumption
  <2>6. waiting'[t] = [w EXCEPT ![l] = Tail(w[l])]
    BY <1>3 DEF LaneSeqs, shifted
  <2>7. LaneLens(waiting'[t]) = LaneLens(w) - 1 /\ LaneLens(w) \in Nat
    BY <2>1, <2>6, LaneLensFacts
  <2> QED  BY <2>4, <2>5, <2>7, <1>2
<1>4. ASSUME w = Empty,
             active' = A, waiting' = W, status' = st, registered' = registered \ {t}
      PROVE  /\ waiting' \in LaneSeqs /\ active' \in Owners /\ status' \in StatusMaps
             /\ OnePlace(waiting', active', status')
             /\ active'[t] = NoJob
             /\ waiting'[t] = Empty
             /\ LaneLens(waiting'[t]) <= MaxDepth
  BY <1>1, <1>4
<1>5. ASSUME NEW u \in Threads \ {t}
      PROVE  /\ active'[u] = active[u]
             /\ waiting'[u] = waiting[u]
             /\ u \in registered' <=> u \in registered
  BY DEF drain, Owners, LaneSeqs
<1> QED
  BY <1>3, <1>4, <1>5 DEF drain

----------------------------------------------------------------------------
(* The steps keep the invariant.                                           *)

LEMMA RangesEmpty ==
    ASSUME NEW w \in [Lanes -> Seq(Jobs)]
    PROVE  Range(w["interactive"]) \cup Range(w["background"]) = {} <=> w = Empty
<1>1. ASSUME NEW l \in Lanes
      PROVE  Range(w[l]) = {} <=> w[l] = <<>>
  <2>1. w[l] \in Seq(Jobs) /\ DOMAIN w[l] = 1..Len(w[l]) /\ Len(w[l]) \in Nat
    OBVIOUS
  <2>2. CASE w[l] = <<>>
    BY <2>2, <2>1 DEF Range
  <2>3. CASE w[l] # <<>>
    <3>1. 1 \in DOMAIN w[l]
      BY <2>1, <2>3, EmptySeq
    <3> QED  BY <3>1, <2>3 DEF Range
  <2> QED  BY <2>2, <2>3
<1> QED
  BY <1>1 DEF Empty, Lanes

\* The state after a drain or a push, from what holds on the thread t and
\* what did not change on the others.
LEMMA InvFromThread ==
    ASSUME RunQueueAssumption, Inv, NEW t \in Threads,
           waiting' \in LaneSeqs, active' \in Owners, status' \in StatusMaps,
           registered' \in SUBSET Threads,
           deadline' \in [Jobs -> Deadlines], position' \in [Jobs -> Nat],
           served' \in [Jobs -> 0..MaxDepth],
           OnePlace(waiting', active', status'),
           active'[t] # NoJob <=> t \in registered',
           waiting'[t] # Empty => active'[t] # NoJob,
           LaneLens(waiting'[t]) <= IF active'[t] = NoJob THEN MaxDepth ELSE MaxDepth - 1,
           \A u \in Threads \ {t} : /\ active'[u] = active[u]
                                    /\ waiting'[u] = waiting[u]
                                    /\ u \in registered' <=> u \in registered
    PROVE  Inv'
<1>1. TypeOK'
  BY DEF TypeOK, Owners, LaneSeqs, StatusMaps
<1>2. EveryCallHasOnePlace'
  BY PlaceForms DEF EveryCallHasOnePlace, Waiters, InLane
<1>3. NeverStalled'
  <2>1. ASSUME NEW u \in Threads
        PROVE  /\ waiting'[u] # Empty => active'[u] # NoJob
               /\ active'[u] # NoJob <=> u \in registered'
    <3>1. CASE u = t
      BY <3>1
    <3>2. CASE u # t
      BY <3>2, RangesEmpty, Types DEF Inv, NeverStalled, Waiters, InLane, LaneSeqs
    <3> QED  BY <3>1, <3>2
  <2>2. \A u \in Threads : Waiters(u)' = {} <=> waiting'[u] = Empty
    BY RangesEmpty DEF Waiters, InLane, LaneSeqs
  <2> QED  BY <2>1, <2>2 DEF NeverStalled
<1>4. DepthBounded'
  BY DEF Inv, DepthBounded, LaneLens
<1> QED
  BY <1>1, <1>2, <1>3, <1>4 DEF Inv

(* A push changes one lane.                                                *)
LEMMA PushedIsUpdate ==
    ASSUME NEW w \in [Lanes -> Seq(Jobs)], NEW l \in Lanes, NEW j \in Jobs
    PROVE  pushed(w, l, j) = [w EXCEPT ![l] = Append(w[l], j)]
  BY DEF pushed

LEMMA EnqueueKeepsInv ==
    ASSUME RunQueueAssumption, Inv, NEW t \in Threads, NEW j \in Jobs, NEW l \in Lanes,
           Enqueue(t, j, l)
    PROVE  Inv'
<1> DEFINE w == [entryLanes(t) EXCEPT ![l] = Append(entryLanes(t)[l], j)]
           st == [status EXCEPT ![j] = "queued"]
<1>1. /\ registered \in SUBSET Threads /\ active \in Owners /\ waiting \in LaneSeqs
      /\ status \in StatusMaps /\ OnePlace(waiting, active, status)
  BY PlaceForms, Types DEF Inv, EveryCallHasOnePlace, Waiters, InLane
<1>2. entryLanes(t) = waiting[t] /\ entryActive(t) = active[t]
  <2>1. CASE t \in registered
    BY <2>1 DEF entryLanes, entryActive
  <2>2. CASE t \notin registered
    <3>1. active[t] = NoJob /\ Waiters(t) = {}
      BY <2>2 DEF Inv, NeverStalled
    <3>2. waiting[t] = Empty
      BY <3>1, <1>1, RangesEmpty DEF Waiters, InLane, LaneSeqs
    <3> QED  BY <2>2, <3>1, <3>2 DEF entryLanes, entryActive
  <2> QED  BY <2>1, <2>2
<1>3. w \in [Lanes -> Seq(Jobs)] /\ [waiting EXCEPT ![t] = w] = Pushed(waiting, t, l, j)
  BY <1>1, <1>2 DEF LaneSeqs, Pushed
<1>4. status[j] \in Free /\ depth(t) < MaxDepth
  BY DEF Enqueue
<1>5. /\ Pushed(waiting, t, l, j) \in LaneSeqs /\ st \in StatusMaps
      /\ OnePlace(Pushed(waiting, t, l, j), active, st)
  BY <1>1, <1>4, PushKeepsOnePlace
<1>6. LaneLens(w) <= IF active[t] = NoJob THEN MaxDepth ELSE MaxDepth - 1
  <2>1. waiting[t] \in [Lanes -> Seq(Jobs)]
    BY <1>1 DEF LaneSeqs
  <2>2. LaneLens(w) = LaneLens(waiting[t]) + 1 /\ LaneLens(waiting[t]) \in Nat
    BY <1>2, <2>1, LaneLensFacts
  <2>3. MaxDepth \in Nat
    BY DEF RunQueueAssumption
  <2>4. depth(t) = (IF active[t] = NoJob THEN 0 ELSE 1) + LaneLens(waiting[t])
    <3> DEFINE a == Len(waiting[t]["interactive"])
               b == Len(waiting[t]["background"])
    <3>1. a \in Nat /\ b \in Nat /\ LaneLens(waiting[t]) = a + b
      BY <2>1, LaneLensFacts DEF LaneLens
    <3>2. depth(t) = (IF active[t] = NoJob THEN 0 ELSE 1) + a + b
      BY <1>2 DEF depth
    <3> HIDE DEF a, b
    <3> QED  BY <3>1, <3>2
  <2> HIDE DEF w
  <2> QED  BY <1>4, <2>2, <2>3, <2>4
<1>7. /\ deadline' \in [Jobs -> Deadlines]
      /\ position' \in [Jobs -> Nat]
      /\ served' \in [Jobs -> 0..MaxDepth]
  <2>1. ahead(t, l) \in Nat
    <3> DEFINE a == Len(waiting[t]["interactive"])
               b == Len(waiting[t]["background"])
    <3>1. a \in Nat /\ b \in Nat
      BY <1>1, LaneLensFacts DEF LaneSeqs
    <3>2. ahead(t, l) = (IF active[t] = NoJob THEN 0 ELSE 1) + a
                          + (IF l = "background" THEN b ELSE 0)
      BY <1>2 DEF ahead
    <3> HIDE DEF a, b
    <3> QED  BY <3>1, <3>2
  <2>2. 0 \in 0..MaxDepth
    BY DEF RunQueueAssumption
  <2> QED  BY <2>1, <2>2 DEF Enqueue, Inv, TypeOK, Deadlines
<1>8. CASE active[t] = NoJob
  <2>1. drain(t, w, st)
    <3>1. pushed(entryLanes(t), l, j) = w
      BY <1>1, <1>2, PushedIsUpdate DEF LaneSeqs
    <3> HIDE DEF w
    <3> QED  BY <3>1, <1>1, <1>2, <1>8 DEF Enqueue, drains
  <2>2. [active EXCEPT ![t] = NoJob] = active
    BY <1>1, <1>8 DEF Owners
  <2>3. LaneLens(w) <= MaxDepth
    BY <1>6, <1>8
  <2>4. OnePlace([waiting EXCEPT ![t] = w], [active EXCEPT ![t] = NoJob], st)
    BY <1>3, <1>5, <2>2
  <2> HIDE DEF w, st
  <2>5. /\ waiting' \in LaneSeqs /\ active' \in Owners /\ status' \in StatusMaps
        /\ registered' \in SUBSET Threads
        /\ OnePlace(waiting', active', status')
        /\ active'[t] # NoJob <=> t \in registered'
        /\ waiting'[t] # Empty => active'[t] # NoJob
        /\ LaneLens(waiting'[t]) <= IF active'[t] = NoJob THEN MaxDepth ELSE MaxDepth - 1
        /\ \A u \in Threads \ {t} : /\ active'[u] = active[u]
                                    /\ waiting'[u] = waiting[u]
                                    /\ u \in registered' <=> u \in registered
    BY <1>1, <1>3, <1>5, <2>1, <2>3, <2>4, DrainStep
  <2> QED  BY <2>5, <1>7, InvFromThread
<1>9. CASE active[t] # NoJob
  <2>1. /\ waiting' = [waiting EXCEPT ![t] = w]
        /\ status' = st
        /\ registered' = registered \cup {t}
        /\ active' = active
    BY <1>1, <1>2, <1>9, PushedIsUpdate DEF Enqueue, drains, LaneSeqs
  <2>2. waiting'[t] = w
    BY <2>1, <1>1 DEF LaneSeqs
  <2>3. \A u \in Threads \ {t} : waiting'[u] = waiting[u] /\ active'[u] = active[u]
                                 /\ (u \in registered' <=> u \in registered)
    BY <2>1, <1>1 DEF LaneSeqs
  <2>4. waiting' \in LaneSeqs /\ status' \in StatusMaps /\ OnePlace(waiting', active', status')
    BY <2>1, <1>3, <1>5
  <2>5. LaneLens(waiting'[t]) <= IF active'[t] = NoJob THEN MaxDepth ELSE MaxDepth - 1
    BY <2>1, <2>2, <1>6
  <2>6. registered' \in SUBSET Threads /\ active' \in Owners /\ t \in registered' /\ active'[t] # NoJob
    BY <2>1, <1>1, <1>9
  <2> HIDE DEF w, st
  <2> QED  BY <2>3, <2>4, <2>5, <2>6, <1>7, InvFromThread
<1> QED
  BY <1>8, <1>9

LEMMA FinishKeepsInv ==
    ASSUME RunQueueAssumption, Inv, NEW t \in Threads, active[t] # NoJob,
           NEW o \in Free, finish(t, o)
    PROVE  Inv'
<1> DEFINE st == [status EXCEPT ![active[t]] = o]
<1>1. /\ registered \in SUBSET Threads /\ active \in Owners /\ waiting \in LaneSeqs
      /\ status \in StatusMaps /\ OnePlace(waiting, active, status)
  BY PlaceForms, Types DEF Inv, EveryCallHasOnePlace, Waiters, InLane
<1>2. t \in registered
  BY DEF Inv, NeverStalled
<1>3. drain(t, waiting[t], st)
  BY <1>2 DEF finish, stillRegistered
<1>4. waiting[t] \in [Lanes -> Seq(Jobs)] /\ [waiting EXCEPT ![t] = waiting[t]] = waiting
  BY <1>1 DEF LaneSeqs
<1>5. st \in StatusMaps /\ OnePlace(waiting, [active EXCEPT ![t] = NoJob], st)
  BY <1>1, VacateKeepsOnePlace
<1>6. LaneLens(waiting[t]) <= MaxDepth
  <2>1. MaxDepth \in Nat /\ LaneLens(waiting[t]) \in Nat
    BY <1>4, LaneLensFacts DEF RunQueueAssumption
  <2>2. LaneLens(waiting[t]) <= IF active[t] = NoJob THEN MaxDepth ELSE MaxDepth - 1
    BY DEF Inv, DepthBounded, LaneLens
  <2> QED  BY <2>1, <2>2
<1>7. /\ deadline' \in [Jobs -> Deadlines]
      /\ position' \in [Jobs -> Nat]
      /\ served' \in [Jobs -> 0..MaxDepth]
  <2>1. MaxDepth \in Nat /\ served \in [Jobs -> 0..MaxDepth]
    BY DEF RunQueueAssumption, Inv, TypeOK
  <2>2. served' \in [Jobs -> 0..MaxDepth]
    BY <2>1 DEF finish
  <2> QED  BY <2>2 DEF finish, Inv, TypeOK, Deadlines
<1> HIDE DEF st
<1>8. /\ waiting' \in LaneSeqs /\ active' \in Owners /\ status' \in StatusMaps
      /\ registered' \in SUBSET Threads
      /\ OnePlace(waiting', active', status')
      /\ active'[t] # NoJob <=> t \in registered'
      /\ waiting'[t] # Empty => active'[t] # NoJob
      /\ LaneLens(waiting'[t]) <= IF active'[t] = NoJob THEN MaxDepth ELSE MaxDepth - 1
      /\ \A u \in Threads \ {t} : /\ active'[u] = active[u]
                                  /\ waiting'[u] = waiting[u]
                                  /\ u \in registered' <=> u \in registered
  BY <1>1, <1>3, <1>4, <1>5, <1>6, DrainStep
<1> QED
  BY <1>7, <1>8, InvFromThread

LEMMA InitInv == RunQueueAssumption /\ Init => Inv
<1> SUFFICES ASSUME RunQueueAssumption, Init
             PROVE  Inv
  OBVIOUS
<1> USE DEF Init
<1>1. Empty \in [Lanes -> Seq(Jobs)] /\ \A l \in Lanes : Empty[l] = <<>>
  BY DEF Empty
<1>2. TypeOK
  BY <1>1 DEF TypeOK, Statuses, Free, Deadlines, RunQueueAssumption
<1>3. \A t \in Threads : Waiters(t) = {}
  BY <1>1, RangesEmpty DEF Waiters, InLane
<1>4. EveryCallHasOnePlace
  BY <1>1, <1>3 DEF EveryCallHasOnePlace, RunQueueAssumption
<1>5. NeverStalled
  BY <1>3 DEF NeverStalled
<1>6. DepthBounded
  BY <1>1 DEF DepthBounded, Lanes, RunQueueAssumption
<1> QED  BY <1>2, <1>4, <1>5, <1>6 DEF Inv

LEMMA NextKeepsInv == RunQueueAssumption /\ Inv /\ [Next]_vars => Inv'
<1> SUFFICES ASSUME RunQueueAssumption, Inv, [Next]_vars
             PROVE  Inv'
  OBVIOUS
<1>1. ASSUME NEW t \in Threads, NEW j \in Jobs, NEW l \in RequestedLanes, Enqueue(t, j, l)
      PROVE  Inv'
  <2>1. l \in Lanes
    BY DEF RequestedLanes, lane, sourceLanes, Lanes
  <2> QED  BY <1>1, <2>1, EnqueueKeepsInv
<1>2. ASSUME NEW t \in Threads, Start(t)
      PROVE  Inv'
  <2>1. active[t] \in Jobs
    BY <1>2 DEF Start, Inv, TypeOK
  <2>2. \A j \in Jobs : status'[j] = IF j = active[t] THEN "running" ELSE status[j]
    BY <1>2, <2>1 DEF Start, Inv, TypeOK
  <2>3. UNCHANGED <<registered, active, waiting, position, served>>
    BY <1>2 DEF Start
  <2>4. TypeOK'
    BY <1>2, <2>1, <2>3 DEF Start, Inv, TypeOK, Statuses, Deadlines
  <2>5. EveryCallHasOnePlace'
    <3>1. \A j \in Jobs :
            /\ status'[j] = "queued" <=> status[j] = "queued"
            /\ status'[j] \in {"picked", "running"} <=> status[j] \in {"picked", "running"}
      BY <1>2, <2>1, <2>2 DEF Start
    <3> QED  BY <2>3, <3>1 DEF Inv, EveryCallHasOnePlace, Waiters, InLane
  <2>6. NeverStalled' /\ DepthBounded'
    BY <2>3 DEF Inv, NeverStalled, DepthBounded, Waiters, InLane
  <2> QED  BY <2>4, <2>5, <2>6 DEF Inv
<1>3. ASSUME NEW t \in Threads, Expire(t)
      PROVE  Inv'
  BY <1>3, FinishKeepsInv DEF Expire, Free
<1>4. ASSUME NEW t \in Threads, Settle(t)
      PROVE  Inv'
  BY <1>4, FinishKeepsInv DEF Settle, Free
<1>5. ASSUME NEW j \in Jobs, PassDeadline(j)
      PROVE  Inv'
  <2>1. UNCHANGED <<registered, active, waiting, status, position, served>>
    BY <1>5 DEF PassDeadline
  <2>2. TypeOK'
    BY <1>5, <2>1 DEF PassDeadline, Inv, TypeOK, Deadlines
  <2>3. EveryCallHasOnePlace'
    BY <2>1 DEF Inv, EveryCallHasOnePlace, Waiters, InLane
  <2>4. NeverStalled' /\ DepthBounded'
    BY <2>1 DEF Inv, NeverStalled, DepthBounded, Waiters, InLane
  <2> QED  BY <2>2, <2>3, <2>4 DEF Inv
<1>6. CASE UNCHANGED vars
  <2>1. UNCHANGED <<registered, active, waiting, status, deadline, position, served>>
    BY <1>6 DEF vars
  <2>2. TypeOK'
    BY <2>1 DEF Inv, TypeOK
  <2>3. EveryCallHasOnePlace'
    BY <2>1 DEF Inv, EveryCallHasOnePlace, Waiters, InLane
  <2>4. NeverStalled' /\ DepthBounded'
    BY <2>1 DEF Inv, NeverStalled, DepthBounded, Waiters, InLane
  <2> QED  BY <2>2, <2>3, <2>4 DEF Inv
<1> QED
  BY <1>1, <1>2, <1>3, <1>4, <1>5, <1>6 DEF Next

\* Inv is an invariant of the queue.
THEOREM InvAlways == Spec => []Inv
<1>1. Init => Inv
  BY InitInv, RunQueueAssumption
<1>2. Inv /\ [Next]_vars => Inv'
  BY NextKeepsInv, RunQueueAssumption
<1> QED  BY <1>1, <1>2, PTL DEF Spec

\* Type correctness of the queue: the variables keep their types.
THEOREM TypeCorrect == Spec => []TypeOK
<1>1. Inv => TypeOK
  BY DEF Inv
<1> QED  BY <1>1, InvAlways, PTL

\* enqueueThreadRun, drain and finish neither lose a call nor hold it twice:
\* an open call is at one index of one lane or is the owner of one thread.
THEOREM NoCallLostOrDoubled == Spec => []EveryCallHasOnePlace
<1>1. Inv => EveryCallHasOnePlace
  BY DEF Inv
<1> QED  BY <1>1, InvAlways, PTL

\* drain deletes only idle entries, and finish always hands a thread over:
\* no thread has waiting jobs and no owner.
THEOREM ThreadsNeverStall == Spec => []NeverStalled
<1>1. Inv => NeverStalled
  BY DEF Inv
<1> QED  BY <1>1, InvAlways, PTL

\* QueueFullError keeps a thread's jobs, the active one included, within maxDepth.
THEOREM DepthIsBounded == Spec => []DepthBounded
<1>1. Inv => DepthBounded
  BY DEF Inv
<1> QED  BY <1>1, InvAlways, PTL

----------------------------------------------------------------------------
(* The queue implements SerialExecutor.                                    *)

\* The jobs in the lanes w.
InLanes(w) == Range(w["interactive"]) \cup Range(w["background"])

LEMMA RangeAt ==
    ASSUME NEW s \in Seq(Jobs), NEW j
    PROVE  j \in Range(s) <=> j \in Jobs /\ \E i \in Nat : At(s, i, j)
<1>1. DOMAIN s = 1..Len(s) /\ Len(s) \in Nat /\ \A i \in 1..Len(s) : s[i] \in Jobs
  OBVIOUS
<1> QED  BY <1>1 DEF Range, At

LEMMA InLanesAt ==
    ASSUME NEW w \in [Lanes -> Seq(Jobs)], NEW j
    PROVE  j \in InLanes(w) <=> j \in Jobs /\ \E l \in Lanes, i \in Nat : At(w[l], i, j)
  BY RangeAt DEF InLanes, Lanes

LEMMA PushAddsToLanes ==
    ASSUME NEW w \in [Lanes -> Seq(Jobs)], NEW l \in Lanes, NEW j \in Jobs
    PROVE  InLanes([w EXCEPT ![l] = Append(w[l], j)]) = InLanes(w) \cup {j}
<1> DEFINE w1 == [w EXCEPT ![l] = Append(w[l], j)]
<1>1. w1 \in [Lanes -> Seq(Jobs)]
  OBVIOUS
<1>2. ASSUME NEW m \in Lanes, NEW i \in Nat, NEW k \in Jobs
      PROVE  At(w1[m], i, k) <=> At(w[m], i, k) \/ (m = l /\ k = j /\ i = Len(w[l]) + 1)
  BY AtAppend
<1>3. Len(w[l]) + 1 \in Nat
  OBVIOUS
<1> HIDE DEF w1
<1>4. ASSUME NEW k \in Jobs
      PROVE  (\E m \in Lanes, i \in Nat : At(w1[m], i, k)) <=>
                k = j \/ \E m \in Lanes, i \in Nat : At(w[m], i, k)
  BY <1>2, <1>3
<1>5. \A k : k \in InLanes(w1) <=> k \in InLanes(w) \/ k = j
  BY <1>1, <1>4, InLanesAt
<1> QED  BY <1>5 DEF w1

LEMMA ShiftRemovesFromLanes ==
    ASSUME NEW w \in [Lanes -> Seq(Jobs)], NEW l \in Lanes, w[l] # <<>>,
           \A m, n \in Lanes, i, k \in Nat, j \in Jobs :
              At(w[m], i, j) /\ At(w[n], k, j) => m = n /\ i = k
    PROVE  /\ Head(w[l]) \in InLanes(w)
           /\ InLanes(shifted(w, l)) = InLanes(w) \ {Head(w[l])}
<1> DEFINE w1 == shifted(w, l)
           j == Head(w[l])
<1>1. w[l] \in Seq(Jobs) /\ j \in Jobs /\ At(w[l], 1, j) /\ Tail(w[l]) \in Seq(Jobs)
  BY AtTail
<1>2. w1 \in [Lanes -> Seq(Jobs)]
  BY <1>1 DEF shifted
<1>3. ASSUME NEW m \in Lanes, NEW i \in Nat, NEW k \in Jobs
      PROVE  At(w1[m], i, k) <=>
                IF m = l THEN i # 0 /\ At(w[m], i + 1, k) ELSE At(w[m], i, k)
  BY AtTail, <1>1 DEF shifted
<1>4. \A m \in Lanes, i \in Nat : At(w[m], i, j) => m = l /\ i = 1
  BY <1>1
<1> HIDE DEF w1, j
<1>5. ASSUME NEW k \in Jobs
      PROVE  (\E m \in Lanes, i \in Nat : At(w1[m], i, k)) <=>
                k # j /\ \E m \in Lanes, i \in Nat : At(w[m], i, k)
  <2>1. ASSUME NEW m \in Lanes, NEW i \in Nat, At(w1[m], i, k)
        PROVE  k # j /\ \E n \in Lanes, h \in Nat : At(w[n], h, k)
    BY <2>1, <1>3, <1>4
  <2>2. ASSUME k # j, NEW m \in Lanes, NEW i \in Nat, At(w[m], i, k)
        PROVE  \E n \in Lanes, h \in Nat : At(w1[n], h, k)
    <3>1. CASE m = l
      <4>1. PICK h \in Nat : h + 1 = i
        BY <2>2 DEF At
      <4>2. h # 0
        BY <4>1, <3>1, <2>2 DEF At, j
      <4>3. At(w1[m], h, k)
        BY <4>1, <4>2, <3>1, <2>2, <1>3
      <4> QED  BY <4>3
    <3>2. CASE m # l
      BY <3>2, <2>2, <1>3
    <3> QED  BY <3>1, <3>2
  <2> QED  BY <2>1, <2>2
<1>6. \A k : k \in InLanes(w1) <=> k \in InLanes(w) /\ k # j
  BY <1>2, <1>5, InLanesAt
<1>7. j \in InLanes(w)
  BY <1>1, InLanesAt
<1> QED  BY <1>6, <1>7 DEF w1, j

\* What a drain does to the owner and to the waiting jobs of the thread.
LEMMA DrainMaps ==
    ASSUME NEW t \in Threads, NEW w \in [Lanes -> Seq(Jobs)], NEW st,
           waiting \in LaneSeqs, active \in Owners, drain(t, w, st),
           \A m, n \in Lanes, i, k \in Nat, j \in Jobs :
              At(w[m], i, j) /\ At(w[n], k, j) => m = n /\ i = k
    PROVE  /\ \A u \in Threads \ {t} : waiting'[u] = waiting[u]
           /\ \/ \E j \in InLanes(w) : /\ active' = [active EXCEPT ![t] = j]
                                       /\ InLanes(waiting'[t]) = InLanes(w) \ {j}
              \/ /\ InLanes(w) = {}
                 /\ active' = [active EXCEPT ![t] = NoJob]
                 /\ InLanes(waiting'[t]) = {}
<1>1. \A u \in Threads \ {t} : waiting'[u] = waiting[u]
  BY DEF drain, LaneSeqs
<1>2. ASSUME NEW l \in Lanes, mayShift(w, l),
             active' = [active EXCEPT ![t] = Head(w[l])],
             waiting' = [waiting EXCEPT ![t] = shifted(w, l)]
      PROVE  \E j \in InLanes(w) : /\ active' = [active EXCEPT ![t] = j]
                                   /\ InLanes(waiting'[t]) = InLanes(w) \ {j}
  <2>1. w[l] # <<>>
    BY <1>2 DEF mayShift
  <2>2. waiting'[t] = shifted(w, l)
    BY <1>2 DEF LaneSeqs
  <2>3. Head(w[l]) \in InLanes(w) /\ InLanes(shifted(w, l)) = InLanes(w) \ {Head(w[l])}
    BY <2>1, ShiftRemovesFromLanes
  <2> QED  BY <1>2, <2>2, <2>3
<1>3. ASSUME w = Empty, active' = [active EXCEPT ![t] = NoJob],
             waiting' = [waiting EXCEPT ![t] = w]
      PROVE  /\ InLanes(w) = {}
             /\ active' = [active EXCEPT ![t] = NoJob]
             /\ InLanes(waiting'[t]) = {}
  BY <1>3, RangesEmpty DEF InLanes, LaneSeqs
<1> QED  BY <1>1, <1>2, <1>3 DEF drain

\* The facts every step of the refinement starts from.
LEMMA RefinementFacts ==
    ASSUME RunQueueAssumption, Inv
    PROVE  /\ active \in Owners /\ waiting \in LaneSeqs
           /\ OnePlace(waiting, active, status)
           /\ \A t \in Threads : Waiters(t) = InLanes(waiting[t])
           /\ \A t \in Threads : \A m, n \in Lanes, i, k \in Nat, j \in Jobs :
                At(waiting[t][m], i, j) /\ At(waiting[t][n], k, j) => m = n /\ i = k
           /\ \A t \in Threads : active[t] = NoJob => waiting[t] = Empty
           /\ \A t \in Threads : entryLanes(t) = waiting[t] /\ entryActive(t) = active[t]
<1>1. active \in Owners /\ waiting \in LaneSeqs /\ OnePlace(waiting, active, status)
  BY PlaceForms, Types DEF Inv, EveryCallHasOnePlace, Waiters, InLane
<1>2. \A t \in Threads : Waiters(t) = InLanes(waiting[t])
  BY DEF Waiters, InLane, InLanes
<1>3. \A t \in Threads : active[t] = NoJob => waiting[t] = Empty
  BY <1>1, RangesEmpty DEF Inv, NeverStalled, Waiters, InLane, LaneSeqs
<1>4. \A t \in Threads : entryLanes(t) = waiting[t] /\ entryActive(t) = active[t]
  BY <1>3 DEF entryLanes, entryActive, Inv, NeverStalled
<1>5. \A t \in Threads : \A m, n \in Lanes, i, k \in Nat, j \in Jobs :
        At(waiting[t][m], i, j) /\ At(waiting[t][n], k, j) => m = n /\ i = k
  <2> SUFFICES ASSUME NEW t \in Threads, NEW m \in Lanes, NEW n \in Lanes, NEW i \in Nat,
                      NEW k \in Nat, NEW j \in Jobs,
                      At(waiting[t][m], i, j), At(waiting[t][n], k, j)
               PROVE  m = n /\ i = k
    OBVIOUS
  <2> QED  BY <1>1 DEF OnePlace
<1> QED  BY <1>1, <1>2, <1>3, <1>4, <1>5

LEMMA EnqueueRefines ==
    ASSUME RunQueueAssumption, Inv, NEW t \in Threads, NEW j \in Jobs, NEW l \in Lanes,
           Enqueue(t, j, l)
    PROVE  Executor!Take(t, j) \/ Executor!Wait(t, j)
<1> DEFINE w == [waiting[t] EXCEPT ![l] = Append(waiting[t][l], j)]
           st == [status EXCEPT ![j] = "queued"]
<1>1. /\ active \in Owners /\ waiting \in LaneSeqs
      /\ OnePlace(waiting, active, status)
      /\ \A u \in Threads : Waiters(u) = InLanes(waiting[u])
      /\ \A m, n \in Lanes, i, k \in Nat, h \in Jobs :
            At(waiting[t][m], i, h) /\ At(waiting[t][n], k, h) => m = n /\ i = k
      /\ active[t] = NoJob => waiting[t] = Empty
      /\ entryLanes(t) = waiting[t] /\ entryActive(t) = active[t]
  BY RefinementFacts
<1>2. ~Executor!Busy(j)
  BY DEF Executor!Busy, Enqueue, Free, Inv, EveryCallHasOnePlace
<1>3. waiting[t] \in [Lanes -> Seq(Jobs)] /\ w \in [Lanes -> Seq(Jobs)]
  BY <1>1 DEF LaneSeqs
<1>4. InLanes(w) = InLanes(waiting[t]) \cup {j}
  BY <1>3, PushAddsToLanes
<1>5. \A u \in Threads : Waiters(u)' = InLanes(waiting'[u])
  BY DEF Waiters, InLane, InLanes
<1>6. CASE active[t] = NoJob
  <2>1. drain(t, w, st)
    <3>1. pushed(entryLanes(t), l, j) = w
      BY <1>1, PushedIsUpdate DEF LaneSeqs
    <3> HIDE DEF w
    <3> QED  BY <3>1, <1>1, <1>6 DEF Enqueue, drains
  <2>2. InLanes(waiting[t]) = {}
    BY <1>1, <1>3, <1>6, RangesEmpty DEF InLanes
  <2>3. \A m, n \in Lanes, i, k \in Nat, h \in Jobs :
          At(w[m], i, h) /\ At(w[n], k, h) => m = n /\ i = k
    <3>1. ASSUME NEW m \in Lanes, NEW i \in Nat, NEW h \in Jobs, At(w[m], i, h)
          PROVE  m = l /\ i = 1
      <4>1. waiting[t][m] = <<>> /\ waiting[t][l] = <<>>
        BY <1>1, <1>6 DEF Empty
      <4>2. w[m] = IF m = l THEN Append(<<>>, j) ELSE <<>>
        BY <4>1, <1>3
      <4>3. m = l
        BY <3>1, <4>2 DEF At
      <4>4. At(Append(<<>>, j), i, h)
        BY <4>2, <4>3, <3>1
      <4> HIDE DEF w
      <4> QED  BY <4>3, <4>4 DEF At
    <3> HIDE DEF w
    <3> QED  BY <3>1
  <2> HIDE DEF w, st
  <2>4. /\ \A u \in Threads \ {t} : waiting'[u] = waiting[u]
        /\ \/ \E k \in InLanes(w) : /\ active' = [active EXCEPT ![t] = k]
                                    /\ InLanes(waiting'[t]) = InLanes(w) \ {k}
           \/ /\ InLanes(w) = {}
              /\ active' = [active EXCEPT ![t] = NoJob]
              /\ InLanes(waiting'[t]) = {}
    BY <1>1, <1>3, <2>1, <2>3, DrainMaps
  <2>5. active' = [active EXCEPT ![t] = j] /\ InLanes(waiting'[t]) = {}
    BY <1>4, <2>2, <2>4
  <2>6. \A u \in Threads : Waiters(u)' = Waiters(u)
    BY <1>1, <1>5, <2>2, <2>4, <2>5
  <2> QED  BY <1>2, <1>6, <2>5, <2>6 DEF Executor!Take
<1>7. CASE active[t] # NoJob
  <2>1. waiting' = [waiting EXCEPT ![t] = w] /\ active' = active
    BY <1>1, <1>7, PushedIsUpdate DEF Enqueue, drains, LaneSeqs
  <2>2. waiting'[t] = w /\ \A u \in Threads \ {t} : waiting'[u] = waiting[u]
    BY <1>1, <2>1 DEF LaneSeqs
  <2> HIDE DEF w
  <2>3. \A u \in Threads : Waiters(u)' = IF u = t THEN Waiters(t) \cup {j} ELSE Waiters(u)
    BY <1>1, <1>4, <1>5, <2>2
  <2> QED  BY <1>2, <1>7, <2>1, <2>3 DEF Executor!Wait
<1> QED  BY <1>6, <1>7

LEMMA FinishRefines ==
    ASSUME RunQueueAssumption, Inv, NEW t \in Threads, active[t] # NoJob,
           NEW o \in Free, finish(t, o)
    PROVE  Executor!Release(t) \/ \E j \in Jobs : Executor!HandOver(t, j)
<1> DEFINE st == [status EXCEPT ![active[t]] = o]
<1>1. /\ active \in Owners /\ waiting \in LaneSeqs
      /\ \A u \in Threads : Waiters(u) = InLanes(waiting[u])
      /\ \A m, n \in Lanes, i, k \in Nat, h \in Jobs :
            At(waiting[t][m], i, h) /\ At(waiting[t][n], k, h) => m = n /\ i = k
  BY RefinementFacts
<1>2. waiting[t] \in [Lanes -> Seq(Jobs)]
  BY <1>1 DEF LaneSeqs
<1>3. drain(t, waiting[t], st)
  BY DEF finish, stillRegistered, Inv, NeverStalled
<1> HIDE DEF st
<1>4. /\ \A u \in Threads \ {t} : waiting'[u] = waiting[u]
      /\ \/ \E j \in InLanes(waiting[t]) :
              /\ active' = [active EXCEPT ![t] = j]
              /\ InLanes(waiting'[t]) = InLanes(waiting[t]) \ {j}
         \/ /\ InLanes(waiting[t]) = {}
            /\ active' = [active EXCEPT ![t] = NoJob]
            /\ InLanes(waiting'[t]) = {}
  BY <1>1, <1>2, <1>3, DrainMaps
<1>5. \A u \in Threads : Waiters(u)' = InLanes(waiting'[u])
  BY DEF Waiters, InLane, InLanes
<1>6. ASSUME NEW j \in InLanes(waiting[t]),
             active' = [active EXCEPT ![t] = j],
             InLanes(waiting'[t]) = InLanes(waiting[t]) \ {j}
      PROVE  j \in Jobs /\ Executor!HandOver(t, j)
  <2>1. j \in Jobs /\ j \in Waiters(t)
    BY <1>1, <1>2, InLanesAt
  <2>2. \A u \in Threads : Waiters(u)' = IF u = t THEN Waiters(t) \ {j} ELSE Waiters(u)
    BY <1>1, <1>4, <1>5, <1>6
  <2> QED  BY <1>6, <2>1, <2>2 DEF Executor!HandOver
<1>7. ASSUME InLanes(waiting[t]) = {},
             active' = [active EXCEPT ![t] = NoJob],
             InLanes(waiting'[t]) = {}
      PROVE  Executor!Release(t)
  <2>1. \A u \in Threads : Waiters(u)' = Waiters(u)
    BY <1>1, <1>4, <1>5, <1>7
  <2> QED  BY <1>1, <1>7, <2>1 DEF Executor!Release
<1> QED  BY <1>4, <1>6, <1>7

LEMMA NextRefines ==
    RunQueueAssumption /\ Inv /\ [Next]_vars => [Executor!Next]_(Executor!vars)
<1> SUFFICES ASSUME RunQueueAssumption, Inv, [Next]_vars
             PROVE  Executor!Next \/ UNCHANGED Executor!vars
  OBVIOUS
<1>1. ASSUME NEW t \in Threads, NEW j \in Jobs, NEW l \in RequestedLanes, Enqueue(t, j, l)
      PROVE  Executor!Next
  <2>1. l \in Lanes
    BY DEF RequestedLanes, lane, sourceLanes, Lanes
  <2> QED  BY <1>1, <2>1, EnqueueRefines DEF Executor!Next
<1>2. ASSUME NEW t \in Threads, NEW o \in Free, active[t] # NoJob, finish(t, o)
      PROVE  Executor!Next
  BY <1>2, FinishRefines DEF Executor!Next
<1>3. ASSUME active' = active, waiting' = waiting
      PROVE  UNCHANGED Executor!vars
  BY <1>3 DEF Executor!vars, Waiters, InLane
<1>4. ASSUME NEW t \in Threads, Start(t) \/ Expire(t) \/ Settle(t)
      PROVE  Executor!Next \/ UNCHANGED Executor!vars
  BY <1>2, <1>3, <1>4 DEF Start, Expire, Settle, Free
<1>5. CASE (\E j \in Jobs : PassDeadline(j)) \/ UNCHANGED vars
  BY <1>3, <1>5 DEF PassDeadline, vars
<1> QED  BY <1>1, <1>4, <1>5 DEF Next

\* The queue implements the serial executor: every call takes a free thread or
\* waits, and a thread is only ever handed over or released by its owner.
THEOREM QueueImplementsExecutor == Spec => ImplementsExecutor
<1>1. Init => Executor!Init
  <2> SUFFICES ASSUME Init
               PROVE  Executor!Init
    OBVIOUS
  <2>1. Empty \in [Lanes -> Seq(Jobs)]
    BY DEF Empty
  <2>2. \A t \in Threads : Waiters(t) = {}
    BY <2>1, RangesEmpty DEF Init, Waiters, InLane
  <2>3. active = [t \in Threads |-> NoJob]
    BY DEF Init
  <2> QED  BY <2>2, <2>3 DEF Executor!Init
<1>2. Inv /\ [Next]_vars => [Executor!Next]_(Executor!vars)
  BY NextRefines, RunQueueAssumption
<1> QED  BY <1>1, <1>2, InvAlways, PTL DEF Spec, Executor!Spec, ImplementsExecutor

LEMMA OwnerSettles ==
    ASSUME RunQueueAssumption, Inv, NEW u \in Threads, active[u] # NoJob,
           NEW o \in Free, finish(u, o),
           NEW t \in Threads, active[t] # NoJob, active'[t] # active[t]
    PROVE  status'[active[t]] \in Free
<1> DEFINE j == active[t]
           st == [status EXCEPT ![active[u]] = o]
<1>1. active \in Owners /\ waiting \in LaneSeqs /\ status \in StatusMaps
      /\ OnePlace(waiting, active, status)
  BY RefinementFacts, Types DEF Inv
<1>2. drain(u, waiting[u], st)
  BY DEF finish, stillRegistered, Inv, NeverStalled
<1>3. u = t
  BY <1>1, <1>2 DEF drain, Owners
<1>4. j \in Jobs /\ status[j] \in {"picked", "running"} /\ st \in StatusMaps /\ st[j] = o
  BY <1>1, <1>3 DEF OnePlace, Owners, StatusMaps, Statuses
<1>5. ASSUME NEW l \in Lanes, mayShift(waiting[t], l)
      PROVE  Head(waiting[t][l]) # j /\ Head(waiting[t][l]) \in Jobs
  <2>1. waiting[t][l] \in Seq(Jobs) /\ waiting[t][l] # <<>>
    BY <1>1, <1>5 DEF LaneSeqs, mayShift
  <2>2. At(waiting[t][l], 1, Head(waiting[t][l])) /\ Head(waiting[t][l]) \in Jobs
    BY <2>1, AtTail
  <2>3. status[Head(waiting[t][l])] = "queued"
    BY <1>1, <2>2 DEF OnePlace
  <2> QED  BY <1>4, <2>2, <2>3
<1> HIDE DEF j, st
<1>6. status'[j] = o
  BY <1>2, <1>3, <1>4, <1>5 DEF drain, StatusMaps
<1> QED  BY <1>6 DEF j

\* The owner of a thread changes only in the step in which its own promise
\* settles: a runner is never preempted, whatever is enqueued.
THEOREM OwnersAreNotPreempted == Spec => NoPreemption
<1> DEFINE Kept == \A t \in Threads :
             active[t] # NoJob /\ active'[t] # active[t] => status'[active[t]] \in Free
<1>1. Inv /\ [Next]_vars => [Kept]_vars
  <2> SUFFICES ASSUME Inv, Next, NEW t \in Threads,
                      active[t] # NoJob, active'[t] # active[t]
               PROVE  status'[active[t]] \in Free
    BY DEF vars
  <2>1. active \in Owners
    BY RefinementFacts, RunQueueAssumption
  <2>2. ASSUME NEW u \in Threads, NEW k \in Jobs, NEW l \in RequestedLanes, Enqueue(u, k, l)
        PROVE  FALSE
    <3>1. entryActive(u) = active[u]
      BY RefinementFacts, RunQueueAssumption
    <3> QED  BY <2>1, <2>2, <3>1 DEF Enqueue, drain, drains, Owners
  <2>3. ASSUME NEW u \in Threads, Expire(u) \/ Settle(u)
        PROVE  status'[active[t]] \in Free
    BY <2>3, OwnerSettles, RunQueueAssumption DEF Expire, Settle, Free
  <2>4. \A u \in Threads : ~Start(u)
    BY DEF Start
  <2>5. \A k \in Jobs : ~PassDeadline(k)
    BY DEF PassDeadline
  <2> QED  BY <2>2, <2>3, <2>4, <2>5 DEF Next
<1> QED  BY <1>1, InvAlways, PTL DEF Spec, NoPreemption

----------------------------------------------------------------------------
(* The positions that enqueueThreadRun returned.                           *)

\* The jobs of one thread, with lanes w and owner a, when P are the positions
\* and V counts the owners that left. Background jobs keep what is in front
\* of them in both lanes in view, or more: interactive jobs may be added. No
\* waiting job's position reaches MaxDepth, where served stops to count.
Counted(P, V, w, a) ==
    \A j \in Jobs :
        /\ a = j => V[j] >= P[j]
        /\ \A i \in Nat :
            /\ At(w["interactive"], i, j) => V[j] + i = P[j] /\ P[j] < MaxDepth
            /\ At(w["background"], i, j) =>
                 V[j] + Len(w["interactive"]) + i >= P[j] /\ P[j] < MaxDepth

\* The same without an owner, before one of the jobs is shifted.
Between(P, V, w) ==
    \A j \in Jobs, i \in Nat :
        /\ At(w["interactive"], i, j) => V[j] + i - 1 = P[j] /\ P[j] < MaxDepth
        /\ At(w["background"], i, j) =>
             V[j] + Len(w["interactive"]) + i - 1 >= P[j] /\ P[j] < MaxDepth

Counts == [Jobs -> 0..MaxDepth]
LaneMaps == [Lanes -> Seq(Jobs)]

LEMMA LaneMapFacts ==
    ASSUME NEW w \in LaneMaps
    PROVE  /\ w["interactive"] \in Seq(Jobs) /\ w["background"] \in Seq(Jobs)
           /\ Len(w["interactive"]) \in Nat /\ Len(w["background"]) \in Nat
  BY DEF LaneMaps, Lanes

LEMMA ShiftKeepsCounts ==
    ASSUME MaxDepth \in Nat, NEW w \in LaneMaps, NEW P \in [Jobs -> Nat], NEW V \in Counts,
           Between(P, V, w), NEW l \in Lanes, mayShift(w, l)
    PROVE  Counted(P, V, shifted(w, l), Head(w[l]))
<1> DEFINE x == shifted(w, l)
           h == Head(w[l])
<1>1. w[l] \in Seq(Jobs) /\ w[l] # <<>> /\ (l = "background" => w["interactive"] = <<>>)
  BY DEF mayShift, LaneMaps
<1>2. h \in Jobs /\ At(w[l], 1, h) /\ Tail(w[l]) \in Seq(Jobs) /\ Len(Tail(w[l])) = Len(w[l]) - 1
  BY <1>1, AtTail, HeadTailProperties
<1>3. /\ x \in LaneMaps /\ x[l] = Tail(w[l]) /\ \A m \in Lanes : m # l => x[m] = w[m]
  BY <1>2 DEF shifted, LaneMaps
<1>4. ASSUME NEW i \in Nat, NEW j \in Jobs
      PROVE  At(x[l], i, j) => At(w[l], i + 1, j)
  BY <1>1, <1>3, AtTail
<1>5. ASSUME NEW j \in Jobs
      PROVE  P[j] \in Nat /\ V[j] \in Nat
  BY DEF Counts
<1>6. l \in {"interactive", "background"}
  BY DEF Lanes
<1>7. Len(w["interactive"]) \in Nat
  BY LaneMapFacts
<1> HIDE DEF x, h
<1>8. CASE l = "interactive"
  <2>1. V[h] >= P[h]
    BY <1>2, <1>5, <1>8 DEF Between
  <2>2. x["background"] = w["background"] /\ Len(x["interactive"]) = Len(w["interactive"]) - 1
    BY <1>2, <1>3, <1>8 DEF Lanes
  <2>3. ASSUME NEW i \in Nat, NEW j \in Jobs
        PROVE  /\ At(x["interactive"], i, j) => V[j] + i = P[j] /\ P[j] < MaxDepth
               /\ At(x["background"], i, j) =>
                    V[j] + Len(x["interactive"]) + i >= P[j] /\ P[j] < MaxDepth
    <3>1. At(x["interactive"], i, j) => V[j] + (i + 1) - 1 = P[j] /\ P[j] < MaxDepth
      BY <1>4, <1>8 DEF Between
    <3>2. At(x["background"], i, j) =>
            V[j] + Len(w["interactive"]) + i - 1 >= P[j] /\ P[j] < MaxDepth
      BY <2>2 DEF Between
    <3> QED  BY <1>5, <1>7, <2>2, <3>1, <3>2
  <2> QED  BY <2>1, <2>3 DEF Counted, x, h
<1>9. CASE l = "background"
  <2>0. w["interactive"] = <<>> /\ Len(w["interactive"]) = 0
    BY <1>1, <1>9
  <2>1. V[h] >= P[h]
    BY <1>2, <1>5, <1>9, <2>0 DEF Between
  <2>2. x["interactive"] = w["interactive"]
    BY <1>3, <1>9 DEF Lanes
  <2>3. ASSUME NEW i \in Nat, NEW j \in Jobs
        PROVE  /\ ~At(x["interactive"], i, j)
               /\ At(x["background"], i, j) =>
                    V[j] + Len(x["interactive"]) + i >= P[j] /\ P[j] < MaxDepth
    <3>1. At(x["background"], i, j) =>
            V[j] + Len(w["interactive"]) + (i + 1) - 1 >= P[j] /\ P[j] < MaxDepth
      BY <1>4, <1>9 DEF Between
    <3>2. ~At(x["interactive"], i, j)
      BY <2>0, <2>2 DEF At
    <3> QED  BY <1>5, <2>0, <2>2, <3>1, <3>2
  <2> QED  BY <2>1, <2>3 DEF Counted, x, h
<1> QED  BY <1>6, <1>8, <1>9

\* The counts of a thread depend on its own jobs only.
LEMMA CountsOfOthers ==
    ASSUME NEW w \in LaneMaps, NEW a, NEW P, NEW V, NEW P1, NEW V1, Counted(P, V, w, a),
           \A j \in Jobs : a = j \/ (\E l \in Lanes, i \in Nat : At(w[l], i, j))
                           => P1[j] = P[j] /\ V1[j] = V[j]
    PROVE  Counted(P1, V1, w, a)
<1>1. ASSUME NEW j \in Jobs, NEW i \in Nat,
             a = j \/ At(w["interactive"], i, j) \/ At(w["background"], i, j)
      PROVE  P1[j] = P[j] /\ V1[j] = V[j]
  BY <1>1 DEF Lanes
<1>2. ASSUME NEW j \in Jobs, a = j
      PROVE  P1[j] = P[j] /\ V1[j] = V[j]
  BY <1>2
<1> QED  BY <1>1, <1>2 DEF Counted

\* Every waiting job counts the owner that leaves.
LEMMA LeavingKeepsCounts ==
    ASSUME MaxDepth \in Nat, NEW w \in LaneMaps, NEW a, NEW P \in [Jobs -> Nat], NEW V \in Counts,
           NEW P1, NEW V1, Counted(P, V, w, a),
           \A l \in Lanes, i \in Nat, j \in Jobs : At(w[l], i, j) =>
              P1[j] = P[j] /\ V1[j] = IF V[j] < MaxDepth THEN V[j] + 1 ELSE V[j]
    PROVE  Between(P1, V1, w)
<1> SUFFICES ASSUME NEW j \in Jobs, NEW i \in Nat
             PROVE  /\ At(w["interactive"], i, j) => V1[j] + i - 1 = P1[j] /\ P1[j] < MaxDepth
                    /\ At(w["background"], i, j) =>
                         V1[j] + Len(w["interactive"]) + i - 1 >= P1[j] /\ P1[j] < MaxDepth
  BY DEF Between
<1>1. P[j] \in Nat /\ V[j] \in 0..MaxDepth /\ Len(w["interactive"]) \in Nat
  BY LaneMapFacts DEF Counts
<1>2. ASSUME NEW s, At(s, i, j)
      PROVE  i >= 1
  BY <1>2 DEF At
<1>3. CASE At(w["interactive"], i, j)
  <2>1. V[j] + i = P[j] /\ P[j] < MaxDepth /\ i >= 1
    BY <1>2, <1>3 DEF Counted
  <2>2. P1[j] = P[j] /\ V1[j] = IF V[j] < MaxDepth THEN V[j] + 1 ELSE V[j]
    BY <1>3 DEF Lanes
  <2>3. ~At(w["background"], i, j) \/ V1[j] + Len(w["interactive"]) + i - 1 >= P1[j]
    BY <1>1, <2>1, <2>2
  <2> QED  BY <1>1, <2>1, <2>2, <2>3
<1>4. CASE At(w["background"], i, j)
  <2>1. V[j] + Len(w["interactive"]) + i >= P[j] /\ P[j] < MaxDepth /\ i >= 1
    BY <1>2, <1>4 DEF Counted
  <2>2. P1[j] = P[j] /\ V1[j] = IF V[j] < MaxDepth THEN V[j] + 1 ELSE V[j]
    BY <1>4 DEF Lanes
  <2>3. V1[j] + Len(w["interactive"]) + i - 1 >= P1[j]
    BY <1>1, <2>1, <2>2
  <2> QED  BY <1>3, <2>1, <2>2, <2>3
<1> QED  BY <1>3, <1>4

PositionInv ==
    \A t \in Threads : Counted(position, served, waiting[t], active[t])

LEMMA CountFacts ==
    ASSUME RunQueueAssumption, Inv
    PROVE  /\ MaxDepth \in Nat /\ MaxDepth > 0
           /\ position \in [Jobs -> Nat] /\ served \in Counts
           /\ \A t \in Threads : waiting[t] \in LaneMaps
  BY Types DEF RunQueueAssumption, Inv, Counts, LaneSeqs, LaneMaps

LEMMA DrainKeepsCounts ==
    ASSUME RunQueueAssumption, Inv, NEW t \in Threads, NEW w \in LaneMaps, NEW st,
           drain(t, w, st), position' \in [Jobs -> Nat], served' \in Counts,
           Between(position', served', w),
           \A u \in Threads \ {t} : Counted(position', served', waiting[u], active[u])
    PROVE  PositionInv'
<1>1. active \in Owners /\ waiting \in LaneSeqs /\ MaxDepth \in Nat
  BY RefinementFacts, CountFacts
<1>2. ASSUME NEW u \in Threads \ {t}
      PROVE  waiting'[u] = waiting[u] /\ active'[u] = active[u]
  BY <1>1 DEF drain, Owners, LaneSeqs
<1>3. ASSUME NEW l \in Lanes, mayShift(w, l), waiting'[t] = shifted(w, l), active'[t] = Head(w[l])
      PROVE  Counted(position', served', waiting'[t], active'[t])
  BY <1>1, <1>3, ShiftKeepsCounts
<1>4. ASSUME w = Empty, waiting'[t] = w, active'[t] = NoJob
      PROVE  Counted(position', served', waiting'[t], active'[t])
  <2>1. \A l \in Lanes, i \in Nat, j \in Jobs : ~At(w[l], i, j)
    BY <1>4 DEF Empty, At
  <2> QED  BY <1>4, <2>1 DEF Counted, RunQueueAssumption, Lanes
<1>5. \/ \E l \in Lanes : mayShift(w, l) /\ waiting'[t] = shifted(w, l) /\ active'[t] = Head(w[l])
      \/ w = Empty /\ waiting'[t] = w /\ active'[t] = NoJob
  BY <1>1 DEF drain, Owners, LaneSeqs
<1>6. Counted(position', served', waiting'[t], active'[t])
  BY <1>3, <1>4, <1>5
<1> QED  BY <1>2, <1>6 DEF PositionInv

LEMMA FinishKeepsCounts ==
    ASSUME RunQueueAssumption, Inv, PositionInv, Inv', NEW t \in Threads, active[t] # NoJob,
           NEW o \in Free, finish(t, o)
    PROVE  PositionInv'
<1>1. /\ active \in Owners /\ OnePlace(waiting, active, status) /\ active[t] \in Jobs
      /\ status[active[t]] \in {"picked", "running"} /\ t \in registered
  <2>1. active \in Owners /\ OnePlace(waiting, active, status)
    BY RefinementFacts
  <2>2. active[t] \in Jobs /\ t \in registered
    BY <2>1 DEF Owners, Inv, NeverStalled
  <2>3. status[active[t]] \in {"picked", "running"}
    BY <2>1, <2>2 DEF OnePlace
  <2> QED  BY <2>1, <2>2, <2>3
<1>2. /\ position' = [position EXCEPT ![active[t]] = 0]
      /\ served' = [j \in Jobs |-> IF j = active[t] THEN 0
                                   ELSE IF j \in Waiters(t) /\ served[j] < MaxDepth
                                   THEN served[j] + 1 ELSE served[j]]
      /\ drain(t, waiting[t], [status EXCEPT ![active[t]] = o])
  BY <1>1 DEF finish, stillRegistered
<1>3. position' \in [Jobs -> Nat] /\ served' \in Counts
  BY DEF Inv, TypeOK, Counts
<1>4. ASSUME NEW u \in Threads, NEW l \in Lanes, NEW i \in Nat, NEW j \in Jobs, At(waiting[u][l], i, j)
      PROVE  j # active[t] /\ (u # t => j \notin Waiters(t)) /\ (u = t => j \in Waiters(t))
  <2>1. status[j] = "queued"
    BY <1>1, <1>4 DEF OnePlace
  <2>2. j \in Waiters(t) <=> \E m \in Lanes, k \in Nat : At(waiting[t][m], k, j)
    <3>1. waiting[t] \in [Lanes -> Seq(Jobs)] /\ Waiters(t) = InLanes(waiting[t])
      BY RefinementFacts, CountFacts DEF LaneMaps
    <3> QED  BY <3>1, InLanesAt
  <2> QED  BY <1>1, <1>4, <2>1, <2>2 DEF OnePlace
<1>5. Between(position', served', waiting[t])
  <2>1. \A l \in Lanes, i \in Nat, j \in Jobs : At(waiting[t][l], i, j) =>
           position'[j] = position[j] /\ served'[j] = IF served[j] < MaxDepth THEN served[j] + 1 ELSE served[j]
    BY <1>2, <1>4, CountFacts
  <2>2. Counted(position, served, waiting[t], active[t])
    BY DEF PositionInv
  <2> QED  BY <2>1, <2>2, CountFacts, LeavingKeepsCounts
<1>6. ASSUME NEW u \in Threads \ {t}
      PROVE  Counted(position', served', waiting[u], active[u])
  <2>1. ASSUME NEW j \in Jobs, active[u] = j
        PROVE  position'[j] = position[j] /\ served'[j] = served[j]
    <3>1. j # active[t] /\ status[j] # "queued"
      BY <1>1, <2>1 DEF OnePlace, Owners, RunQueueAssumption
    <3>2. j \notin Waiters(t)
      BY <3>1 DEF Inv, EveryCallHasOnePlace
    <3> QED  BY <1>2, <3>1, <3>2, CountFacts
  <2>2. ASSUME NEW j \in Jobs, NEW l \in Lanes, NEW i \in Nat, At(waiting[u][l], i, j)
        PROVE  position'[j] = position[j] /\ served'[j] = served[j]
    BY <1>2, <1>4, <2>2, CountFacts
  <2>3. Counted(position, served, waiting[u], active[u])
    BY DEF PositionInv
  <2> QED  BY <2>1, <2>2, <2>3, CountFacts, CountsOfOthers
<1> QED  BY <1>2, <1>3, <1>5, <1>6, CountFacts, DrainKeepsCounts

\* A new call joins behind what is there, and nobody else's count changes.
LEMMA EnqueueKeepsCounts ==
    ASSUME RunQueueAssumption, Inv, PositionInv, Inv', NEW t \in Threads, NEW j \in Jobs, NEW l \in Lanes,
           Enqueue(t, j, l)
    PROVE  PositionInv'
<1> DEFINE w == pushed(entryLanes(t), l, j)
           a == Len(waiting[t]["interactive"])
           b == Len(waiting[t]["background"])
<1>1. /\ active \in Owners /\ OnePlace(waiting, active, status)
      /\ entryLanes(t) = waiting[t] /\ entryActive(t) = active[t]
      /\ waiting[t] \in LaneMaps
  BY RefinementFacts, CountFacts
<1>2. /\ status[j] \in Free /\ depth(t) < MaxDepth
      /\ position' = [position EXCEPT ![j] = ahead(t, l)]
      /\ served' = [served EXCEPT ![j] = 0]
  BY DEF Enqueue
<1>3. position' \in [Jobs -> Nat] /\ served' \in Counts
  BY DEF Inv, TypeOK, Counts
<1>4. a \in Nat /\ b \in Nat /\ MaxDepth \in Nat /\ MaxDepth > 0
  BY <1>1, LaneMapFacts, CountFacts
<1>5. w \in LaneMaps /\ \A m \in Lanes : w[m] = IF m = l THEN Append(waiting[t][m], j) ELSE waiting[t][m]
  <2>1. waiting[t][l] \in Seq(Jobs)
    BY <1>1 DEF LaneMaps
  <2> QED  BY <1>1, <2>1 DEF pushed, LaneMaps
<1>6. ASSUME NEW u \in Threads, NEW m \in Lanes, NEW i \in Nat, NEW k \in Jobs, At(waiting[u][m], i, k)
      PROVE  k # j
  BY <1>1, <1>2, <1>6 DEF OnePlace, Free
<1>7. ASSUME NEW u \in Threads
      PROVE  active[u] # j
  BY <1>1, <1>2 DEF OnePlace, Free
<1>8. \A k \in Jobs : k # j => position'[k] = position[k] /\ served'[k] = served[k]
  BY <1>2, CountFacts DEF Counts
<1>9. position'[j] = ahead(t, l) /\ served'[j] = 0
  BY <1>2, CountFacts DEF Counts
<1>10. ASSUME NEW u \in Threads
       PROVE  Counted(position', served', waiting[u], active[u])
  <2>1. Counted(position, served, waiting[u], active[u]) /\ waiting[u] \in LaneMaps
    BY CountFacts DEF PositionInv
  <2>2. \A k \in Jobs : active[u] = k \/ (\E m \in Lanes, i \in Nat : At(waiting[u][m], i, k))
                        => position'[k] = position[k] /\ served'[k] = served[k]
    BY <1>6, <1>7, <1>8
  <2> QED  BY <2>1, <2>2, CountsOfOthers
<1>11. /\ ahead(t, l) = (IF active[t] = NoJob THEN 0 ELSE 1) + a + (IF l = "background" THEN b ELSE 0)
       /\ ahead(t, l) <= (IF active[t] = NoJob THEN 0 ELSE 1) + a + b
       /\ (IF active[t] = NoJob THEN 0 ELSE 1) + a + b < MaxDepth
  <2>1. /\ ahead(t, l) = (IF active[t] = NoJob THEN 0 ELSE 1) + a + (IF l = "background" THEN b ELSE 0)
        /\ (IF active[t] = NoJob THEN 0 ELSE 1) + a + b < MaxDepth
    BY <1>1, <1>2 DEF ahead, depth
  <2> HIDE DEF a, b
  <2> QED  BY <1>4, <2>1
<1>12. ASSUME NEW i \in Nat, NEW k \in Jobs, NEW m \in Lanes, At(w[m], i, k)
       PROVE  At(waiting[t][m], i, k) \/ (m = l /\ k = j /\ i = Len(waiting[t][m]) + 1)
  <2>1. waiting[t][m] \in Seq(Jobs)
    BY <1>1 DEF LaneMaps
  <2> HIDE DEF w
  <2> QED  BY <1>5, <1>12, <2>1, AtAppend
<1> HIDE DEF w
<1>13. CASE active[t] = NoJob
  <2>1. drain(t, w, [status EXCEPT ![j] = "queued"])
    BY <1>1, <1>13 DEF Enqueue, drains, w
  <2>2. waiting[t] = Empty
    BY <1>13, RefinementFacts
  <2>3. a = 0 /\ b = 0 /\ \A m \in Lanes, i \in Nat, k \in Jobs : ~At(waiting[t][m], i, k)
    BY <2>2 DEF Empty, At, Lanes
  <2>4. ahead(t, l) = 0
    BY <1>11, <1>13, <2>3
  <2>5. ASSUME NEW i \in Nat, NEW k \in Jobs, NEW m \in Lanes, At(w[m], i, k)
        PROVE  m = l /\ i = 1 /\ position'[k] = 0 /\ served'[k] = 0
    <3>1. m = l /\ k = j /\ i = Len(waiting[t][m]) + 1
      BY <1>12, <2>3, <2>5
    <3>2. Len(waiting[t][m]) = 0
      BY <2>2 DEF Empty
    <3> QED  BY <1>9, <2>4, <3>1, <3>2
  <2>6. Len(w["interactive"]) \in Nat
    BY <1>5, LaneMapFacts
  <2>7. Between(position', served', w)
    BY <1>4, <2>5, <2>6 DEF Between, Lanes
  <2> QED  BY <1>3, <1>5, <1>10, <2>1, <2>7, DrainKeepsCounts
<1>14. CASE active[t] # NoJob
  <2>1. waiting' = [waiting EXCEPT ![t] = w] /\ active' = active
    BY <1>1, <1>14 DEF Enqueue, drains, w
  <2>2. waiting'[t] = w /\ \A u \in Threads : u # t => waiting'[u] = waiting[u]
    BY <2>1, RefinementFacts DEF LaneSeqs
  <2>3. Len(w["interactive"]) = IF l = "interactive" THEN a + 1 ELSE a
    <3>1. waiting[t]["interactive"] \in Seq(Jobs)
      BY <1>1, LaneMapFacts
    <3>2. Len(Append(waiting[t]["interactive"], j)) = a + 1
      BY <3>1
    <3> QED  BY <1>5, <3>2 DEF Lanes
  <2>4. ahead(t, l) = 1 + a + (IF l = "background" THEN b ELSE 0) /\ ahead(t, l) < MaxDepth
    <3> HIDE DEF a, b
    <3> QED  BY <1>4, <1>11, <1>14
  <2>5. ASSUME NEW k \in Jobs, NEW i \in Nat
        PROVE  /\ At(w["interactive"], i, k) => served'[k] + i = position'[k] /\ position'[k] < MaxDepth
               /\ At(w["background"], i, k) =>
                    served'[k] + Len(w["interactive"]) + i >= position'[k] /\ position'[k] < MaxDepth
    <3>1. position'[k] \in Nat /\ served'[k] \in Nat
      BY <1>3 DEF Counts
    <3>2. ASSUME At(w["interactive"], i, k)
          PROVE  served'[k] + i = position'[k] /\ position'[k] < MaxDepth
      <4>1. CASE At(waiting[t]["interactive"], i, k)
        BY <1>10, <4>1 DEF Counted
      <4>2. CASE "interactive" = l /\ k = j /\ i = a + 1
        <5> HIDE DEF a, b
        <5> QED  BY <1>4, <1>9, <2>4, <4>2
      <4> QED  BY <1>12, <3>2, <4>1, <4>2 DEF Lanes
    <3>3. ASSUME At(w["background"], i, k)
          PROVE  served'[k] + Len(w["interactive"]) + i >= position'[k] /\ position'[k] < MaxDepth
      <4>1. CASE At(waiting[t]["background"], i, k)
        <5>1. served'[k] + a + i >= position'[k] /\ position'[k] < MaxDepth
          BY <1>10, <4>1 DEF Counted
        <5> HIDE DEF a, b
        <5> QED  BY <1>4, <2>3, <3>1, <5>1
      <4>2. CASE "background" = l /\ k = j /\ i = b + 1
        <5> HIDE DEF a, b
        <5> QED  BY <1>4, <1>9, <2>3, <2>4, <4>2
      <4> QED  BY <1>12, <3>3, <4>1, <4>2 DEF Lanes
    <3> QED  BY <3>2, <3>3
  <2>6. Counted(position', served', waiting'[t], active'[t])
    <3>1. \A k \in Jobs : active'[t] = k => served'[k] >= position'[k]
      BY <1>10, <2>1 DEF Counted
    <3> QED  BY <2>2, <2>5, <3>1 DEF Counted
  <2>7. \A u \in Threads : u # t => Counted(position', served', waiting'[u], active'[u])
    BY <1>10, <2>1, <2>2
  <2> QED  BY <2>6, <2>7 DEF PositionInv
<1> QED  BY <1>13, <1>14

\* The position that a caller was told is kept: exactly so many owners leave
\* before an interactive job, at least so many before a background job.
THEOREM PositionsAreHonoured == Spec => []PositionHonoured
<1>1. Init => PositionInv
  <2> SUFFICES ASSUME Init, NEW t \in Threads
               PROVE  Counted(position, served, waiting[t], active[t])
    BY DEF PositionInv
  <2>1. waiting[t] = Empty /\ active[t] = NoJob
    BY DEF Init
  <2>2. \A l \in Lanes, i \in Nat, j \in Jobs : ~At(waiting[t][l], i, j)
    BY <2>1 DEF Empty, At
  <2> QED  BY <2>1, <2>2, RunQueueAssumption DEF Counted, RunQueueAssumption, Lanes
<1>2. Inv /\ PositionInv /\ [Next]_vars => PositionInv'
  <2> SUFFICES ASSUME Inv, PositionInv, [Next]_vars
               PROVE  PositionInv'
    OBVIOUS
  <2>0. Inv'
    BY NextKeepsInv, RunQueueAssumption
  <2>1. ASSUME NEW t \in Threads, NEW j \in Jobs, NEW l \in RequestedLanes, Enqueue(t, j, l)
        PROVE  PositionInv'
    <3>1. l \in Lanes
      BY DEF RequestedLanes, lane, sourceLanes, Lanes
    <3> QED  BY <2>0, <2>1, <3>1, EnqueueKeepsCounts, RunQueueAssumption
  <2>2. ASSUME NEW t \in Threads, Expire(t) \/ Settle(t)
        PROVE  PositionInv'
    BY <2>0, <2>2, FinishKeepsCounts, RunQueueAssumption DEF Expire, Settle, Free
  <2>3. ASSUME UNCHANGED <<active, waiting, position, served>>
        PROVE  PositionInv'
    BY <2>3 DEF PositionInv
  <2>4. CASE UNCHANGED vars
    BY <2>3, <2>4 DEF vars
  <2> QED  BY <2>1, <2>2, <2>3, <2>4 DEF Next, Start, PassDeadline
<1>3. Inv /\ PositionInv => PositionHonoured
  <2> SUFFICES ASSUME Inv, PositionInv, NEW j \in Jobs, NEW t \in Threads
               PROVE  /\ active[t] = j => served[j] >= position[j]
                      /\ \A i \in DOMAIN waiting[t]["interactive"] :
                           waiting[t]["interactive"][i] = j => served[j] + i = position[j]
    BY DEF PositionHonoured
  <2>1. waiting[t]["interactive"] \in Seq(Jobs)
    BY CountFacts, LaneMapFacts, RunQueueAssumption
  <2>2. DOMAIN waiting[t]["interactive"] = 1..Len(waiting[t]["interactive"])
    BY <2>1
  <2>3. \A i \in DOMAIN waiting[t]["interactive"] :
           waiting[t]["interactive"][i] = j => At(waiting[t]["interactive"], i, j) /\ i \in Nat
    BY <2>1, <2>2 DEF At
  <2> QED  BY <2>3 DEF PositionInv, Counted
<1> QED  BY <1>1, <1>2, <1>3, InvAlways, PTL DEF Spec

====
