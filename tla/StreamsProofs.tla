---- MODULE StreamsProofs ----
(***************************************************************************)
(* What open pages are shown: the text of a thread's runs (RunRegistry),   *)
(* for every set of pages, size of the buffer, number of runs and chunks;  *)
(* and notifications (NotificationBus), for every set of tabs, size of the *)
(* ring, number of events and clock.                                       *)
(***************************************************************************)
EXTENDS RunRegistry, NotificationBus, SubsequencesProofs, TLAPS

----------------------------------------------------------------------------
(* The live stream of the runs. The strengthening ties the three copies of *)
(* a run's text to its log: the buffer is the end of the log, final_text   *)
(* is the text after all of it, and a page shows the text after as much of *)
(* it as its cursor says.                                                  *)


Statuses == {"absent", "running", "finished"}
Entries == [
    status : Statuses, log : Seq(Chunks), events : Seq(Chunks),
    finalText : Seq(Ids), subscribers : SUBSET Clients]
Streams == [phase : Phases, cursor : Ids \cup {NoCursor}, screen : Seq(Ids), continuation : BOOLEAN]

Types ==
    /\ current \in Runs \cup {NoRun} /\ executing \in Runs \cup {NoRun}
    /\ evicting \in SUBSET Runs /\ collecting \in BOOLEAN
    /\ run \in [Runs -> Entries]
    /\ client \in [Clients -> Streams]

textNow(r, e) == textAfter(r, e.log)[Len(e.log)]

\* The buffer is the end of the log.
Buffers(e) ==
    /\ Len(e.events) <= MaxBuffered /\ Len(e.events) <= Len(e.log)
    /\ \A i \in 1..Len(e.events) : e.events[i] = e.log[Len(e.log) - Len(e.events) + i]

EntryOK(r, e) ==
    /\ Buffers(e)
    /\ e.finalText = textNow(r, e)
    /\ e.status = "absent" => e = Fresh("absent")

\* A run that was started is the entry until it is finished, and only then is
\* its timer armed.
Registered ==
    /\ \A r \in Runs : run[r].status = "running" => current = r
    /\ \A r \in evicting : run[r].status = "finished"
    /\ current # NoRun => run[current].status # "absent"

\* The page cl shows the text its cursor names, in the runs R.
Shows(R, cl) ==
    \/ cl.cursor = NoCursor /\ cl.screen = <<>>
    \/ \E r \in Runs : \E n \in 0..Len(R[r].log) :
        cl.cursor = <<r, n>> /\ cl.screen = textAfter(r, R[r].log)[n]

Pages ==
    /\ \A c \in Clients : Shows(run, client[c])
    /\ \A r \in Runs : \A c \in run[r].subscribers :
        /\ client[c].phase = "live" /\ client[c].screen = textNow(r, run[r])
        /\ \A q \in Runs : c \in run[q].subscribers => q = r

Inv ==
    /\ Types
    /\ \A r \in Runs : EntryOK(r, run[r])
    /\ Registered
    /\ Pages

----------------------------------------------------------------------------
(* Texts.                                                                  *)

LEMMA IdFacts ==
    /\ NoRun \notin Runs /\ NoCursor \notin Ids
    /\ \A r \in Runs, n \in Nat : <<r, n>> \in Ids /\ <<r, n>>[1] = r /\ <<r, n>>[2] = n
  BY RunRegistryAssumption DEF NoRun, Runs, NoCursor, Ids, RunRegistryAssumption

LEMMA RenderedType ==
    ASSUME NEW text \in Seq(Ids), NEW id \in Ids, NEW k
    PROVE  rendered(text, id, k) \in Seq(Ids)
<1>1. <<>> \in Seq(Ids) /\ Append(text, id) \in Seq(Ids)
  OBVIOUS
<1>2. CASE k = "text_delta"  BY <1>1, <1>2 DEF rendered
<1>3. CASE k = "reset_text"  BY <1>1, <1>3 DEF rendered
<1>4. CASE k \notin {"text_delta", "reset_text"}  BY <1>4 DEF rendered
<1> QED  BY <1>2, <1>3, <1>4

\* The texts of a log, one chunk after the other.
LEMMA TextFacts ==
    ASSUME NEW r \in Runs, NEW log \in Seq(Chunks)
    PROVE  LET text == textAfter(r, log)
           IN  /\ text \in [0..Len(log) -> Seq(Ids)]
               /\ text[0] = <<>>
               /\ \A i \in 1..Len(log) : text[i] = rendered(text[i - 1], <<r, i>>, log[i])
<1> DEFINE n == Len(log)
           P == (1..n) \X Seq(Ids)
           g == [p \in P |-> rendered(p[2], <<r, p[1]>>, log[p[1]])]
           Is(f) == f = [i \in 0..n |-> IF i = 0 THEN <<>> ELSE rendered(f[i - 1], <<r, i>>, log[i])]
           h == CHOOSE f : Is(f)
<1>1. n \in Nat /\ <<>> \in Seq(Ids)
  OBVIOUS
<1>2. ASSUME NEW i \in 1..n, NEW x \in Seq(Ids)
      PROVE  <<i, x>> \in P /\ rendered(x, <<r, i>>, log[i]) \in Seq(Ids)
  <2>1. i \in Nat /\ <<r, i>> \in Ids
    BY <1>1, IdFacts
  <2> QED  BY <2>1, RenderedType
<1>3. PICK f \in [0..n -> Seq(Ids)] : f[0] = <<>> /\ \A i \in 1..n : f[i] = g[<<i, f[i - 1]>>]
  <2> DEFINE X == Seq(Ids)
             b == <<>>
  <2>1. b \in X /\ n \in Nat /\ \A i \in 1..n, x \in X : g[<<i, x>>] \in X
    BY <1>1, <1>2
  <2>2. Iterations(X, b, n, g) # {}
    <3> HIDE DEF g, n, X, b
    <3> QED  BY <2>1, Iterates
  <2> QED  BY <2>2 DEF Iterations
<1>4. \A i \in 1..n : f[i] = rendered(f[i - 1], <<r, i>>, log[i])
  <2>1. ASSUME NEW i \in 1..n PROVE f[i] = rendered(f[i - 1], <<r, i>>, log[i])
    <3>1. i - 1 \in 0..n
      BY <1>1
    <3>2. <<i, f[i - 1]>> \in P
      BY <3>1
    <3> QED  BY <1>3, <3>2
  <2> QED  BY <2>1
<1>5. Is(f)
  <2>1. \A i \in 0..n : f[i] = IF i = 0 THEN <<>> ELSE rendered(f[i - 1], <<r, i>>, log[i])
    <3> HIDE DEF n
    <3> QED  BY <1>1, <1>3, <1>4
  <2>2. f = [i \in 0..n |-> f[i]]
    BY <1>3
  <2> QED  BY <2>1, <2>2
<1>6. Is(h)
  BY <1>5
<1>7. textAfter(r, log) = h
  BY Zenon DEF textAfter
<1>8. \A i \in 0..n : h[i] = IF i = 0 THEN <<>> ELSE rendered(h[i - 1], <<r, i>>, log[i])
  BY <1>6
<1>9. DOMAIN h = 0..n
  BY <1>6
<1>10. h = f
  <2> DEFINE T == {i \in Nat : i <= n => h[i] = f[i]}
  <2> HIDE DEF h, g, n
  <2>1. 0 \in T
    <3>1. h[0] = <<>>
      <4>1. 0 \in 0..n
        BY <1>1
      <4> QED  BY <1>8, <4>1
    <3> QED  BY <1>3, <3>1
  <2>2. ASSUME NEW i \in T PROVE i + 1 \in T
    <3>1. ASSUME i + 1 <= n PROVE h[i + 1] = f[i + 1]
      <4>1. i \in Nat /\ i + 1 \in 1..n /\ (i + 1) - 1 = i /\ h[i] = f[i] /\ i + 1 # 0
        BY <1>1, <2>2, <3>1
      <4>2. h[i + 1] = rendered(h[i], <<r, i + 1>>, log[i + 1])
        BY <1>1, <1>8, <4>1
      <4>3. f[i + 1] = rendered(f[i], <<r, i + 1>>, log[i + 1])
        BY <1>4, <4>1
      <4> QED  BY <4>1, <4>2, <4>3
    <3> QED  BY <3>1
  <2>3. T = Nat
    <3>1. T \in SUBSET Nat  OBVIOUS
    <3> HIDE DEF T
    <3> QED  BY <2>1, <2>2, <3>1, NatSetInduction
  <2>4. ASSUME NEW i \in 0..n PROVE h[i] = f[i]
    <3>1. i \in Nat /\ i <= n
      BY <1>1
    <3>2. i \in T
      BY <2>3, <3>1
    <3> QED  BY <3>1, <3>2
  <2>5. DOMAIN f = 0..n /\ f = [i \in 0..n |-> f[i]] /\ h = [i \in 0..n |-> h[i]]
    BY <1>3, <1>6, <1>9 DEF h
  <2> QED  BY <2>4, <2>5
<1> HIDE DEF h, g
<1> QED  BY <1>3, <1>4, <1>7, <1>10

\* Chunks that are added to a log leave the texts before them.
LEMMA TextStays ==
    ASSUME NEW r \in Runs, NEW log \in Seq(Chunks), NEW more \in Seq(Chunks), Len(log) <= Len(more),
           \A i \in 1..Len(log) : more[i] = log[i]
    PROVE  \A n \in 0..Len(log) : textAfter(r, more)[n] = textAfter(r, log)[n]
<1> DEFINE f == textAfter(r, log)
           h == textAfter(r, more)
           T == {n \in Nat : n <= Len(log) => h[n] = f[n]}
<1>1. /\ Len(log) \in Nat /\ Len(more) \in Nat
      /\ f[0] = <<>> /\ \A i \in 1..Len(log) : f[i] = rendered(f[i - 1], <<r, i>>, log[i])
      /\ h[0] = <<>> /\ \A i \in 1..Len(more) : h[i] = rendered(h[i - 1], <<r, i>>, more[i])
  BY TextFacts
<1> HIDE DEF f, h
<1>2. 0 \in T
  BY <1>1
<1>3. ASSUME NEW n \in T
      PROVE  n + 1 \in T
  <2>1. ASSUME n + 1 <= Len(log) PROVE h[n + 1] = f[n + 1]
    <3>1. /\ n + 1 \in 1..Len(log) /\ n + 1 \in 1..Len(more) /\ (n + 1) - 1 = n
          /\ h[n] = f[n]
      BY <1>1, <1>3, <2>1
    <3> QED  BY <1>1, <3>1
  <2> QED  BY <2>1
<1>4. T = Nat
  <2>1. T \in SUBSET Nat  OBVIOUS
  <2> HIDE DEF T
  <2> QED  BY <1>2, <1>3, <2>1, NatSetInduction
<1>5. ASSUME NEW n \in 0..Len(log) PROVE h[n] = f[n]
  <2>1. n \in Nat /\ n <= Len(log)
    BY <1>1
  <2>2. n \in T
    BY <1>4, <2>1
  <2> QED  BY <2>1, <2>2
<1> QED  BY <1>5 DEF f, h

----------------------------------------------------------------------------
(* What a page reads.                                                      *)

\* The page cl has read up to id: it shows text and is in phase p.
moved(cl, id, text, p) == [cl EXCEPT !.cursor = id, !.screen = text, !.phase = p]

LEMMA StreamUpdates ==
    ASSUME NEW cl \in Streams, NEW id \in Ids, NEW text \in Seq(Ids), NEW p \in Phases
    PROVE  LET s == moved(cl, id, text, p)
           IN  s \in Streams /\ s.cursor = id /\ s.screen = text /\ s.phase = p
  BY DEF Streams, moved

\* The page s, in phase p or at its end, has read the first n chunks of run r,
\* unless it stopped before.
IsAt(R, r, n, p, s) ==
    /\ s \in Streams /\ Shows(R, s) /\ s.phase \in {p, "ended"}
    /\ s.phase # "ended" => s.screen = textAfter(r, R[r].log)[n]

\* One chunk: the page is at the text before it, and then at the one after.
LEMMA ReceivedShows ==
    ASSUME NEW R \in [Runs -> Entries], NEW r \in Runs, NEW m \in 1..Len(R[r].log),
           NEW c, NEW p, NEW cl, IsAt(R, r, m - 1, p, cl)
    PROVE  IsAt(R, r, m, p, received(c, cl, <<r, m>>, R[r].log[m]))
<1> DEFINE log == R[r].log
           k == log[m]
           text == textAfter(r, log)
           s == received(c, cl, <<r, m>>, k)
<1>0. /\ cl \in Streams /\ Shows(R, cl) /\ cl.phase \in {p, "ended"}
      /\ cl.phase # "ended" => cl.screen = text[m - 1]
  BY DEF IsAt
<1>1. /\ log \in Seq(Chunks) /\ Len(log) \in Nat /\ m \in Nat /\ m \in 0..Len(log) /\ m - 1 \in 0..Len(log)
      /\ k \in Chunks
  BY DEF Entries
<1>2. text[m] = rendered(text[m - 1], <<r, m>>, k) /\ text[m] \in Seq(Ids)
  <2>1. /\ text \in [0..Len(log) -> Seq(Ids)]
        /\ \A i \in 1..Len(log) : text[i] = rendered(text[i - 1], <<r, i>>, log[i])
    BY <1>1, TextFacts
  <2> HIDE DEF text, log
  <2> QED  BY <1>1, <2>1 DEF k
<1> HIDE DEF log, text, k
<1>3. CASE cl.phase = "ended"
  BY <1>0, <1>3 DEF received, IsAt, log, k
<1>4. CASE cl.phase # "ended" /\ ~shouldEmitChunk(c, k)
  <2>1. k = "tool" /\ text[m] = text[m - 1]
    BY <1>2, <1>4 DEF shouldEmitChunk, rendered
  <2>2. s = cl
    BY <1>4 DEF received
  <2> HIDE DEF s
  <2>3. IsAt(R, r, m, p, s)
    BY <1>0, <1>4, <2>1, <2>2 DEF text, log, IsAt
  <2> QED  BY <2>3 DEF s, k, log
<1>5. CASE cl.phase # "ended" /\ shouldEmitChunk(c, k)
  <2> DEFINE q == IF k = "terminal" THEN "ended" ELSE cl.phase
  <2>1. cl.screen = text[m - 1] /\ q \in Phases /\ <<r, m>> \in Ids
    BY <1>0, <1>1, <1>5, IdFacts DEF Phases, Streams
  <2>2. s = moved(cl, <<r, m>>, text[m], q)
    BY <1>2, <1>5, <2>1 DEF received, moved
  <2>3. s \in Streams /\ s.cursor = <<r, m>> /\ s.screen = text[m] /\ s.phase = q
    BY <1>0, <1>2, <2>1, <2>2, StreamUpdates
  <2>4. Shows(R, s)
    BY <1>1, <2>3 DEF Shows, text, log
  <2> HIDE DEF s
  <2>5. s.phase \in {p, "ended"}
    BY <1>0, <2>3
  <2>6. IsAt(R, r, m, p, s)
    BY <2>3, <2>4, <2>5 DEF text, log, IsAt
  <2> QED  BY <2>6 DEF s, k, log
<1> QED  BY <1>3, <1>4, <1>5

LEMMA ReceivedType ==
    ASSUME NEW c, NEW cl \in Streams, NEW id \in Ids, NEW k
    PROVE  received(c, cl, id, k) \in Streams
<1> DEFINE p == IF k = "terminal" THEN "ended" ELSE cl.phase
           screen == rendered(cl.screen, id, k)
<1>1. p \in Phases /\ screen \in Seq(Ids)
  BY RenderedType DEF Phases, Streams
<1>2. received(c, cl, id, k) \in {cl, moved(cl, id, screen, p)}
  BY DEF received, moved
<1> HIDE DEF p, screen
<1> QED  BY <1>1, <1>2, StreamUpdates

\* What sent computes, one chunk after the other.
SendsIn(state, c, cl, r, chunks, first, after) ==
    /\ state[0] = cl /\ sent(c, cl, r, chunks, first, after) = state[Len(chunks)]
    /\ \A i \in 1..Len(chunks) :
          state[i] = IF skips(first + i - 1, after) THEN state[i - 1]
                     ELSE received(c, state[i - 1], <<r, first + i - 1>>, chunks[i])

LEMMA SentFacts ==
    ASSUME NEW c, NEW cl \in Streams, NEW r \in Runs, NEW chunks \in Seq(Chunks),
           NEW first \in Nat \ {0}, NEW after
    PROVE  \E state : SendsIn(state, c, cl, r, chunks, first, after)
<1> DEFINE n == Len(chunks)
           step(i, x) == IF skips(first + i - 1, after) THEN x
                         ELSE received(c, x, <<r, first + i - 1>>, chunks[i])
           P == (1..n) \X Streams
           g == [p \in P |-> step(p[1], p[2])]
           Is(f) == f = [i \in 0..n |->
                          IF i = 0 THEN cl
                          ELSE IF skips(first + i - 1, after) THEN f[i - 1]
                          ELSE received(c, f[i - 1], <<r, first + i - 1>>, chunks[i])]
           h == CHOOSE f : Is(f)
<1>1. n \in Nat
  OBVIOUS
<1>2. ASSUME NEW i \in 1..n, NEW x \in Streams
      PROVE  <<i, x>> \in P /\ step(i, x) \in Streams
  <2>1. <<r, first + i - 1>> \in Ids
    BY <1>1, IdFacts
  <2> QED  BY <2>1, ReceivedType
<1>3. PICK f \in [0..n -> Streams] : f[0] = cl /\ \A i \in 1..n : f[i] = g[<<i, f[i - 1]>>]
  <2>1. n \in Nat /\ \A i \in 1..n, x \in Streams : g[<<i, x>>] \in Streams
    BY <1>1, <1>2
  <2>2. Iterations(Streams, cl, n, g) # {}
    <3> HIDE DEF g, n
    <3> QED  BY <2>1, Iterates
  <2> QED  BY <2>2 DEF Iterations
<1>4. \A i \in 1..n : f[i] = step(i, f[i - 1])
  <2>1. ASSUME NEW i \in 1..n PROVE f[i] = step(i, f[i - 1])
    <3>1. i - 1 \in 0..n
      BY <1>1
    <3>2. f[i - 1] \in Streams
      BY <3>1
    <3>3. <<i, f[i - 1]>> \in P
      BY <3>2
    <3> HIDE DEF step
    <3> QED  BY <1>3, <3>3
  <2> QED  BY <2>1
<1>5. Is(f)
  <2>1. ASSUME NEW i \in 0..n
        PROVE  f[i] = IF i = 0 THEN cl
                      ELSE IF skips(first + i - 1, after) THEN f[i - 1]
                      ELSE received(c, f[i - 1], <<r, first + i - 1>>, chunks[i])
    <3>1. CASE i = 0
      BY <1>3, <3>1
    <3>2. CASE i \in 1..n
      BY <1>4, <3>2
    <3> HIDE DEF n
    <3> QED  BY <1>1, <3>1, <3>2
  <2>2. f = [i \in 0..n |-> f[i]]
    BY <1>3
  <2> QED  BY <2>1, <2>2
<1>6. Is(h)
  BY <1>5
<1>7. sent(c, cl, r, chunks, first, after) = h[n]
  BY Zenon DEF sent
<1>8. \A i \in 0..n : h[i] = IF i = 0 THEN cl
                             ELSE IF skips(first + i - 1, after) THEN h[i - 1]
                             ELSE received(c, h[i - 1], <<r, first + i - 1>>, chunks[i])
  BY <1>6
<1> HIDE DEF h, n
<1>9. h[0] = cl
  <2>1. 0 \in 0..n
    BY <1>1
  <2> QED  BY <1>8, <2>1
<1>10. \A i \in 1..n : i \in 0..n /\ i # 0
  BY <1>1
<1> QED  BY <1>7, <1>8, <1>9, <1>10 DEF n, SendsIn

\* A page reads the rest of a log: it is at the text after base chunks, and has
\* not had those after it. Unless it stops, it is at the end of the log then.
Unread(R, r, cl, chunks, first, after, base) ==
    /\ first - 1 + Len(chunks) = Len(R[r].log)
    /\ \A i \in 1..Len(chunks) : chunks[i] = R[r].log[first - 1 + i]
    /\ base \in {first - 1, after} /\ first - 1 <= base /\ after <= base /\ base <= Len(R[r].log)
    /\ Shows(R, cl) /\ cl.phase # "ended" /\ cl.screen = textAfter(r, R[r].log)[base]

LEMMA SentShows ==
    ASSUME NEW R \in [Runs -> Entries], NEW r \in Runs, NEW c, NEW cl \in Streams,
           NEW chunks \in Seq(Chunks), NEW first \in Nat \ {0}, NEW after \in Nat, NEW base \in Nat,
           Unread(R, r, cl, chunks, first, after, base)
    PROVE  IsAt(R, r, Len(R[r].log), cl.phase, sent(c, cl, r, chunks, first, after))
<1> DEFINE log == R[r].log
           n == Len(chunks)
           at(i) == IF base >= first - 1 + i THEN base ELSE first - 1 + i
           Good(s, i) == IsAt(R, r, at(i), cl.phase, s)
<1>0. /\ first - 1 + n = Len(log) /\ \A i \in 1..n : chunks[i] = log[first - 1 + i]
      /\ base \in {first - 1, after} /\ first - 1 <= base /\ after <= base /\ base <= Len(log)
      /\ Shows(R, cl) /\ cl.phase # "ended" /\ cl.screen = textAfter(r, log)[base]
  BY DEF Unread
<1>1. n \in Nat /\ Len(log) \in Nat
  BY DEF Entries
<1>2. PICK state : SendsIn(state, c, cl, r, chunks, first, after)
  BY SentFacts
<1> DEFINE T == {i \in Nat : i <= n => Good(state[i], i)}
<1>3. 0 \in T
  <2>1. at(0) = base
    BY <1>0
  <2> HIDE DEF at
  <2>2. Good(state[0], 0)
    BY <1>0, <1>2, <2>1 DEF SendsIn, IsAt
  <2> QED  BY <2>2
<1>4. ASSUME NEW i \in T
      PROVE  i + 1 \in T
  <2>1. SUFFICES ASSUME i + 1 <= n PROVE Good(state[i + 1], i + 1)
    BY <1>4
  <2> DEFINE m == first + i
             s == state[i]
  <2>2. /\ i \in Nat /\ i + 1 \in 1..n /\ (i + 1) - 1 = i /\ first + (i + 1) - 1 = m
        /\ first - 1 + (i + 1) = m /\ m \in 1..Len(log) /\ Good(s, i)
    BY <1>0, <1>1, <1>4, <2>1
  <2>3. state[i + 1] = IF skips(m, after) THEN s ELSE received(c, s, <<r, m>>, log[m])
    BY <1>0, <1>2, <2>2 DEF SendsIn
  <2>4. CASE m <= after
    <3>1. at(i) = base /\ at(i + 1) = base
      BY <1>0, <2>2, <2>4
    <3>2. state[i + 1] = s
      BY <2>3, <2>4 DEF skips
    <3> HIDE DEF at
    <3> QED  BY <2>2, <3>1, <3>2
  <2>5. CASE ~(m <= after)
    <3>1. at(i) = m - 1 /\ at(i + 1) = m
      <4>1. i \in Nat /\ base < m /\ base >= first - 1
        BY <1>0, <2>2, <2>5
      <4>2. first - 1 + i = m - 1 /\ first - 1 + (i + 1) = m
        BY <4>1
      <4>3. base >= m - 1 => base = m - 1
        BY <4>1
      <4> HIDE DEF m
      <4> QED  BY <1>0, <4>1, <4>2, <4>3
    <3>2. state[i + 1] = received(c, s, <<r, m>>, log[m])
      BY <2>3, <2>5 DEF skips
    <3> HIDE DEF at, m, s
    <3>3. IsAt(R, r, m - 1, cl.phase, s) /\ m \in 1..Len(R[r].log)
      BY <2>2, <3>1
    <3>4. IsAt(R, r, m, cl.phase, received(c, s, <<r, m>>, R[r].log[m]))
      BY <3>3, ReceivedShows
    <3> QED  BY <3>1, <3>2, <3>4
  <2> QED  BY <2>4, <2>5
<1>5. T = Nat
  <2>1. T \in SUBSET Nat  OBVIOUS
  <2> HIDE DEF T
  <2> QED  BY <1>3, <1>4, <2>1, NatSetInduction
<1>6. Good(state[n], n)
  <2>1. n \in T
    BY <1>1, <1>5
  <2>2. n <= n
    BY <1>1
  <2> HIDE DEF Good, n
  <2> QED  BY <2>1, <2>2
<1>7. at(n) = Len(log)
  <2> DEFINE y == Len(log)
  <2>1. first - 1 + n = y /\ base <= y /\ y \in Nat /\ n \in Nat
    BY <1>0, <1>1
  <2> HIDE DEF n, y
  <2>2. base >= y => base = y
    BY <2>1
  <2> QED  BY <2>1, <2>2 DEF y
<1> HIDE DEF at
<1> QED  BY <1>2, <1>6, <1>7 DEF SendsIn

----------------------------------------------------------------------------
(* The runs and the pages that watch them.                                 *)

LEMMA CatFacts ==
    ASSUME NEW S, NEW s \in Seq(S), NEW t \in Seq(S)
    PROVE  /\ s \o t \in Seq(S) /\ Len(s \o t) = Len(s) + Len(t)
           /\ Len(s) \in Nat /\ Len(t) \in Nat
           /\ \A i \in 1..Len(s) : (s \o t)[i] = s[i]
           /\ \A i \in 1..Len(t) : (s \o t)[Len(s) + i] = t[i]
  OBVIOUS

LEMMA BufferedFacts ==
    ASSUME NEW s \in Seq(Chunks)
    PROVE  /\ buffered(s) \in Seq(Chunks) /\ Len(buffered(s)) <= MaxBuffered
           /\ Len(buffered(s)) <= Len(s)
           /\ \A i \in 1..Len(buffered(s)) : buffered(s)[i] = s[Len(s) - Len(buffered(s)) + i]
<1>1. Len(s) \in Nat /\ MaxBuffered \in Nat \ {0}
  BY RunRegistryAssumption DEF RunRegistryAssumption
<1>2. CASE Len(s) <= MaxBuffered
  <2>1. buffered(s) = s
    BY <1>1, <1>2 DEF buffered
  <2>2. \A i \in 1..Len(s) : Len(s) - Len(s) + i = i
    BY <1>1
  <2> QED  BY <1>1, <1>2, <2>1, <2>2
<1>3. CASE Len(s) > MaxBuffered
  <2> DEFINE k == Len(s) - MaxBuffered + 1
  <2>1. k \in 1..Len(s) /\ Len(s) - k + 1 = MaxBuffered /\ Len(s) - MaxBuffered = k - 1
    BY <1>1, <1>3
  <2>2. /\ SubSeq(s, k, Len(s)) \in Seq(Chunks) /\ Len(SubSeq(s, k, Len(s))) = MaxBuffered
        /\ \A i \in 1..MaxBuffered : SubSeq(s, k, Len(s))[i] = s[k + i - 1]
    BY <1>1, <2>1
  <2>3. buffered(s) = SubSeq(s, k, Len(s))
    BY <1>3 DEF buffered
  <2>4. \A i \in 1..MaxBuffered : k + i - 1 = Len(s) - MaxBuffered + i
    BY <1>1
  <2> HIDE DEF k
  <2> QED  BY <1>1, <1>3, <2>2, <2>3, <2>4
<1> QED  BY <1>1, <1>2, <1>3

\* The logs of R1 go on where those of R end.
Grow(R, R1) ==
    \A r \in Runs :
        /\ Len(R[r].log) <= Len(R1[r].log)
        /\ \A i \in 1..Len(R[r].log) : R1[r].log[i] = R[r].log[i]

LEMMA TextsStay ==
    ASSUME NEW R \in [Runs -> Entries], NEW R1 \in [Runs -> Entries], Grow(R, R1)
    PROVE  \A r \in Runs : \A n \in 0..Len(R[r].log) :
             textAfter(r, R1[r].log)[n] = textAfter(r, R[r].log)[n]
<1>1. ASSUME NEW r \in Runs
      PROVE  \A n \in 0..Len(R[r].log) : textAfter(r, R1[r].log)[n] = textAfter(r, R[r].log)[n]
  <2>1. R[r].log \in Seq(Chunks) /\ R1[r].log \in Seq(Chunks)
    BY DEF Entries
  <2> QED  BY <2>1, TextStays DEF Grow
<1> QED  BY <1>1

LEMMA ShowsStays ==
    ASSUME NEW R \in [Runs -> Entries], NEW R1 \in [Runs -> Entries], Grow(R, R1), NEW cl, Shows(R, cl)
    PROVE  Shows(R1, cl)
<1>1. CASE cl.cursor = NoCursor /\ cl.screen = <<>>
  BY <1>1 DEF Shows
<1>2. CASE \E r \in Runs : \E n \in 0..Len(R[r].log) :
             cl.cursor = <<r, n>> /\ cl.screen = textAfter(r, R[r].log)[n]
  <2>0. PICK r \in Runs : \E n \in 0..Len(R[r].log) :
             cl.cursor = <<r, n>> /\ cl.screen = textAfter(r, R[r].log)[n]
    BY <1>2
  <2>1. PICK n \in 0..Len(R[r].log) :
             cl.cursor = <<r, n>> /\ cl.screen = textAfter(r, R[r].log)[n]
    BY <2>0
  <2>2. R[r].log \in Seq(Chunks) /\ R1[r].log \in Seq(Chunks)
    BY DEF Entries
  <2>3. n \in 0..Len(R1[r].log)
    BY <2>2 DEF Grow
  <2>4. textAfter(r, R1[r].log)[n] = textAfter(r, R[r].log)[n]
    BY TextsStay
  <2> QED  BY <2>1, <2>3, <2>4 DEF Shows
<1> QED  BY <1>1, <1>2 DEF Shows

\* The logs stay; a page keeps its cursor and text, or gives up both, and one
\* that is subscribed is left alone.
LEMMA PagesStay ==
    ASSUME Inv, \A r \in Runs : run'[r].log = run[r].log,
           \A c \in Clients :
             \/ client'[c].cursor = client[c].cursor /\ client'[c].screen = client[c].screen
             \/ client'[c].cursor = NoCursor /\ client'[c].screen = <<>>,
           \A r \in Runs : \A c \in run'[r].subscribers :
             c \in run[r].subscribers /\ client'[c] = client[c]
    PROVE  Pages'
<1>1. \A c \in Clients : Shows(run', client'[c])
  BY DEF Inv, Pages, Shows
<1>2. ASSUME NEW r \in Runs, NEW c \in run'[r].subscribers
      PROVE  /\ client'[c].phase = "live" /\ client'[c].screen = textNow(r, run'[r])
             /\ \A q \in Runs : c \in run'[q].subscribers => q = r
  BY DEF Inv, Pages, textNow
<1> QED  BY <1>1, <1>2 DEF Pages

\* What publishEvent makes of the entry e.
published(e, chunks, S) ==
    [e EXCEPT !.log = @ \o chunks, !.events = buffered(@ \o chunks), !.subscribers = S]

\* Positions counted from the end.
LEMMA EndFacts ==
    ASSUME NEW x \in Nat, NEW y \in Nat, x <= y, NEW k \in Nat
    PROVE  /\ \A j \in 1..x : (y + k) - (x + k) + j = y - x + j /\ y - x + j \in 1..y
           /\ \A b \in 0..x : \A i \in 1..b : x - b + i \in 1..x /\ y - x + (x - b + i) = y - b + i
  OBVIOUS

LEMMA PublishedEntry ==
    ASSUME NEW e \in Entries, NEW chunks \in Seq(Chunks), NEW S \in SUBSET Clients, Buffers(e)
    PROVE  LET p == published(e, chunks, S)
           IN  /\ p \in Entries /\ Buffers(p)
               /\ p.log = e.log \o chunks /\ p.subscribers = S
               /\ p.status = e.status /\ p.finalText = e.finalText
<1> DEFINE p == published(e, chunks, S)
           log == e.log \o chunks
           s == e.events \o chunks
           b == buffered(s)
<1>0. e.events \in Seq(Chunks) /\ e.log \in Seq(Chunks)
  BY DEF Entries
<1>1. /\ log \in Seq(Chunks) /\ s \in Seq(Chunks)
      /\ Len(e.events) \in Nat /\ Len(e.log) \in Nat /\ Len(chunks) \in Nat
      /\ Len(s) = Len(e.events) + Len(chunks) /\ Len(log) = Len(e.log) + Len(chunks)
      /\ \A i \in 1..Len(e.events) : s[i] = e.events[i]
      /\ \A i \in 1..Len(e.log) : log[i] = e.log[i]
      /\ \A i \in 1..Len(chunks) : s[Len(e.events) + i] = chunks[i] /\ log[Len(e.log) + i] = chunks[i]
  BY <1>0, CatFacts
<1>2. /\ b \in Seq(Chunks) /\ Len(b) <= MaxBuffered /\ Len(b) <= Len(s) /\ Len(b) \in Nat
      /\ \A i \in 1..Len(b) : b[i] = s[Len(s) - Len(b) + i]
  <2> HIDE DEF s
  <2>1. /\ b \in Seq(Chunks) /\ Len(b) <= MaxBuffered /\ Len(b) <= Len(s)
        /\ \A i \in 1..Len(b) : b[i] = s[Len(s) - Len(b) + i]
    BY <1>1, BufferedFacts
  <2> HIDE DEF b
  <2> QED  BY <2>1
<1>3. /\ Len(e.events) <= Len(e.log)
      /\ Len(e.events) \in Nat /\ Len(e.log) \in Nat /\ Len(chunks) \in Nat /\ Len(b) \in Nat
      /\ Len(s) \in Nat /\ Len(log) \in Nat
      /\ Len(s) = Len(e.events) + Len(chunks) /\ Len(log) = Len(e.log) + Len(chunks)
      /\ Len(b) <= Len(s)
  <2> HIDE DEF s, log, b
  <2> QED  BY <1>1, <1>2 DEF Buffers
<1>4. ASSUME NEW j \in 1..Len(s)
      PROVE  s[j] = log[Len(log) - Len(s) + j]
  <2> HIDE DEF s, log, b
  <2>1. CASE j <= Len(e.events)
    <3>1. j \in 1..Len(e.events) /\ s[j] = e.events[j]
      BY <1>1, <1>3, <2>1
    <3>2. e.events[j] = e.log[Len(e.log) - Len(e.events) + j]
      BY <3>1 DEF Buffers
    <3>3. Len(log) - Len(s) + j = Len(e.log) - Len(e.events) + j
          /\ Len(e.log) - Len(e.events) + j \in 1..Len(e.log)
      <4> DEFINE x == Len(e.events)
                 y == Len(e.log)
                 k == Len(chunks)
      <4>1. x \in Nat /\ y \in Nat /\ x <= y /\ k \in Nat /\ j \in 1..x
        BY <1>3, <3>1
      <4>2. Len(log) = y + k /\ Len(s) = x + k
        BY <1>3
      <4> HIDE DEF x, y, k
      <4>3. (y + k) - (x + k) + j = y - x + j /\ y - x + j \in 1..y
        BY <4>1, EndFacts
      <4> QED  BY <4>2, <4>3 DEF x, y
    <3> QED  BY <1>1, <3>1, <3>2, <3>3
  <2>2. CASE j > Len(e.events)
    <3> DEFINE i == j - Len(e.events)
    <3>1. /\ i \in 1..Len(chunks) /\ j = Len(e.events) + i
          /\ Len(log) - Len(s) + j = Len(e.log) + i
      BY <1>3, <2>2
    <3> HIDE DEF i
    <3> QED  BY <1>1, <3>1
  <2>3. j <= Len(e.events) \/ j > Len(e.events)
    BY <1>3
  <2> QED  BY <2>1, <2>2, <2>3
<1>5. /\ p \in Entries /\ p.log = log /\ p.events = b /\ p.subscribers = S
      /\ p.status = e.status /\ p.finalText = e.finalText
  <2>1. p = [e EXCEPT !.log = log, !.events = b, !.subscribers = S]
    BY DEF published
  <2> HIDE DEF p, s, log, b
  <2> QED  BY <1>1, <1>2, <2>1 DEF Entries
<1> HIDE DEF p, s, log, b
<1>6. ASSUME NEW i \in 1..Len(b)
      PROVE  b[i] = log[Len(log) - Len(b) + i]
  <2> DEFINE j == Len(s) - Len(b) + i
  <2>1. j \in 1..Len(s) /\ Len(log) - Len(s) + j = Len(log) - Len(b) + i
    <3> DEFINE x == Len(s)
               y == Len(log)
               z == Len(b)
    <3>1. x \in Nat /\ y \in Nat /\ x <= y /\ z \in 0..x /\ i \in 1..z /\ 0 \in Nat
      BY <1>3
    <3> HIDE DEF x, y, z
    <3>2. x - z + i \in 1..x /\ y - x + (x - z + i) = y - z + i
      BY <3>1, EndFacts
    <3> QED  BY <3>2 DEF x, y, z
  <2>2. b[i] = s[j]
    BY <1>2
  <2> HIDE DEF j
  <2> QED  BY <1>4, <2>1, <2>2
<1>7. Len(b) <= MaxBuffered /\ Len(b) <= Len(log)
  BY <1>2, <1>3
<1>8. Buffers(p)
  BY <1>5, <1>6, <1>7 DEF Buffers
<1> QED  BY <1>5, <1>8 DEF p, log

\* Chunks are published on the entry e of run r, whose status or text may have
\* changed with them: whoever is subscribed reads them.
LEMMA PublishKeeps ==
    ASSUME Inv, NEW r \in Runs, NEW e \in Entries, NEW chunks \in Seq(Chunks),
           e.log = run[r].log, e.events = run[r].events, e.subscribers = run[r].subscribers,
           e.finalText = textAfter(r, e.log \o chunks)[Len(e.log \o chunks)],
           e.status # "absent", publishEvent(r, e, chunks)
    PROVE  /\ run' \in [Runs -> Entries] /\ client' \in [Clients -> Streams]
           /\ \A q \in Runs : EntryOK(q, run'[q])
           /\ \A q \in Runs : run'[q].status = IF q = r THEN e.status ELSE run[q].status
           /\ Pages'
<1> DEFINE log == run[r].log
           read(c) == sent(c, client[c], r, chunks, Len(log) + 1, 0)
           S == {c \in e.subscribers : client'[c].phase = "live"}
           p == published(e, chunks, S)
<1>1. /\ run \in [Runs -> Entries] /\ client \in [Clients -> Streams] /\ run[r] \in Entries
      /\ log \in Seq(Chunks) /\ Len(log) \in Nat /\ e.subscribers \subseteq Clients
      /\ \A q \in Runs : EntryOK(q, run[q]) /\ run[q].subscribers \subseteq Clients
      /\ Pages
  BY DEF Inv, Types, Entries
<1>2. /\ client' = [c \in Clients |-> IF c \in e.subscribers THEN read(c) ELSE client[c]]
      /\ run' = [run EXCEPT ![r] = p]
  BY DEF publishEvent, published
<1> HIDE DEF log, read, S, p
<1>3. Buffers(e) /\ S \in SUBSET Clients /\ S \subseteq e.subscribers
  BY <1>1 DEF EntryOK, Buffers, S
<1>4. /\ p \in Entries /\ Buffers(p) /\ p.log = log \o chunks /\ p.subscribers = S
      /\ p.status = e.status /\ p.finalText = e.finalText
  <2>1. /\ p \in Entries /\ Buffers(p) /\ p.log = e.log \o chunks /\ p.subscribers = S
        /\ p.status = e.status /\ p.finalText = e.finalText
    BY ONLY <1>3, e \in Entries, chunks \in Seq(Chunks), PublishedEntry DEF p
  <2> QED  BY <2>1 DEF log
<1>5. /\ run' \in [Runs -> Entries] /\ run'[r] = p
      /\ \A q \in Runs : q # r => run'[q] = run[q]
  BY <1>1, <1>2, <1>4
<1>6. /\ Len(chunks) \in Nat /\ Len(p.log) = Len(log) + Len(chunks)
      /\ \A i \in 1..Len(log) : p.log[i] = log[i]
      /\ \A i \in 1..Len(chunks) : p.log[Len(log) + i] = chunks[i]
  BY <1>1, <1>4, CatFacts
<1>7. Grow(run, run')
  BY <1>1, <1>5, <1>6 DEF Grow, log
<1>8. EntryOK(r, p)
  BY <1>4 DEF EntryOK, textNow, log
<1>9. ASSUME NEW c \in e.subscribers
      PROVE  IsAt(run', r, Len(p.log), "live", read(c))
  <2>1. /\ client[c] \in Streams /\ client[c].phase = "live" /\ client[c].screen = textNow(r, run[r])
        /\ Shows(run, client[c]) /\ c \in Clients
    BY <1>1 DEF Pages
  <2>2. Shows(run', client[c])
    BY <1>1, <1>5, <1>7, <2>1, ShowsStays
  <2>3. client[c].screen = textAfter(r, run'[r].log)[Len(log)]
    <3>1. Len(log) \in 0..Len(run[r].log)
      BY <1>1 DEF log
    <3> QED  BY <1>1, <1>5, <1>7, <2>1, <3>1, TextsStay DEF textNow, log
  <2> DEFINE first == Len(log) + 1
             n == Len(log)
  <2>4. /\ first \in Nat \ {0} /\ first - 1 = n /\ n \in Nat /\ 0 <= n /\ n <= Len(run'[r].log)
        /\ n + Len(chunks) = Len(run'[r].log)
    BY <1>1, <1>5, <1>6
  <2>5. \A i \in 1..Len(chunks) : chunks[i] = run'[r].log[first - 1 + i]
    BY <1>5, <1>6, <2>4
  <2>6. client[c].screen = textAfter(r, run'[r].log)[n]
    BY <2>3
  <2> HIDE DEF first, n
  <2>7. Unread(run', r, client[c], chunks, first, 0, n)
    <3>1. /\ first - 1 + Len(chunks) = Len(run'[r].log) /\ n \in {first - 1, 0}
          /\ first - 1 <= n /\ 0 <= n /\ n <= Len(run'[r].log)
      BY <2>4
    <3>2. client[c].phase # "ended"
      BY <2>1
    <3> QED  BY <2>2, <2>5, <2>6, <3>1, <3>2 DEF Unread
  <2>8. IsAt(run', r, Len(run'[r].log), client[c].phase, sent(c, client[c], r, chunks, first, 0))
    BY <1>5, <2>1, <2>4, <2>7, SentShows
  <2> QED  BY <1>5, <2>1, <2>8 DEF read, first
<1>10. ASSUME NEW c \in Clients
       PROVE  /\ client'[c] \in Streams /\ Shows(run', client'[c])
              /\ c \in S => client'[c].screen = textNow(r, run'[r])
              /\ c \notin e.subscribers => client'[c] = client[c]
  <2>1. CASE c \in e.subscribers
    <3>1. client'[c] = read(c)
      BY <1>2, <2>1
    <3>2. c \in S => client'[c].phase = "live"
      BY DEF S
    <3> QED  BY <1>5, <1>9, <2>1, <3>1, <3>2 DEF IsAt, textNow
  <2>2. CASE c \notin e.subscribers
    <3>1. client'[c] = client[c] /\ client[c] \in Streams /\ Shows(run, client[c]) /\ c \notin S
      BY <1>1, <1>2, <1>3, <2>2 DEF Pages
    <3> QED  BY <1>1, <1>5, <1>7, <3>1, ShowsStays
  <2> QED  BY <2>1, <2>2
<1>11. client' \in [Clients -> Streams]
  BY <1>2, <1>10
<1>12. ASSUME NEW q \in Runs, NEW c \in run'[q].subscribers
       PROVE  /\ client'[c].phase = "live" /\ client'[c].screen = textNow(q, run'[q])
              /\ \A u \in Runs : c \in run'[u].subscribers => u = q
  <2>1. /\ c \in Clients /\ c \in run[q].subscribers
        /\ \A u \in Runs : c \in run'[u].subscribers => c \in run[u].subscribers
    BY <1>1, <1>3, <1>4, <1>5
  <2>2. \A u \in Runs : c \in run[u].subscribers => u = q
    BY <1>1, <2>1 DEF Pages
  <2>3. CASE q = r
    BY <1>4, <1>5, <1>10, <2>1, <2>2, <2>3 DEF S
  <2>4. CASE q # r
    <3>1. c \notin e.subscribers
      BY <2>2, <2>4
    <3> QED  BY <1>1, <1>5, <1>10, <2>1, <2>2, <2>4, <3>1 DEF Pages
  <2> QED  BY <2>3, <2>4
<1>13. Pages'
  BY <1>10, <1>12 DEF Pages, textNow
<1>14. \A q \in Runs : /\ EntryOK(q, run'[q])
                       /\ run'[q].status = IF q = r THEN e.status ELSE run[q].status
  BY <1>1, <1>4, <1>5, <1>8
<1> QED  BY <1>5, <1>11, <1>13, <1>14

\* A page attaches to the current run, from its cursor or by a snapshot.
LEMMA AttachKeeps ==
    ASSUME Inv, NEW c \in Clients, current # NoRun, client[c].phase \in {"connecting", "found"}, attach(c)
    PROVE  /\ run' \in [Runs -> Entries] /\ client' \in [Clients -> Streams]
           /\ \A q \in Runs : EntryOK(q, run'[q]) /\ run'[q].status = run[q].status
           /\ Pages'
<1> DEFINE r == current
           cl == client[c]
           e == run[r]
           first == Len(e.log) - Len(e.events) + 1
           needsCursor == cl.cursor # NoCursor \/ first > 1
           after == IF needsCursor THEN cl.cursor[2] ELSE 0
           seen == IF needsCursor /\ ~resumable(cl.cursor, r, first)
                   THEN snapshot(cl, r)
                   ELSE sent(c, cl, r, e.events, first, after)
           next == attached(seen, r)
<1>1. /\ run \in [Runs -> Entries] /\ client \in [Clients -> Streams]
      /\ \A q \in Runs : EntryOK(q, run[q]) /\ run[q].subscribers \subseteq Clients
      /\ Pages /\ r \in Runs /\ e \in Entries /\ e.status # "absent" /\ cl \in Streams
  BY DEF Inv, Types, Entries, Registered
<1>2. /\ client' = [client EXCEPT ![c] = next]
      /\ run' = IF next.phase = "live" THEN [run EXCEPT ![r].subscribers = @ \cup {c}] ELSE run
  BY DEF attach
<1>3. /\ e.log \in Seq(Chunks) /\ e.events \in Seq(Chunks) /\ e.finalText \in Seq(Ids)
      /\ Buffers(e) /\ e.finalText = textNow(r, e) /\ Shows(run, cl)
      /\ Len(e.log) \in Nat /\ Len(e.events) \in Nat /\ Len(e.events) <= Len(e.log)
  <2>1. /\ e.log \in Seq(Chunks) /\ e.events \in Seq(Chunks) /\ e.finalText \in Seq(Ids)
        /\ Len(e.log) \in Nat /\ Len(e.events) \in Nat
    BY <1>1 DEF Entries
  <2>2. EntryOK(r, e) /\ Shows(run, cl)
    BY <1>1 DEF Pages
  <2> HIDE DEF r, e, cl
  <2> QED  BY <2>1, <2>2 DEF EntryOK, Buffers
<1>4. /\ first \in Nat \ {0} /\ first - 1 + Len(e.events) = Len(e.log) /\ first - 1 <= Len(e.log)
      /\ first - 1 \in Nat /\ first - 1 = Len(e.log) - Len(e.events)
  <2> DEFINE x == Len(e.events)
             y == Len(e.log)
  <2>1. x \in Nat /\ y \in Nat /\ x <= y
    BY <1>3
  <2> HIDE DEF x, y
  <2>2. /\ y - x + 1 \in Nat \ {0} /\ (y - x + 1) - 1 + x = y /\ (y - x + 1) - 1 <= y
        /\ (y - x + 1) - 1 \in Nat /\ (y - x + 1) - 1 = y - x
    BY <2>1
  <2> QED  BY <2>2 DEF x, y
<1> HIDE DEF first
<1>5. \A i \in 1..Len(e.events) : e.events[i] = e.log[first - 1 + i]
  BY <1>3, <1>4 DEF Buffers
<1>6. cl.phase # "ended"
  OBVIOUS
<1>7. IsAt(run, r, Len(e.log), cl.phase, seen)
  <2>1. CASE needsCursor /\ ~resumable(cl.cursor, r, first)
    <3> DEFINE q == IF Running(r) THEN cl.phase ELSE "ended"
    <3>1. snapshot(cl, r) = moved(cl, <<r, Len(e.log)>>, e.finalText, q)
      BY DEF snapshot, moved
    <3>2. q \in Phases /\ <<r, Len(e.log)>> \in Ids /\ q \in {cl.phase, "ended"}
      BY <1>1, <1>3, IdFacts DEF Streams, Phases
    <3> DEFINE s == snapshot(cl, r)
    <3>3. s \in Streams /\ s.cursor = <<r, Len(e.log)>> /\ s.screen = e.finalText /\ s.phase = q
      BY <1>1, <1>3, <3>1, <3>2, StreamUpdates
    <3> HIDE DEF s, q
    <3>4. Shows(run, s)
      <4>1. Len(e.log) \in 0..Len(run[r].log)
        BY <1>3
      <4> QED  BY <1>1, <1>3, <3>3, <4>1 DEF Shows, textNow
    <3>5. IsAt(run, r, Len(e.log), cl.phase, s)
      BY <1>3, <3>2, <3>3, <3>4 DEF IsAt, textNow
    <3> QED  BY <2>1, <3>5 DEF s
  <2>2. CASE needsCursor /\ resumable(cl.cursor, r, first)
    <3>1. cl.cursor[1] = r /\ cl.cursor # NoCursor
      BY <1>1, <2>2, IdFacts DEF resumable, NoCursor
    <3>2. PICK q \in Runs : \E n \in 0..Len(run[q].log) :
             cl.cursor = <<q, n>> /\ cl.screen = textAfter(q, run[q].log)[n]
      BY <1>3, <3>1 DEF Shows
    <3>3. PICK n \in 0..Len(e.log) : cl.cursor = <<r, n>> /\ cl.screen = textAfter(r, e.log)[n]
      BY <3>1, <3>2
    <3>4. cl.cursor[2] = n /\ n \in Nat /\ first - 1 <= n /\ n <= n /\ n <= Len(e.log) /\ after = n
      BY <1>3, <1>4, <2>2, <3>3 DEF resumable
    <3> HIDE DEF after, needsCursor
    <3>5. Unread(run, r, cl, e.events, first, n, n)
      BY <1>3, <1>4, <1>5, <1>6, <3>3, <3>4 DEF Unread
    <3>6. IsAt(run, r, Len(run[r].log), cl.phase, sent(c, cl, r, e.events, first, n))
      BY <1>1, <1>3, <1>4, <3>4, <3>5, SentShows
    <3> QED  BY <2>2, <3>4, <3>6
  <2>3. CASE ~needsCursor
    <3>1. cl.cursor = NoCursor /\ first - 1 = 0 /\ after = 0 /\ 0 <= Len(e.log)
      BY <1>3, <1>4, <2>3
    <3>2. cl.screen = <<>>
      <4>1. \A q \in Runs : \A n \in 0..Len(run[q].log) : cl.cursor # <<q, n>>
        <5>1. ASSUME NEW q \in Runs, NEW n \in 0..Len(run[q].log) PROVE cl.cursor # <<q, n>>
          BY <3>1, IdFacts DEF NoCursor
        <5> QED  BY <5>1
      <4> QED  BY <1>3, <4>1 DEF Shows
    <3>3. cl.screen = textAfter(r, e.log)[0]
      BY <1>1, <1>3, <3>2, TextFacts
    <3> HIDE DEF after
    <3>4. Unread(run, r, cl, e.events, first, 0, 0)
      BY <1>3, <1>4, <1>5, <1>6, <3>1, <3>3 DEF Unread
    <3>5. IsAt(run, r, Len(run[r].log), cl.phase, sent(c, cl, r, e.events, first, 0))
      BY <1>1, <1>3, <1>4, <3>1, <3>4, SentShows
    <3> QED  BY <2>3, <3>1, <3>5
  <2> QED  BY <2>1, <2>2, <2>3
<1> HIDE DEF seen
<1>8. /\ next \in Streams /\ Shows(run, next)
      /\ next.phase = "live" => next.screen = textNow(r, e)
  <2>1. seen \in Streams /\ Shows(run, seen) /\ seen.phase \in {"connecting", "found", "ended"}
        /\ (seen.phase # "ended" => seen.screen = textNow(r, e))
    BY <1>7 DEF IsAt, textNow
  <2>2. CASE seen.phase = "ended"
    BY <2>1, <2>2 DEF attached
  <2>3. CASE seen.phase # "ended"
    <3>1. /\ next \in Streams /\ next.cursor = seen.cursor /\ next.screen = seen.screen
      BY <2>1, <2>3 DEF attached, Streams, Phases
    <3> QED  BY <2>1, <2>3, <3>1 DEF Shows
  <2> QED  BY <2>2, <2>3
<1> HIDE DEF next
<1>9. client' \in [Clients -> Streams] /\ client'[c] = next
      /\ \A d \in Clients : d # c => client'[d] = client[d]
  BY <1>1, <1>2, <1>8
<1>10. ASSUME NEW q \in Runs
      PROVE  /\ run'[q] \in Entries /\ run'[q].status = run[q].status /\ run'[q].log = run[q].log
             /\ run'[q].events = run[q].events /\ run'[q].finalText = run[q].finalText
             /\ \A d \in run'[q].subscribers :
                  d \in run[q].subscribers \/ (d = c /\ q = r /\ next.phase = "live")
             /\ q # r => run'[q] = run[q]
  <2>1. CASE q = r /\ next.phase = "live"
    <3>1. run'[q] = [run[q] EXCEPT !.subscribers = @ \cup {c}]
      BY <1>1, <1>2, <2>1
    <3>2. run[q] \in Entries
      BY <1>1
    <3> DEFINE x == run[q]
               z == [x EXCEPT !.subscribers = @ \cup {c}]
    <3>3. /\ z \in Entries /\ z.status = x.status /\ z.log = x.log
          /\ z.events = x.events /\ z.finalText = x.finalText
          /\ z.subscribers = x.subscribers \cup {c}
      <4> HIDE DEF x
      <4>1. x \in Entries
        BY <3>2 DEF x
      <4> QED  BY <4>1 DEF Entries
    <3> HIDE DEF z
    <3> QED  BY <2>1, <3>1, <3>3 DEF z
  <2>2. CASE ~(q = r /\ next.phase = "live")
    BY <1>1, <1>2, <2>2
  <2> QED  BY <2>1, <2>2
<1>11. run' \in [Runs -> Entries]
  BY <1>1, <1>2, <1>10
<1>12. ASSUME NEW q \in Runs
       PROVE  EntryOK(q, run'[q])
  <2>1. CASE q = r
    <3> DEFINE x == run[q]
               z == run'[q]
    <3>1. EntryOK(q, x) /\ x.status # "absent"
      BY <1>1, <2>1
    <3>2. z.status = x.status /\ z.log = x.log /\ z.events = x.events /\ z.finalText = x.finalText
      BY <1>10
    <3> HIDE DEF x, z
    <3>3. EntryOK(q, z)
      BY <3>1, <3>2 DEF EntryOK, Buffers, textNow
    <3> QED  BY <3>3 DEF z
  <2>2. CASE q # r
    BY <1>1, <1>10, <2>2
  <2> QED  BY <2>1, <2>2
<1>13. \A q \in Runs : c \notin run[q].subscribers
  BY <1>1 DEF Pages
<1>14. ASSUME NEW d \in Clients
       PROVE  Shows(run', client'[d])
  <2>1. Shows(run, client'[d])
    BY <1>1, <1>8, <1>9 DEF Pages
  <2> QED  BY <1>10, <2>1 DEF Shows
<1>15. ASSUME NEW q \in Runs, NEW d \in run'[q].subscribers
       PROVE  /\ client'[d].phase = "live" /\ client'[d].screen = textNow(q, run'[q])
              /\ \A u \in Runs : d \in run'[u].subscribers => u = q
  <2>1. CASE d = c
    <3>1. q = r /\ next.phase = "live" /\ \A u \in Runs : c \in run'[u].subscribers => u = r
      BY <1>10, <1>13, <2>1
    <3> QED  BY <1>8, <1>9, <1>10, <2>1, <3>1 DEF textNow
  <2>2. CASE d # c
    <3>1. d \in run[q].subscribers /\ d \in Clients
      BY <1>1, <1>10, <2>2
    <3>2. \A u \in Runs : d \in run'[u].subscribers => d \in run[u].subscribers
      BY <1>10, <2>2
    <3> QED  BY <1>1, <1>9, <1>10, <2>2, <3>1, <3>2 DEF textNow, Pages
  <2> QED  BY <2>1, <2>2
<1>16. Pages'
  BY <1>14, <1>15 DEF Pages, textNow
<1> QED  BY <1>9, <1>10, <1>11, <1>12, <1>16

----------------------------------------------------------------------------
(* The steps.                                                              *)

LEMMA TextGoesOn ==
    ASSUME NEW r \in Runs, NEW log \in Seq(Chunks), NEW chunks \in Seq(Chunks)
    PROVE  LET text == textAfter(r, log \o chunks)
           IN  /\ text[Len(log)] = textAfter(r, log)[Len(log)]
               /\ \A i \in 1..Len(chunks) :
                    text[Len(log) + i] = rendered(text[Len(log) + i - 1], <<r, Len(log) + i>>, chunks[i])
<1> DEFINE more == log \o chunks
           text == textAfter(r, more)
           n == Len(log)
<1>1. /\ more \in Seq(Chunks) /\ n \in Nat /\ Len(chunks) \in Nat /\ Len(more) = n + Len(chunks)
      /\ \A i \in 1..n : more[i] = log[i]
      /\ \A i \in 1..Len(chunks) : more[n + i] = chunks[i]
  BY CatFacts
<1> HIDE DEF more
<1>2. text[n] = textAfter(r, log)[n]
  BY <1>1, TextStays
<1>3. ASSUME NEW i \in 1..Len(chunks)
      PROVE  text[n + i] = rendered(text[n + i - 1], <<r, n + i>>, chunks[i])
  <2> HIDE DEF n
  <2>1. n + i \in 1..Len(more) /\ more[n + i] = chunks[i]
    BY <1>1
  <2>2. \A j \in 1..Len(more) : text[j] = rendered(text[j - 1], <<r, j>>, more[j])
    BY <1>1, TextFacts
  <2>3. text[n + i] = rendered(text[n + i - 1], <<r, n + i>>, more[n + i])
    <3> HIDE DEF text
    <3>1. n \in Nat /\ i \in Nat /\ Len(more) \in Nat
      BY <1>1
    <3> QED  BY <2>1, <2>2, <3>1
  <2> QED  BY <2>1, <2>3
<1> QED  BY <1>2, <1>3 DEF more

\* The entry of the run the registry has.
LEMMA CurrentEntry ==
    ASSUME Inv, current # NoRun
    PROVE  /\ current \in Runs /\ run[current] \in Entries /\ run[current].status # "absent"
           /\ EntryOK(current, run[current]) /\ run[current].log \in Seq(Chunks)
           /\ run[current].finalText \in Seq(Ids)
  BY DEF Inv, Types, Registered, Entries

LEMMA BroadcastKeepsInv ==
    ASSUME Inv, NEW r \in Runs, NEW k \in Chunks, Broadcast(r, k)
    PROVE  Inv'
<1>1. CASE current = r
  <2> DEFINE x == run[r]
             log == x.log
             id == <<r, Len(log) + 1>>
             e == [x EXCEPT !.finalText = accumulated(@, id, k)]
             chunks == <<k>>
  <2>1. publishEvent(r, e, chunks) /\ UNCHANGED <<current, evicting, executing>> /\ collecting' \in BOOLEAN
    BY <1>1 DEF Broadcast, Inv, Types
  <2>2. /\ x \in Entries /\ x.status # "absent" /\ log \in Seq(Chunks) /\ x.finalText \in Seq(Ids)
        /\ x.finalText = textAfter(r, log)[Len(log)] /\ Len(log) \in Nat
    BY <1>1, CurrentEntry, IdFacts DEF EntryOK, textNow
  <2>3. chunks \in Seq(Chunks) /\ Len(chunks) = 1 /\ chunks[1] = k
    OBVIOUS
  <2>4. id \in Ids
    BY <2>2, IdFacts
  <2> HIDE DEF chunks, x, log, id
  <2>5. accumulated(x.finalText, id, k) \in Seq(Ids)
    BY <2>2, <2>4, RenderedType DEF accumulated
  <2>6. /\ e \in Entries /\ e.log = x.log /\ e.events = x.events /\ e.subscribers = x.subscribers
        /\ e.status = x.status /\ e.finalText = accumulated(x.finalText, id, k)
    BY <2>2, <2>5 DEF Entries
  <2> HIDE DEF e
  <2>7. e.finalText = textAfter(r, e.log \o chunks)[Len(e.log \o chunks)]
    <3> DEFINE text == textAfter(r, log \o chunks)
    <3>1. /\ text[Len(log)] = textAfter(r, log)[Len(log)]
          /\ \A i \in 1..Len(chunks) :
               text[Len(log) + i] = rendered(text[Len(log) + i - 1], <<r, Len(log) + i>>, chunks[i])
      BY <2>2, <2>3, TextGoesOn
    <3>2. Len(log \o chunks) = Len(log) + 1 /\ 1 \in 1..Len(chunks) /\ Len(log) + 1 - 1 = Len(log)
      BY <2>2, <2>3, CatFacts
    <3> HIDE DEF text
    <3>3. text[Len(log) + 1] = rendered(text[Len(log)], <<r, Len(log) + 1>>, k)
      BY <2>3, <3>1, <3>2
    <3> QED  BY <2>2, <2>6, <3>1, <3>2, <3>3 DEF text, accumulated, id, log
  <2>8. /\ run' \in [Runs -> Entries] /\ client' \in [Clients -> Streams]
        /\ \A q \in Runs : EntryOK(q, run'[q])
        /\ \A q \in Runs : run'[q].status = IF q = r THEN e.status ELSE run[q].status
        /\ Pages'
    BY <2>1, <2>2, <2>3, <2>6, <2>7, PublishKeeps DEF x
  <2>9. \A q \in Runs : run'[q].status = run[q].status
    BY <2>6, <2>8 DEF x
  <2> QED  BY <2>1, <2>8, <2>9 DEF Inv, Types, Registered
<1>2. CASE current # r
  <2>1. UNCHANGED <<run, client, current, evicting, executing>> /\ collecting' \in BOOLEAN
    BY <1>2 DEF Broadcast, Inv, Types
  <2> QED  BY <2>1 DEF Inv, Types, Registered, Pages
<1> QED  BY <1>1, <1>2

LEMMA TerminateKeepsInv ==
    ASSUME Inv, NEW r \in Runs, Terminate(r)
    PROVE  Inv'
<1> DEFINE x == run[r]
           log == x.log
           e == [x EXCEPT !.status = "finished"]
           chunks == <<"terminal", "terminal">>
<1>1. /\ current = r /\ publishEvent(r, e, chunks)
      /\ evicting' = evicting \cup {r} /\ UNCHANGED <<current, executing, collecting>>
  BY DEF Terminate
<1>2. /\ x \in Entries /\ log \in Seq(Chunks) /\ Len(log) \in Nat
      /\ x.finalText = textAfter(r, log)[Len(log)]
  BY <1>1, CurrentEntry, IdFacts DEF EntryOK, textNow
<1>3. chunks \in Seq(Chunks) /\ Len(chunks) = 2 /\ chunks[1] = "terminal" /\ chunks[2] = "terminal"
  BY DEF Chunks
<1> HIDE DEF chunks, x, log
<1>4. /\ e \in Entries /\ e.log = x.log /\ e.events = x.events /\ e.subscribers = x.subscribers
      /\ e.status = "finished" /\ e.finalText = x.finalText
  BY <1>2 DEF Entries, Statuses
<1> HIDE DEF e
<1>5. e.finalText = textAfter(r, e.log \o chunks)[Len(e.log \o chunks)]
  <2> DEFINE text == textAfter(r, log \o chunks)
             n == Len(log)
  <2>1. /\ text[n] = textAfter(r, log)[n]
        /\ \A i \in 1..Len(chunks) : text[n + i] = rendered(text[n + i - 1], <<r, n + i>>, chunks[i])
    BY <1>2, <1>3, TextGoesOn
  <2>2. /\ Len(log \o chunks) = n + 2 /\ {1, 2} \subseteq 1..Len(chunks)
        /\ n + 1 - 1 = n /\ n + 2 - 1 = n + 1
    <3>1. Len(log \o chunks) = n + Len(chunks)
      BY <1>2, <1>3, CatFacts
    <3> HIDE DEF n
    <3>2. n \in Nat
      BY <1>2 DEF n
    <3> QED  BY <1>3, <3>1, <3>2
  <2> HIDE DEF text, n
  <2>3. text[n + 1] = text[n] /\ text[n + 2] = text[n + 1]
    <3>1. text[n + 1] = rendered(text[n], <<r, n + 1>>, "terminal")
      BY <1>3, <2>1, <2>2
    <3>2. text[n + 2] = rendered(text[n + 1], <<r, n + 2>>, "terminal")
      BY <1>3, <2>1, <2>2
    <3> QED  BY <3>1, <3>2 DEF rendered
  <2> QED  BY <1>2, <1>4, <2>1, <2>2, <2>3 DEF text, n, log
<1>6. /\ run' \in [Runs -> Entries] /\ client' \in [Clients -> Streams]
      /\ \A q \in Runs : EntryOK(q, run'[q])
      /\ \A q \in Runs : run'[q].status = IF q = r THEN e.status ELSE run[q].status
      /\ Pages'
  BY <1>1, <1>3, <1>4, <1>5, PublishKeeps DEF x
<1>7. \A q \in Runs : run'[q].status = IF q = r THEN "finished" ELSE run[q].status
  BY <1>4, <1>6
<1> QED  BY <1>1, <1>6, <1>7 DEF Inv, Types, Registered

LEMMA FreshEntry ==
    ASSUME NEW status \in Statuses, NEW r \in Runs
    PROVE  /\ Fresh(status) \in Entries /\ EntryOK(r, Fresh(status)) /\ Fresh(status).status = status
           /\ Fresh(status).log = <<>> /\ Fresh(status).subscribers = {}
<1>1. <<>> \in Seq(Chunks) /\ <<>> \in Seq(Ids) /\ Len(<<>>) = 0 /\ MaxBuffered \in Nat
  BY RunRegistryAssumption DEF RunRegistryAssumption
<1>2. textAfter(r, <<>>)[0] = <<>>
  BY <1>1, TextFacts
<1> DEFINE e == Fresh(status)
<1>3. /\ e \in Entries /\ e.status = status /\ e.subscribers = {}
      /\ e.log = <<>> /\ e.events = <<>> /\ e.finalText = <<>>
  BY <1>1 DEF Fresh, Entries
<1>4. e.status = "absent" => e = Fresh("absent")
  BY <1>3
<1> HIDE DEF e
<1>5. EntryOK(r, e)
  BY <1>1, <1>2, <1>3, <1>4 DEF EntryOK, Buffers, textNow
<1> QED  BY <1>3, <1>5 DEF e

LEMMA StartRunKeepsInv ==
    ASSUME Inv, NEW r \in Runs, StartRun(r)
    PROVE  Inv'
<1>1. /\ run' = [run EXCEPT ![r] = Fresh("running")] /\ current' = r /\ executing' = r
      /\ collecting' = TRUE /\ evicting' = evicting
      /\ run[r].status = "absent" /\ ~Running(current)
      /\ client' = [c \in Clients |->
                      IF client[c].phase = "waiting" THEN [client[c] EXCEPT !.phase = "found"]
                      ELSE client[c]]
  BY DEF StartRun
<1>2. /\ run \in [Runs -> Entries] /\ client \in [Clients -> Streams] /\ EntryOK(r, run[r]) /\ Pages
      /\ \A q \in Runs : EntryOK(q, run[q]) /\ run[q].subscribers \subseteq Clients
  BY DEF Inv, Types, Entries
<1>3. run[r].log = <<>> /\ "running" \in Statuses /\ "running" # "absent"
  BY <1>1, <1>2, FreshEntry DEF EntryOK, Statuses
<1>4. /\ run' \in [Runs -> Entries] /\ run'[r] = Fresh("running")
      /\ \A q \in Runs : q # r => run'[q] = run[q]
  BY <1>1, <1>2, <1>3, FreshEntry
<1>5. /\ client' \in [Clients -> Streams]
      /\ \A c \in Clients :
           /\ client'[c].cursor = client[c].cursor /\ client'[c].screen = client[c].screen
           /\ client[c].phase = "live" => client'[c] = client[c]
  BY <1>1, <1>2 DEF Streams, Phases
<1>6. Pages'
  <2>1. \A q \in Runs : run'[q].log = run[q].log
    BY <1>3, <1>4, FreshEntry
  <2>2. \A q \in Runs : \A c \in run'[q].subscribers : c \in run[q].subscribers /\ client'[c] = client[c]
    <3>1. ASSUME NEW q \in Runs, NEW c \in run'[q].subscribers
          PROVE  c \in run[q].subscribers /\ client'[c] = client[c]
      <4>1. q # r
        BY <1>3, <1>4, <3>1, FreshEntry
      <4>2. c \in run[q].subscribers /\ c \in Clients
        BY <1>2, <1>4, <4>1
      <4> QED  BY <1>2, <1>5, <4>2 DEF Pages
    <3> QED  BY <3>1
  <2> QED  BY <1>5, <2>1, <2>2, PagesStay
<1>7. \A q \in Runs : EntryOK(q, run'[q])
  BY <1>2, <1>3, <1>4, FreshEntry
<1>8. \A q \in Runs : run'[q].status = IF q = r THEN "running" ELSE run[q].status
  BY <1>3, <1>4, FreshEntry
<1>9. Registered'
  <2>1. \A q \in Runs : q # r => run[q].status # "running"
    BY <1>1, IdFacts DEF Inv, Registered, Running
  <2> QED  BY <1>1, <1>8, <2>1, IdFacts DEF Inv, Types, Registered
<1> QED  BY <1>1, <1>4, <1>5, <1>6, <1>7, <1>9 DEF Inv, Types
\* A finished run stops being watched: its entry keeps everything else.
LEMMA SettleKeepsInv ==
    ASSUME Inv, NEW r \in Runs, Settle(r)
    PROVE  Inv'
<1>1. executing' = NoRun /\ collecting' = FALSE /\ UNCHANGED <<current, client>>
  BY DEF Settle
<1>2. CASE current = r
  <2> DEFINE x == run[r]
             z == [x EXCEPT !.status = "finished", !.subscribers = {}]
  <2>1. run' = [run EXCEPT ![r] = z] /\ evicting' = evicting \cup {r}
    BY <1>2 DEF Settle
  <2>2. run \in [Runs -> Entries] /\ x \in Entries /\ EntryOK(r, x)
    BY <1>2, CurrentEntry, IdFacts DEF Inv, Types
  <2> HIDE DEF x
  <2>3. /\ z \in Entries /\ z.status = "finished" /\ z.subscribers = {}
        /\ z.log = x.log /\ z.events = x.events /\ z.finalText = x.finalText
    BY <2>2 DEF Entries, Statuses
  <2> HIDE DEF z
  <2>4. EntryOK(r, z)
    BY <2>2, <2>3 DEF EntryOK, Buffers, textNow
  <2>5. run' \in [Runs -> Entries] /\ run'[r] = z /\ \A q \in Runs : q # r => run'[q] = run[q]
    BY <2>1, <2>2, <2>3
  <2>6. \A q \in Runs : run'[q].log = run[q].log
    BY <2>3, <2>5 DEF x
  <2>7. \A q \in Runs : \A c \in run'[q].subscribers : c \in run[q].subscribers /\ client'[c] = client[c]
    BY <1>1, <2>3, <2>5
  <2>8. Pages'
    BY <1>1, <2>6, <2>7, PagesStay
  <2>9. \A q \in Runs : EntryOK(q, run'[q])
    BY <2>4, <2>5 DEF Inv
  <2>10. \A q \in Runs : run'[q].status = IF q = r THEN "finished" ELSE run[q].status
    BY <2>3, <2>5
  <2> QED  BY <1>1, <1>2, <2>1, <2>5, <2>8, <2>9, <2>10 DEF Inv, Types, Registered
<1>3. CASE current # r
  <2>1. UNCHANGED <<run, evicting>>
    BY <1>3 DEF Settle
  <2> QED  BY <1>1, <2>1 DEF Inv, Types, Registered, Pages
<1> QED  BY <1>2, <1>3

LEMMA EvictKeepsInv ==
    ASSUME Inv, NEW r \in Runs, Evict(r)
    PROVE  Inv'
<1>1. /\ r \in evicting /\ evicting' = evicting \ {r} /\ UNCHANGED <<run, executing, collecting, client>>
      /\ current' = IF current = r THEN NoRun ELSE current
  BY DEF Evict, evicts
<1>2. Registered'
  <2>1. run[r].status = "finished"
    BY <1>1 DEF Inv, Registered
  <2> QED  BY <1>1, <2>1 DEF Inv, Registered
<1> QED  BY <1>1, <1>2 DEF Inv, Types, Pages

\* A step of a page that leaves the registry alone: the page is not subscribed
\* and keeps its cursor and text, or gives up both.
Moves(c, cl) ==
    /\ client' = [client EXCEPT ![c] = cl]
    /\ cl \in Streams
    /\ \/ cl.cursor = client[c].cursor /\ cl.screen = client[c].screen
       \/ cl.cursor = NoCursor /\ cl.screen = <<>>

LEMMA QuietStepKeepsInv ==
    ASSUME Inv, NEW c \in Clients, NEW cl, Moves(c, cl), client[c].phase # "live",
           UNCHANGED <<run, current, evicting, executing, collecting>>
    PROVE  Inv'
<1>1. \A r \in Runs : c \notin run[r].subscribers
  BY DEF Inv, Pages
<1>2. client' \in [Clients -> Streams] /\ client'[c] = cl /\ \A d \in Clients : d # c => client'[d] = client[d]
  BY DEF Inv, Types, Moves
<1>3. \A r \in Runs : \A d \in run'[r].subscribers : d \in run[r].subscribers /\ client'[d] = client[d]
  BY <1>1, <1>2 DEF Inv, Types, Entries
<1>4. Pages'
  BY <1>2, <1>3, PagesStay DEF Moves
<1> QED  BY <1>2, <1>4 DEF Inv, Types, Registered

LEMMA LeavingKeepsInv ==
    ASSUME Inv, NEW c \in Clients, NEW cl, leaves(c, cl), Moves(c, cl),
           UNCHANGED <<current, evicting, executing, collecting>>
    PROVE  Inv'
<1>1. /\ run \in [Runs -> Entries]
      /\ run' = [r \in Runs |-> [run[r] EXCEPT !.subscribers = @ \ {c}]]
  BY DEF Inv, Types, leaves
<1>2. ASSUME NEW r \in Runs
      PROVE  /\ run'[r] \in Entries /\ run'[r].status = run[r].status /\ run'[r].log = run[r].log
             /\ run'[r].subscribers = run[r].subscribers \ {c}
             /\ EntryOK(r, run'[r])
  <2> DEFINE x == run[r]
             z == [x EXCEPT !.subscribers = @ \ {c}]
  <2>1. run'[r] = z /\ x \in Entries /\ EntryOK(r, x)
    BY <1>1 DEF Inv
  <2> HIDE DEF x
  <2>2. /\ z \in Entries /\ z.status = x.status /\ z.subscribers = x.subscribers \ {c}
        /\ z.log = x.log /\ z.events = x.events /\ z.finalText = x.finalText
    BY <2>1 DEF Entries
  <2>3. x = Fresh("absent") => z = x
    <3>1. {} \ {c} = {}
      OBVIOUS
    <3>2. x.subscribers \ {c} = x.subscribers => z = x
      BY <2>1 DEF Entries
    <3>3. Fresh("absent").subscribers = {}
      BY DEF Fresh
    <3> QED  BY <3>1, <3>2, <3>3
  <2> HIDE DEF z
  <2>4. EntryOK(r, z)
    BY <2>1, <2>2, <2>3 DEF EntryOK, Buffers, textNow
  <2> QED  BY <2>1, <2>2, <2>4 DEF x
<1>3. run' \in [Runs -> Entries]
  BY <1>1, <1>2
<1>4. client' \in [Clients -> Streams] /\ client'[c] = cl /\ \A d \in Clients : d # c => client'[d] = client[d]
  BY DEF Inv, Types, Moves
<1>5. \A r \in Runs : \A d \in run'[r].subscribers : d \in run[r].subscribers /\ client'[d] = client[d]
  BY <1>2, <1>4 DEF Inv, Types, Entries
<1>6. Pages'
  BY <1>2, <1>4, <1>5, PagesStay DEF Moves
<1> QED  BY <1>2, <1>3, <1>4, <1>6 DEF Inv, Types, Registered

LEMMA AttachingKeepsInv ==
    ASSUME Inv, NEW c \in Clients, current # NoRun, client[c].phase \in {"connecting", "found"},
           attach(c), UNCHANGED <<current, evicting, executing, collecting>>
    PROVE  Inv'
<1>1. /\ run' \in [Runs -> Entries] /\ client' \in [Clients -> Streams]
      /\ \A q \in Runs : EntryOK(q, run'[q]) /\ run'[q].status = run[q].status
      /\ Pages'
  BY AttachKeeps
<1> QED  BY <1>1 DEF Inv, Types, Registered

LEMMA OpenKeepsInv ==
    ASSUME Inv, NEW c \in Clients, NEW continuation \in BOOLEAN, Open(c, continuation)
    PROVE  Inv'
<1> DEFINE cl == [phase |-> "connecting", cursor |-> NoCursor, screen |-> <<>>, continuation |-> continuation]
<1>1. client' = [client EXCEPT ![c] = cl] /\ client[c].phase # "live"
      /\ UNCHANGED <<run, current, evicting, executing, collecting>>
  BY DEF Open
<1>2. <<>> \in Seq(Ids)
  OBVIOUS
<1>3. cl \in Streams /\ cl.cursor = NoCursor /\ cl.screen = <<>>
  BY <1>2 DEF Streams, Phases
<1> HIDE DEF cl
<1> QED  BY <1>1, <1>3, QuietStepKeepsInv DEF Moves

\* A page that goes on in phase p.
InPhase(cl, p) == [cl EXCEPT !.phase = p]

LEMMA PhaseFacts ==
    ASSUME NEW cl \in Streams, NEW p \in Phases
    PROVE  InPhase(cl, p) \in Streams /\ InPhase(cl, p).cursor = cl.cursor /\ InPhase(cl, p).screen = cl.screen
  BY DEF InPhase, Streams

LEMMA LeaveKeepsInv ==
    ASSUME Inv, NEW c \in Clients, Leave(c)
    PROVE  Inv'
<1> DEFINE cl == [client[c] EXCEPT !.phase = "off", !.cursor = NoCursor, !.screen = <<>>]
<1>1. leaves(c, cl) /\ client' = [client EXCEPT ![c] = cl] /\ UNCHANGED <<current, evicting, executing, collecting>>
  BY DEF Leave, leaves
<1>2. <<>> \in Seq(Ids) /\ client[c] \in Streams
  BY DEF Inv, Types
<1>3. cl \in Streams /\ cl.cursor = NoCursor /\ cl.screen = <<>>
  BY <1>2 DEF Streams, Phases
<1> HIDE DEF cl
<1> QED  BY <1>1, <1>3, LeavingKeepsInv DEF Moves

\* Drop and Poll.
LEMMA DroppedKeepsInv ==
    ASSUME Inv, NEW c \in Clients, Drop(c) \/ Poll(c)
    PROVE  Inv'
<1> DEFINE cl == InPhase(client[c], "connecting")
<1>1. leaves(c, cl) /\ client' = [client EXCEPT ![c] = cl] /\ UNCHANGED <<current, evicting, executing, collecting>>
  BY DEF Drop, Poll, leaves, InPhase
<1>2. "connecting" \in Phases /\ client[c] \in Streams
  BY DEF Phases, Inv, Types
<1>3. cl \in Streams /\ cl.cursor = client[c].cursor /\ cl.screen = client[c].screen
  BY <1>2, PhaseFacts
<1> HIDE DEF cl
<1> QED  BY <1>1, <1>3, LeavingKeepsInv DEF Moves

\* GetDone, GetWait, WaitTimeout and AttachFound without an entry.
LEMMA PhaseKeepsInv ==
    ASSUME Inv, NEW c \in Clients, NEW p \in Phases, client' = [client EXCEPT ![c] = InPhase(client[c], p)],
           client[c].phase # "live", UNCHANGED <<run, current, evicting, executing, collecting>>
    PROVE  Inv'
<1> DEFINE cl == InPhase(client[c], p)
<1>1. client[c] \in Streams
  BY DEF Inv, Types
<1>2. cl \in Streams /\ cl.cursor = client[c].cursor /\ cl.screen = client[c].screen
  BY <1>1, PhaseFacts
<1> HIDE DEF cl
<1>3. Moves(c, cl)
  BY <1>2 DEF Moves, cl
<1> QED  BY <1>3, QuietStepKeepsInv

LEMMA GetKeepsInv ==
    ASSUME Inv, NEW c \in Clients, Get(c)
    PROVE  Inv'
<1>1. CASE GetAttach(c)
  BY <1>1, AttachingKeepsInv DEF GetAttach, missing
<1>2. CASE GetDone(c)
  <2>1. /\ client' = [client EXCEPT ![c] = InPhase(client[c], "ended")] /\ client[c].phase # "live"
        /\ "ended" \in Phases /\ UNCHANGED <<run, current, evicting, executing, collecting>>
    BY <1>2 DEF GetDone, closedDone, InPhase, Phases
  <2> QED  BY <2>1, PhaseKeepsInv
<1>3. CASE GetWait(c)
  <2> DEFINE p == IF current = NoRun THEN "waiting" ELSE "found"
  <2>1. /\ client' = [client EXCEPT ![c] = InPhase(client[c], p)] /\ client[c].phase # "live"
        /\ UNCHANGED <<run, current, evicting, executing, collecting>>
    BY <1>3 DEF GetWait, InPhase
  <2>2. p \in Phases
    BY DEF Phases
  <2> HIDE DEF p
  <2> QED  BY <2>1, <2>2, PhaseKeepsInv
<1>4. CASE AttachFound(c)
  <2>1. CASE current = NoRun
    <3>1. /\ client' = [client EXCEPT ![c] = InPhase(client[c], "connecting")] /\ client[c].phase # "live"
          /\ "connecting" \in Phases /\ UNCHANGED <<run, current, evicting, executing, collecting>>
      BY <1>4, <2>1 DEF AttachFound, InPhase, Phases
    <3> QED  BY <3>1, PhaseKeepsInv
  <2>2. CASE current # NoRun
    BY <1>4, <2>2, AttachingKeepsInv DEF AttachFound
  <2> QED  BY <2>1, <2>2
<1>5. CASE WaitTimeout(c)
  <2>1. /\ client' = [client EXCEPT ![c] = InPhase(client[c], "ended")] /\ client[c].phase # "live"
        /\ "ended" \in Phases /\ UNCHANGED <<run, current, evicting, executing, collecting>>
    BY <1>5 DEF WaitTimeout, closedDone, InPhase, Phases
  <2> QED  BY <2>1, PhaseKeepsInv
<1>6. CASE Poll(c)
  BY <1>6, DroppedKeepsInv
<1> QED  BY <1>1, <1>2, <1>3, <1>4, <1>5, <1>6 DEF Get

LEMMA InitInv == Init => Inv
<1> SUFFICES ASSUME Init PROVE Inv
  OBVIOUS
<1>1. "absent" \in Statuses /\ <<>> \in Seq(Ids)
  BY DEF Statuses
<1>2. run \in [Runs -> Entries] /\ \A r \in Runs : run[r] = Fresh("absent") /\ EntryOK(r, run[r])
  BY <1>1, FreshEntry DEF Init
<1>3. /\ client \in [Clients -> Streams]
      /\ \A c \in Clients : client[c].cursor = NoCursor /\ client[c].screen = <<>>
  BY <1>1 DEF Init, Streams, Phases
<1>4. \A r \in Runs : run[r].status = "absent" /\ run[r].subscribers = {}
  BY <1>1, <1>2, FreshEntry
<1>5. Pages
  BY <1>3, <1>4 DEF Pages, Shows
<1>6. Registered /\ Types
  BY <1>2, <1>3, <1>4 DEF Init, Registered, Types
<1> QED  BY <1>2, <1>5, <1>6 DEF Inv

LEMMA NextKeepsInv == Inv /\ [Next]_vars => Inv'
<1> SUFFICES ASSUME Inv, [Next]_vars PROVE Inv'
  OBVIOUS
<1>1. CASE RunStep
  BY <1>1, StartRunKeepsInv, BroadcastKeepsInv, SettleKeepsInv, TerminateKeepsInv, EvictKeepsInv DEF RunStep
<1>2. CASE ClientStep
  BY <1>2, OpenKeepsInv, LeaveKeepsInv, DroppedKeepsInv, GetKeepsInv DEF ClientStep
<1>3. CASE UNCHANGED vars
  BY <1>3 DEF Inv, Types, Registered, Pages, vars
<1> QED  BY <1>1, <1>2, <1>3 DEF Next

LEMMA InvHolds == Spec => []Inv
  BY InitInv, NextKeepsInv, PTL DEF Spec

\* The registry, its runs and the pages have their types (TypeOK).
THEOREM RegistryTyped == Spec => []TypeOK
<1>1. Inv => TypeOK
  BY DEF Inv, Types, Entries, Statuses, Streams, EntryOK, Buffers, TypeOK
<1> QED  BY <1>1, InvHolds, PTL

\* Through drops, overflows of the buffer, snapshots, resets and replaced runs
\* a page shows the text its cursor names, and a subscribed one all there is.
THEOREM PagesShowTheirCursor == Spec => []PageShowsItsCursor
<1>1. ASSUME Inv PROVE PageShowsItsCursor
  <2>1. ASSUME NEW c \in Clients
        PROVE  IF client[c].cursor = NoCursor THEN client[c].screen = <<>>
               ELSE client[c].screen = TextUpTo(client[c].cursor[1], client[c].cursor[2])
    <3>1. Shows(run, client[c])
      BY <1>1 DEF Inv, Pages
    <3>2. CASE client[c].cursor = NoCursor /\ client[c].screen = <<>>
      BY <3>2
    <3>3. CASE \E r \in Runs : \E n \in 0..Len(run[r].log) :
                 client[c].cursor = <<r, n>> /\ client[c].screen = textAfter(r, run[r].log)[n]
      <4>1. PICK r \in Runs : \E n \in 0..Len(run[r].log) :
                 client[c].cursor = <<r, n>> /\ client[c].screen = textAfter(r, run[r].log)[n]
        BY <3>3
      <4>2. PICK n \in 0..Len(run[r].log) :
                 client[c].cursor = <<r, n>> /\ client[c].screen = textAfter(r, run[r].log)[n]
        BY <4>1
      <4>3. Len(run[r].log) \in Nat
        BY <1>1 DEF Inv, Types, Entries
      <4>4. n \in Nat /\ <<r, n>> # NoCursor
        BY <4>3, IdFacts
      <4> QED  BY <4>2, <4>4 DEF TextUpTo
    <3> QED  BY <3>1, <3>2, <3>3 DEF Shows
  <2>2. \A r \in Runs : \A c \in run[r].subscribers :
          client[c].phase = "live" /\ client[c].screen = TextUpTo(r, Len(run[r].log))
    BY <1>1 DEF Inv, Pages, textNow, TextUpTo
  <2> QED  BY <2>1, <2>2 DEF PageShowsItsCursor
<1> QED  BY <1>1, InvHolds, PTL

\* No timer evicts a running run, and no two runs run at once.
THEOREM RunsStayRegistered == Spec => []RunningIsRegistered
<1>1. Inv => RunningIsRegistered
  BY DEF Inv, Registered, RunningIsRegistered
<1> QED  BY <1>1, InvHolds, PTL

----------------------------------------------------------------------------
(* Notifications.                                                          *)

\* The timestamps of q rise.
Rising(q) == \A i, j \in 1..Len(q) : i < j => q[i].ts < q[j].ts

\* The timestamps of q are below limit.
Below(q, limit) == \A i \in 1..Len(q) : q[i].ts < limit

\* What cursor and stream of a tab must agree on with the ring: the events on
\* their way rise from the cursor, and include the retained ones that move it.
TabAgrees(tab) ==
    LET coming == streams[tab].events IN
    /\ Rising(coming) /\ Below(coming, stamp)
    /\ \A j \in 1..Len(coming) : coming[j].ts > cursors[tab]
    /\ ~streams[tab].open => coming = <<>>
    /\ \A i \in 1..Len(recent) :
         recent[i].handled /\ streams[tab].open /\ recent[i].ts > cursors[tab] =>
            \E j \in 1..Len(coming) : coming[j] = recent[i]

\* A cursor at v: no later event has its timestamp, and what moves cursors and
\* is not past v was shown.
Reached(v) ==
    /\ v < stamp
    /\ \A i \in 1..Len(recent) : recent[i].handled /\ recent[i].ts <= v => recent[i].ts \in shown

BusInv ==
    /\ BusTypeOK /\ Rising(recent)
    /\ \A t \in Tabs : TabAgrees(t) /\ Reached(cursors[t])
    /\ Reached(lastTs)

LEMMA BusTypes ==
    ASSUME BusTypeOK
    PROVE  /\ now \in Nat /\ now >= 1
           /\ recent \in Seq(Events) /\ Len(recent) \in Nat /\ Len(recent) <= RECENT_LIMIT
           /\ \A t \in Tabs : /\ streams[t].open \in BOOLEAN /\ streams[t].events \in Seq(Events)
                              /\ cursors[t] \in Nat
           /\ lastTs \in Nat
           /\ streams \in [Tabs -> [open : BOOLEAN, events : Seq(Events)]]
           /\ cursors \in [Tabs -> Times] /\ shown \subseteq 1..MaxTime
<1>1. /\ now \in 1..MaxTime + 1 /\ recent \in Seq(Events) /\ Len(recent) <= RECENT_LIMIT
      /\ streams \in [Tabs -> [open : BOOLEAN, events : Seq(Events)]]
      /\ cursors \in [Tabs -> Times] /\ lastTs \in Times /\ shown \subseteq 1..MaxTime
  BY DEF BusTypeOK
<1>2. now \in Nat /\ now >= 1 /\ lastTs \in Nat
  BY <1>1, BusAssumption DEF Times
<1>3. \A t \in Tabs : /\ streams[t].open \in BOOLEAN /\ streams[t].events \in Seq(Events)
                      /\ cursors[t] \in Nat
  BY <1>1, BusAssumption DEF Times
<1> QED  BY <1>1, <1>2, <1>3

LEMMA EventTypes ==
    ASSUME NEW q \in Seq(Events)
    PROVE  /\ Len(q) \in Nat
           /\ \A i \in 1..Len(q) : q[i] \in Events /\ q[i].ts \in Nat /\ q[i].ts \in 1..MaxTime
                                   /\ q[i].handled \in BOOLEAN
<1>1. Len(q) \in Nat /\ \A i \in 1..Len(q) : q[i] \in Events
  OBVIOUS
<1>2. ASSUME NEW e \in Events
      PROVE  e.ts \in Nat /\ e.ts \in 1..MaxTime /\ e.handled \in BOOLEAN
  BY BusAssumption DEF Events
<1> QED  BY <1>1, <1>2

\* The timestamp of the next event is later than the clock's and the ring's.
LEMMA StampFacts ==
    ASSUME BusTypeOK, Rising(recent)
    PROVE  /\ lastPublished \in Nat /\ stamp \in Nat /\ stamp >= now /\ stamp > lastPublished
           /\ stamp >= 1
           /\ \A v \in Nat : v < stamp <=> v < now \/ v <= lastPublished
           /\ Below(recent, stamp)
<1>1. now \in Nat /\ now >= 1 /\ recent \in Seq(Events) /\ Len(recent) \in Nat
  BY BusTypes
<1>2. \A i \in 1..Len(recent) : recent[i].ts \in Nat
  BY <1>1, EventTypes
<1>3. CASE recent = <<>>
  BY <1>1, <1>3 DEF lastPublished, stamp, Below
<1>4. CASE recent # <<>>
  <2>1. Len(recent) \in 1..Len(recent)
    BY <1>1, <1>4
  <2> DEFINE top == recent[Len(recent)].ts
  <2>2. top \in Nat /\ lastPublished = top
    BY <1>2, <1>4, <2>1 DEF lastPublished
  <2>3. \A i \in 1..Len(recent) : recent[i].ts <= top
    BY <1>1, <1>2, <2>1 DEF Rising
  <2> HIDE DEF top
  <2>4. /\ stamp \in Nat /\ stamp >= now /\ stamp > top
        /\ \A v \in Nat : v < stamp <=> v < now \/ v <= top
    BY <1>1, <2>2 DEF stamp
  <2>5. Below(recent, stamp)
    BY <1>2, <2>2, <2>3, <2>4 DEF Below
  <2> QED  BY <1>1, <2>2, <2>4, <2>5
<1> QED  BY <1>3, <1>4

\* A later event at the end, and the first event taken away.
LEMMA RisingAppend ==
    ASSUME NEW q \in Seq(Events), Rising(q), NEW e \in Events, Below(q, e.ts)
    PROVE  LET r == Append(q, e)
           IN  /\ r \in Seq(Events) /\ Len(r) = Len(q) + 1 /\ Rising(r) /\ r[Len(r)] = e
               /\ \A i \in 1..Len(r) : r[i] = e \/ (i \in 1..Len(q) /\ r[i] = q[i])
               /\ \A i \in 1..Len(q) : r[i] = q[i]
<1> DEFINE r == Append(q, e)
<1>1. /\ r \in Seq(Events) /\ Len(q) \in Nat /\ Len(r) = Len(q) + 1
      /\ \A i \in 1..Len(q) : r[i] = q[i]
      /\ r[Len(q) + 1] = e
  OBVIOUS
<1> HIDE DEF r
<1>2. \A i \in 1..Len(r) : (r[i] = e /\ i = Len(q) + 1) \/ (i \in 1..Len(q) /\ r[i] = q[i])
  BY <1>1
<1>3. Rising(r)
  <2> SUFFICES ASSUME NEW i \in 1..Len(r), NEW j \in 1..Len(r), i < j
               PROVE  r[i].ts < r[j].ts
    BY DEF Rising
  <2>1. i \in 1..Len(q) /\ r[i] = q[i]
    BY <1>1
  <2>2. CASE j \in 1..Len(q)
    BY <1>1, <2>1, <2>2 DEF Rising
  <2>3. CASE r[j] = e
    BY <2>1, <2>3 DEF Below
  <2> QED  BY <1>2, <2>2, <2>3
<1> QED  BY <1>1, <1>2, <1>3 DEF r

LEMMA RisingTail ==
    ASSUME NEW q \in Seq(Events), Rising(q), q # <<>>
    PROVE  LET r == Tail(q)
           IN  /\ r \in Seq(Events) /\ Len(r) = Len(q) - 1 /\ Rising(r)
               /\ \A i \in 1..Len(r) : i + 1 \in 1..Len(q) /\ r[i] = q[i + 1] /\ r[i].ts > Head(q).ts
               /\ \A i \in 1..Len(q) : i = 1 \/ (i - 1 \in 1..Len(r) /\ q[i] = r[i - 1])
               /\ Head(q) \in Events /\ Head(q) = q[1] /\ 1 \in 1..Len(q)
<1> DEFINE r == Tail(q)
           n == Len(q)
<1>1. /\ r \in Seq(Events) /\ n \in Nat \ {0} /\ Len(r) = n - 1
      /\ \A i \in 1..n - 1 : r[i] = q[i + 1]
      /\ Head(q) = q[1] /\ Head(q) \in Events
  OBVIOUS
<1>2. \A i, j \in 1..n : i < j => q[i].ts < q[j].ts
  BY DEF Rising
<1> HIDE DEF r, n
<1>3. \A i \in 1..Len(r) : i + 1 \in 1..n /\ r[i] = q[i + 1] /\ 1 < i + 1 /\ 1 \in 1..n
  BY <1>1
<1>4. \A i \in 1..n : i = 1 \/ (i - 1 \in 1..Len(r) /\ (i - 1) + 1 = i)
  BY <1>1
<1>5. \A i \in 1..Len(r) : Head(q).ts < r[i].ts
  BY <1>1, <1>2, <1>3
<1>6. Rising(r)
  <2> SUFFICES ASSUME NEW i \in 1..Len(r), NEW j \in 1..Len(r), i < j
               PROVE  r[i].ts < r[j].ts
    BY DEF Rising
  <2>1. i + 1 < j + 1
    OBVIOUS
  <2> QED  BY <1>2, <1>3, <2>1
<1>7. \A i \in 1..Len(r) : r[i].ts > Head(q).ts
  <2> SUFFICES ASSUME NEW i \in 1..Len(r) PROVE r[i].ts > Head(q).ts
    OBVIOUS
  <2>1. r[i] \in Events /\ Head(q) \in Events
    BY <1>1
  <2>2. r[i].ts \in Nat /\ Head(q).ts \in Nat
    BY <2>1, BusAssumption DEF Events
  <2> QED  BY <1>5, <2>2
<1>8. \A i \in 1..n : i = 1 \/ (i - 1 \in 1..Len(r) /\ q[i] = r[i - 1])
  BY <1>1, <1>3, <1>4
<1>9. 1 \in 1..n
  BY <1>1
<1> QED  BY <1>1, <1>3, <1>6, <1>7, <1>8, <1>9 DEF r, n

\* The ring after a publication: the new event is the last one.
LEMMA TrimmedRing ==
    ASSUME BusTypeOK, Rising(recent), NEW e \in Events, e.ts = stamp
    PROVE  LET r == trimmed(Append(recent, e))
           IN  /\ r \in Seq(Events) /\ Len(r) <= RECENT_LIMIT /\ Rising(r)
               /\ r # <<>> /\ r[Len(r)] = e
               /\ \A i \in 1..Len(r) : r[i] = e \/ \E k \in 1..Len(recent) : r[i] = recent[k]
<1> DEFINE q == Append(recent, e)
           r == trimmed(q)
<1>1. /\ recent \in Seq(Events) /\ Len(recent) \in Nat /\ Len(recent) <= RECENT_LIMIT
      /\ RECENT_LIMIT \in Nat \ {0}
  BY BusTypes, BusAssumption
<1>2. Below(recent, e.ts)
  BY StampFacts
<1>3. /\ q \in Seq(Events) /\ Len(q) = Len(recent) + 1 /\ Rising(q) /\ q[Len(q)] = e
      /\ \A i \in 1..Len(q) : q[i] = e \/ (i \in 1..Len(recent) /\ q[i] = recent[i])
  BY <1>1, <1>2, RisingAppend
<1> HIDE DEF q
<1>4. CASE Len(q) > RECENT_LIMIT
  <2> DEFINE p == Tail(q)
  <2>1. r = p /\ q # <<>>
    BY <1>1, <1>3, <1>4 DEF trimmed
  <2>2. /\ p \in Seq(Events) /\ Len(p) = Len(q) - 1 /\ Rising(p)
        /\ \A i \in 1..Len(p) : i + 1 \in 1..Len(q) /\ p[i] = q[i + 1]
    BY <1>3, <2>1, RisingTail
  <2> HIDE DEF p, r
  <2>3. Len(p) = Len(recent) /\ Len(p) = RECENT_LIMIT /\ Len(p) \in 1..Len(p) /\ Len(p) + 1 = Len(q)
    BY <1>1, <1>3, <1>4, <2>2
  <2>4. p[Len(p)] = e /\ p # <<>>
    BY <1>1, <1>3, <2>2, <2>3
  <2>5. \A i \in 1..Len(p) : p[i] = e \/ \E k \in 1..Len(recent) : p[i] = recent[k]
    BY <1>3, <2>2
  <2> QED  BY <1>1, <2>1, <2>2, <2>3, <2>4, <2>5 DEF r, q
<1>5. CASE ~(Len(q) > RECENT_LIMIT)
  <2>1. r = q
    BY <1>5 DEF trimmed
  <2> HIDE DEF r
  <2>2. q # <<>> /\ Len(q) <= RECENT_LIMIT
    BY <1>1, <1>3, <1>5
  <2> QED  BY <1>3, <2>1, <2>2 DEF r, q
<1> QED  BY <1>4, <1>5

----------------------------------------------------------------------------
(* The steps.                                                              *)

LEMMA BusInitInv == BusInit => BusInv
<1> SUFFICES ASSUME BusInit PROVE BusInv
  OBVIOUS
<1>1. /\ now = 1 /\ recent = <<>> /\ lastTs = 0 /\ shown = {}
      /\ streams = [t \in Tabs |-> Closed]
      /\ cursors = [t \in Tabs |-> 0]
  BY DEF BusInit
<1>2. Closed \in [open : BOOLEAN, events : Seq(Events)] /\ Closed.events = <<>> /\ Closed.open = FALSE
  BY DEF Closed
<1>3. stamp = 1 /\ 0 \in Times /\ now \in 1..MaxTime + 1
  BY <1>1, BusAssumption DEF stamp, lastPublished, Times
<1>4. BusTypeOK
  BY <1>1, <1>2, <1>3, BusAssumption DEF BusTypeOK
<1>5. Rising(recent) /\ Rising(<<>>) /\ Below(<<>>, stamp)
  BY <1>1 DEF Rising, Below
<1>6. ASSUME NEW t \in Tabs PROVE TabAgrees(t) /\ Reached(cursors[t])
  <2>1. streams[t].events = <<>> /\ ~streams[t].open /\ cursors[t] = 0
    BY <1>1, <1>2
  <2> QED  BY <1>1, <1>3, <1>5, <2>1 DEF TabAgrees, Reached
<1>7. Reached(lastTs)
  BY <1>1, <1>3 DEF Reached
<1> QED  BY <1>4, <1>5, <1>6, <1>7 DEF BusInv

\* The invariant, where only the tab t changes, and the ring stays.
OneTab(t) ==
    /\ UNCHANGED <<now, recent>>
    /\ \A u \in Tabs \ {t} : streams'[u] = streams[u] /\ cursors'[u] = cursors[u]
    /\ shown \subseteq shown'

LEMMA OneTabKeeps ==
    ASSUME BusInv, BusTypeOK', NEW t \in Tabs, OneTab(t),
           TabAgrees(t)', Reached(cursors[t])', Reached(lastTs)'
    PROVE  BusInv'
<1>1. stamp' = stamp /\ recent' = recent
  BY DEF OneTab, stamp, lastPublished
<1>2. ASSUME NEW u \in Tabs, u # t
      PROVE  TabAgrees(u)' /\ Reached(cursors[u])'
  <2>1. streams'[u] = streams[u] /\ cursors'[u] = cursors[u] /\ shown \subseteq shown'
    BY <1>2 DEF OneTab
  <2>2. TabAgrees(u) /\ Reached(cursors[u])
    BY DEF BusInv
  <2>3. TabAgrees(u)'
    BY <1>1, <2>1, <2>2 DEF TabAgrees
  <2>4. Reached(cursors[u])'
    BY <1>1, <2>1, <2>2 DEF Reached
  <2> QED  BY <2>3, <2>4
<1>3. Rising(recent')
  BY <1>1 DEF BusInv
<1> QED  BY <1>2, <1>3 DEF BusInv

LEMMA DisconnectKeeps ==
    ASSUME BusInv, NEW t \in Tabs, Disconnect(t) \/ Load(t)
    PROVE  BusInv'
<1>1. /\ streams' = [streams EXCEPT ![t] = Closed] /\ UNCHANGED <<now, recent, lastTs, shown>>
      /\ cursors' \in {cursors, [cursors EXCEPT ![t] = lastTs]}
  BY DEF Disconnect, Load
<1>2. Closed \in [open : BOOLEAN, events : Seq(Events)] /\ Closed.events = <<>> /\ Closed.open = FALSE
  BY DEF Closed
<1>3. BusTypeOK
  BY DEF BusInv
<1>4. BusTypeOK'
  BY <1>1, <1>2, <1>3 DEF BusTypeOK
<1>5. OneTab(t)
  BY <1>1, <1>3, BusTypes DEF OneTab
<1>6. stamp' = stamp /\ recent' = recent /\ shown' = shown
  BY <1>1 DEF stamp, lastPublished
<1>7. Reached(lastTs)' /\ Reached(cursors[t])'
  <2>1. Reached(lastTs) /\ Reached(cursors[t])
    BY DEF BusInv
  <2>2. lastTs' = lastTs /\ cursors'[t] \in {lastTs, cursors[t]}
    BY <1>1, <1>3, BusTypes
  <2> QED  BY <1>6, <2>1, <2>2 DEF Reached
<1>8. TabAgrees(t)'
  <2>1. streams'[t].events = <<>> /\ ~streams'[t].open
    BY <1>1, <1>2, <1>3, BusTypes
  <2> QED  BY <2>1 DEF TabAgrees, Rising, Below
<1> QED  BY <1>4, <1>5, <1>7, <1>8, OneTabKeeps

LEMMA ConnectKeeps ==
    ASSUME BusInv, NEW t \in Tabs, Connect(t)
    PROVE  BusInv'
<1> DEFINE past == {e \in Events : e.ts > cursors[t]}
           u == kept(recent, past)
           s == [open |-> TRUE, events |-> u]
<1>1. streams' = [streams EXCEPT ![t] = s] /\ UNCHANGED <<now, recent, cursors, lastTs, shown>>
  BY DEF Connect
<1>2. /\ BusTypeOK /\ Rising(recent) /\ recent \in Seq(Events) /\ Len(recent) \in Nat
      /\ Reached(lastTs) /\ Reached(cursors[t])
  BY BusTypes DEF BusInv
<1>3. u \in Seq(Events) /\ Range(u) = Range(recent) \cap past /\ InOrder(u, recent, Len(recent))
  BY <1>2, KeptRange, KeptOrder
<1> HIDE DEF u
<1>4. s \in [open : BOOLEAN, events : Seq(Events)] /\ s.events = u /\ s.open = TRUE
  BY <1>3
<1> HIDE DEF s
<1>5. BusTypeOK'
  BY <1>1, <1>2, <1>4 DEF BusTypeOK
<1>6. OneTab(t)
  BY <1>1, <1>2, BusTypes DEF OneTab
<1>7. /\ stamp' = stamp /\ recent' = recent /\ shown' = shown /\ cursors' = cursors /\ lastTs' = lastTs
      /\ streams'[t] = s
  BY <1>1, <1>2, BusTypes DEF stamp, lastPublished
<1>8. Reached(lastTs)' /\ Reached(cursors[t])'
  BY <1>2, <1>7 DEF Reached
<1>9. Rising(u)
  <2> SUFFICES ASSUME NEW i \in 1..Len(u), NEW j \in 1..Len(u), i < j
               PROVE  u[i].ts < u[j].ts
    BY DEF Rising
  <2>1. PICK k \in 1..Len(recent) :
          \E l \in 1..Len(recent) : k < l /\ u[i] = recent[k] /\ u[j] = recent[l]
    BY <1>3 DEF InOrder
  <2> QED  BY <1>2, <2>1 DEF Rising
<1>10. \A j \in 1..Len(u) : u[j] \in Range(recent) \cap past
  <2>1. DOMAIN u = 1..Len(u)
    BY <1>3
  <2> QED  BY <1>3, <2>1 DEF Range
<1>11. Below(u, stamp) /\ \A j \in 1..Len(u) : u[j].ts > cursors[t]
  <2>1. Below(recent, stamp) /\ DOMAIN recent = 1..Len(recent)
    BY <1>2, StampFacts
  <2>2. \A e \in Range(recent) : e.ts < stamp
    BY <2>1 DEF Below, Range
  <2> QED  BY <1>10, <2>2 DEF Below
<1>12. ASSUME NEW i \in 1..Len(recent), recent[i].ts > cursors[t]
       PROVE  \E j \in 1..Len(u) : u[j] = recent[i]
  <2>1. recent[i] \in Range(recent) \cap past
    <3>1. recent[i] \in Events /\ i \in DOMAIN recent
      BY <1>2
    <3> QED  BY <1>12, <3>1 DEF Range
  <2>2. DOMAIN u = 1..Len(u)
    BY <1>3
  <2> QED  BY <1>3, <2>1, <2>2 DEF Range
<1>13. TabAgrees(t)'
  BY <1>4, <1>7, <1>9, <1>11, <1>12 DEF TabAgrees
<1> QED  BY <1>5, <1>6, <1>8, <1>13, OneTabKeeps

LEMMA ReceiveKeeps ==
    ASSUME BusInv, NEW t \in Tabs, Receive(t)
    PROVE  BusInv'
<1> DEFINE q == streams[t].events
           e == Head(q)
           r == Tail(q)
           s == [streams[t] EXCEPT !.events = Tail(@)]
<1>1. /\ BusTypeOK /\ Rising(recent) /\ TabAgrees(t) /\ Reached(lastTs) /\ Reached(cursors[t])
      /\ streams[t] \in [open : BOOLEAN, events : Seq(Events)]
      /\ q \in Seq(Events) /\ cursors[t] \in Nat /\ Rising(q) /\ q # <<>>
  BY BusTypes DEF BusInv, Receive, TabAgrees
<1>2. /\ r \in Seq(Events) /\ Len(r) = Len(q) - 1 /\ Rising(r)
      /\ \A i \in 1..Len(r) : i + 1 \in 1..Len(q) /\ r[i] = q[i + 1] /\ r[i].ts > e.ts
      /\ \A i \in 1..Len(q) : i = 1 \/ (i - 1 \in 1..Len(r) /\ q[i] = r[i - 1])
      /\ e \in Events /\ e = q[1] /\ 1 \in 1..Len(q)
  BY <1>1, RisingTail
<1>3. e.ts \in Nat /\ e.ts \in 1..MaxTime /\ e.ts > cursors[t] /\ e.ts < stamp /\ streams[t].open
  BY <1>1, <1>2, BusAssumption DEF TabAgrees, Below, Events
<1>4. s \in [open : BOOLEAN, events : Seq(Events)] /\ s.events = r /\ s.open = streams[t].open
  BY <1>1, <1>2
<1>5. streams' = [streams EXCEPT ![t] = s] /\ UNCHANGED <<now, recent>>
  BY DEF Receive
<1>6. \/ /\ e.handled /\ cursors' = [cursors EXCEPT ![t] = e.ts]
         /\ lastTs' = e.ts /\ shown' = shown \cup {e.ts}
      \/ ~e.handled /\ UNCHANGED <<cursors, lastTs, shown>>
  BY <1>3 DEF Receive
<1>7. \A i \in 1..Len(recent) : recent[i] \in Events /\ recent[i].ts \in Nat
  BY <1>1, BusTypes, EventTypes
<1> HIDE DEF q, e, r, s
<1>8. BusTypeOK'
  <2>1. streams' \in [Tabs -> [open : BOOLEAN, events : Seq(Events)]]
    BY <1>1, <1>4, <1>5, BusTypes
  <2>2. cursors' \in [Tabs -> Times] /\ lastTs' \in Times /\ shown' \subseteq 1..MaxTime
    <3>1. /\ cursors \in [Tabs -> Times] /\ lastTs \in Times /\ shown \subseteq 1..MaxTime
          /\ e.ts \in Times
      BY <1>1, <1>3, BusTypes DEF BusTypeOK, Times
    <3> QED  BY <1>3, <1>6, <3>1
  <2> QED  BY <1>1, <1>5, <2>1, <2>2 DEF BusTypeOK
<1>9. OneTab(t)
  BY <1>1, <1>5, <1>6, BusTypes DEF OneTab
<1>10. stamp' = stamp /\ recent' = recent /\ streams'[t] = s /\ shown \subseteq shown'
  BY <1>1, <1>5, <1>6, BusTypes DEF stamp, lastPublished
\* A retained event past the cursor that moves cursors is on its way, and
\* so not before the head.
<1>11. ASSUME NEW i \in 1..Len(recent), recent[i].handled, recent[i].ts > cursors[t]
       PROVE  recent[i] = e \/ (recent[i].ts > e.ts /\ \E j \in 1..Len(r) : r[j] = recent[i])
  <2>1. PICK j \in 1..Len(q) : q[j] = recent[i]
    BY <1>1, <1>3, <1>11 DEF TabAgrees, q
  <2> QED  BY <1>2, <2>1
<1>12. CASE e.handled
  <2>1. cursors'[t] = e.ts /\ lastTs' = e.ts /\ shown' = shown \cup {e.ts}
    BY <1>1, <1>6, <1>12, BusTypes
  <2>2. \A i \in 1..Len(recent) : recent[i].handled /\ recent[i].ts <= e.ts => recent[i].ts \in shown'
    BY <1>1, <1>3, <1>7, <1>11, <2>1 DEF Reached
  <2>3. Reached(lastTs)' /\ Reached(cursors[t])'
    BY <1>3, <1>10, <2>1, <2>2 DEF Reached
  <2>4. TabAgrees(t)'
    <3>1. Below(r, stamp)
      BY <1>1, <1>2 DEF TabAgrees, Below, q
    <3>2. \A i \in 1..Len(recent) :
             recent[i].handled /\ recent[i].ts > e.ts => \E j \in 1..Len(r) : r[j] = recent[i]
      BY <1>1, <1>3, <1>7, <1>11
    <3> QED  BY <1>2, <1>3, <1>4, <1>10, <2>1, <3>1, <3>2 DEF TabAgrees
  <2> QED  BY <1>8, <1>9, <2>3, <2>4, OneTabKeeps
<1>13. CASE ~e.handled
  <2>1. cursors' = cursors /\ lastTs' = lastTs /\ shown' = shown
    BY <1>6, <1>13
  <2>2. Reached(lastTs)' /\ Reached(cursors[t])'
    BY <1>1, <1>10, <2>1 DEF Reached
  <2>3. TabAgrees(t)'
    <3>1. Below(r, stamp) /\ \A j \in 1..Len(r) : r[j].ts > cursors[t]
      BY <1>1, <1>2 DEF TabAgrees, Below, q
    <3>2. \A i \in 1..Len(recent) :
             recent[i].handled /\ recent[i].ts > cursors[t] => \E j \in 1..Len(r) : r[j] = recent[i]
      BY <1>11, <1>13
    <3> QED  BY <1>2, <1>3, <1>4, <1>10, <2>1, <3>1, <3>2 DEF TabAgrees
  <2> QED  BY <1>8, <1>9, <2>2, <2>3, OneTabKeeps
<1> QED  BY <1>12, <1>13

LEMMA EventKeeps ==
    ASSUME BusInv, NEW handled \in BOOLEAN, Publish(handled)
    PROVE  BusInv'
<1> DEFINE e == [ts |-> stamp, handled |-> handled]
           ring == trimmed(Append(recent, e))
           next(t) == IF streams[t].open
                      THEN [streams[t] EXCEPT !.events = Append(@, e)] ELSE Closed
<1>1. /\ BusTypeOK /\ Rising(recent) /\ stamp \in Nat /\ stamp >= now /\ stamp >= 1 /\ stamp <= MaxTime
      /\ Below(recent, stamp)
  BY StampFacts DEF BusInv, Publish
<1>2. e \in Events /\ e.ts = stamp
  BY <1>1, BusAssumption DEF Events
<1>3. /\ ring \in Seq(Events) /\ Len(ring) <= RECENT_LIMIT /\ Rising(ring)
      /\ ring # <<>> /\ ring[Len(ring)] = e
      /\ \A i \in 1..Len(ring) : ring[i] = e \/ \E k \in 1..Len(recent) : ring[i] = recent[k]
  BY <1>1, <1>2, TrimmedRing
<1>4. recent' = ring /\ UNCHANGED <<now, cursors, lastTs, shown>> /\ streams' = [t \in Tabs |-> next(t)]
  BY DEF Publish
<1> HIDE DEF e, ring
<1>5. ASSUME NEW t \in Tabs
      PROVE  /\ next(t) \in [open : BOOLEAN, events : Seq(Events)] /\ next(t).open = streams[t].open
             /\ ~streams[t].open => next(t).events = <<>>
             /\ streams[t].open => next(t).events = Append(streams[t].events, e)
  <2>1. streams[t] \in [open : BOOLEAN, events : Seq(Events)]
    BY <1>1, BusTypes
  <2>2. Append(streams[t].events, e) \in Seq(Events)
    BY <1>2, <2>1
  <2>3. CASE streams[t].open
    <3> DEFINE x == [streams[t] EXCEPT !.events = Append(@, e)]
    <3>1. next(t) = x
      BY <2>3
    <3>2. /\ x \in [open : BOOLEAN, events : Seq(Events)]
          /\ x.open = streams[t].open /\ x.events = Append(streams[t].events, e)
      BY <2>1, <2>2
    <3> HIDE DEF x, next
    <3> QED  BY <2>3, <3>1, <3>2
  <2>4. CASE ~streams[t].open
    <3>1. next(t) = Closed
      BY <2>4
    <3>2. Closed \in [open : BOOLEAN, events : Seq(Events)] /\ Closed.events = <<>> /\ Closed.open = FALSE
      BY DEF Closed
    <3> HIDE DEF next
    <3> QED  BY <2>1, <2>4, <3>1, <3>2
  <2> QED  BY <2>3, <2>4
<1> HIDE DEF next
<1>6. BusTypeOK'
  BY <1>1, <1>3, <1>4, <1>5 DEF BusTypeOK
<1>7. /\ stamp' > stamp /\ Below(recent', stamp') /\ Rising(recent')
      /\ \A v \in Nat : v <= stamp => v < stamp'
  <2>1. Rising(recent')
    BY <1>3, <1>4
  <2>2. lastPublished' = stamp
    BY <1>2, <1>3, <1>4 DEF lastPublished
  <2>3. now' \in Nat
    BY <1>1, <1>4, BusTypes
  <2>4. stamp' \in Nat /\ stamp' > stamp
    BY <1>1, <2>2, <2>3 DEF stamp
  <2>5. \A i \in 1..Len(ring) : ring[i].ts < stamp'
    <3>1. \A i \in 1..Len(ring) : ring[i].ts = stamp \/ \E k \in 1..Len(recent) : ring[i].ts = recent[k].ts
      BY <1>2, <1>3
    <3>2. \A k \in 1..Len(recent) : recent[k].ts \in Nat /\ recent[k].ts < stamp
      BY <1>1, BusTypes, EventTypes DEF Below
    <3> QED  BY <1>1, <2>4, <3>1, <3>2
  <2>6. Below(recent', stamp')
    BY <1>4, <2>5 DEF Below
  <2> QED  BY <1>1, <2>1, <2>4, <2>6
<1>8. ASSUME NEW v \in Nat, Reached(v)
      PROVE  Reached(v)'
  <2>1. v < stamp /\ v < stamp'
    BY <1>1, <1>7, <1>8 DEF Reached
  <2>2. \A k \in 1..Len(recent) : recent[k].handled /\ recent[k].ts <= v => recent[k].ts \in shown
    BY <1>8 DEF Reached
  <2>3. \A i \in 1..Len(ring) : ring[i].handled /\ ring[i].ts <= v => ring[i].ts \in shown
    BY <1>1, <1>2, <1>3, <2>1, <2>2
  <2> QED  BY <1>4, <2>1, <2>3 DEF Reached
<1>9. ASSUME NEW t \in Tabs
      PROVE  TabAgrees(t)'
  <2> DEFINE q == streams[t].events
             r == streams'[t].events
  <2>1. /\ q \in Seq(Events) /\ Rising(q) /\ Below(q, stamp) /\ cursors[t] \in Nat
        /\ \A j \in 1..Len(q) : q[j].ts > cursors[t]
        /\ ~streams[t].open => q = <<>>
        /\ \A i \in 1..Len(recent) :
             recent[i].handled /\ streams[t].open /\ recent[i].ts > cursors[t] =>
                \E j \in 1..Len(q) : q[j] = recent[i]
        /\ cursors[t] < stamp
    BY <1>1, BusTypes DEF BusInv, TabAgrees, Reached
  <2>2. /\ streams'[t].open = streams[t].open /\ cursors'[t] = cursors[t]
        /\ r = IF streams[t].open THEN Append(q, e) ELSE <<>>
    BY <1>4, <1>5
  <2> HIDE DEF q, r
  <2>3. CASE streams[t].open
    <3>1. r = Append(q, e)
      BY <2>2, <2>3
    <3>2. /\ r \in Seq(Events) /\ Rising(r)
          /\ Len(r) = Len(q) + 1 /\ r[Len(r)] = e
          /\ \A i \in 1..Len(r) : r[i] = e \/ (i \in 1..Len(q) /\ r[i] = q[i])
          /\ \A i \in 1..Len(q) : r[i] = q[i]
      BY <1>2, <2>1, <3>1, RisingAppend
    <3>3. Len(q) \in Nat /\ 1..Len(q) \subseteq 1..Len(r) /\ Len(r) \in 1..Len(r)
      BY <2>1, <3>2
    <3>4. \A i \in 1..Len(r) : r[i].ts <= stamp /\ r[i].ts > cursors[t] /\ r[i].ts \in Nat
      <4>1. \A i \in 1..Len(q) : q[i].ts < stamp /\ q[i].ts > cursors[t] /\ q[i].ts \in Nat
        BY <2>1, EventTypes DEF Below
      <4> QED  BY <1>1, <1>2, <2>1, <3>2, <4>1
    <3>5. Below(r, stamp')
      BY <1>7, <3>4 DEF Below
    <3>6. ASSUME NEW i \in 1..Len(ring), ring[i].handled, ring[i].ts > cursors[t]
          PROVE  \E j \in 1..Len(r) : r[j] = ring[i]
      <4>1. CASE ring[i] = e
        BY <3>2, <3>3, <4>1
      <4>2. ASSUME NEW k \in 1..Len(recent), ring[i] = recent[k]
            PROVE  \E j \in 1..Len(r) : r[j] = ring[i]
        <5>1. PICK j \in 1..Len(q) : q[j] = recent[k]
          BY <2>1, <2>3, <3>6, <4>2
        <5> QED  BY <3>2, <3>3, <4>2, <5>1
      <4> QED  BY <1>3, <4>1, <4>2
    <3> QED  BY <1>4, <2>2, <2>3, <3>2, <3>4, <3>5, <3>6 DEF TabAgrees, r
  <2>4. CASE ~streams[t].open
    BY <2>2, <2>4 DEF TabAgrees, Rising, Below, r
  <2> QED  BY <2>3, <2>4, <1>1, BusTypes
<1>10. \A t \in Tabs : Reached(cursors[t])'
  BY <1>1, <1>4, <1>8, BusTypes DEF BusInv
<1>11. Reached(lastTs)'
  BY <1>1, <1>4, <1>8, BusTypes DEF BusInv
<1> QED  BY <1>6, <1>7, <1>9, <1>10, <1>11 DEF BusInv

\* The clock goes on, by itself or with a restart.
LEMMA ClockKeeps ==
    ASSUME BusInv, ClockTicks \/ BusRestarts
    PROVE  BusInv'
<1>1. /\ BusTypeOK /\ Rising(recent) /\ now \in Nat /\ lastPublished \in Nat /\ stamp \in Nat
      /\ \A v \in Nat : v < stamp <=> v < now \/ v <= lastPublished
  BY BusTypes, StampFacts DEF BusInv
<1>2. CASE ClockTicks
  <2>1. now' = now + 1 /\ now <= MaxTime /\ UNCHANGED <<recent, streams, cursors, lastTs, shown>>
    BY <1>2 DEF ClockTicks
  <2>2. BusTypeOK'
    BY <1>1, <2>1, BusAssumption DEF BusTypeOK
  <2>3. stamp' >= stamp /\ stamp' \in Nat
    BY <1>1, <2>1 DEF stamp, lastPublished
  <2>4. ASSUME NEW v \in Nat, Reached(v) PROVE Reached(v)'
    BY <1>1, <2>1, <2>3, <2>4 DEF Reached
  <2>5. ASSUME NEW t \in Tabs PROVE TabAgrees(t)'
    <3>1. TabAgrees(t) /\ streams[t].events \in Seq(Events)
      BY <1>1, BusTypes DEF BusInv
    <3>2. \A i \in 1..Len(streams[t].events) : streams[t].events[i].ts \in Nat
      BY <3>1, EventTypes
    <3>3. Below(streams[t].events, stamp')
      BY <1>1, <2>3, <3>1, <3>2 DEF TabAgrees, Below
    <3> QED  BY <2>1, <3>1, <3>3 DEF TabAgrees
  <2> QED  BY <1>1, <2>1, <2>2, <2>4, <2>5, BusTypes DEF BusInv
<1>3. CASE BusRestarts
  <2>1. /\ recent' = <<>> /\ streams' = [t \in Tabs |-> Closed] /\ UNCHANGED <<cursors, lastTs, shown>>
        /\ now' = stamp /\ lastPublished <= MaxTime
    BY <1>3 DEF BusRestarts, stamp
  <2>2. Closed \in [open : BOOLEAN, events : Seq(Events)] /\ Closed.events = <<>> /\ Closed.open = FALSE
    BY DEF Closed
  <2>3. now' \in 1..MaxTime + 1 /\ <<>> \in Seq(Events) /\ Len(<<>>) <= RECENT_LIMIT
    BY <1>1, <2>1, BusAssumption DEF stamp, BusTypeOK
  <2>4. BusTypeOK'
    BY <1>1, <2>1, <2>2, <2>3 DEF BusTypeOK
  <2>5. stamp' = stamp
    <3>1. lastPublished' = 0 /\ stamp >= 1
      BY <1>1, <2>1, StampFacts DEF lastPublished
    <3> QED  BY <1>1, <2>1, <3>1 DEF stamp
  <2>6. Rising(recent')
    BY <2>1 DEF Rising
  <2>7. ASSUME NEW v, Reached(v) PROVE Reached(v)'
    BY <2>1, <2>5, <2>7 DEF Reached
  <2>8. ASSUME NEW t \in Tabs PROVE TabAgrees(t)'
    <3>1. streams'[t].events = <<>> /\ ~streams'[t].open
      BY <2>1, <2>2
    <3> QED  BY <3>1 DEF TabAgrees, Rising, Below
  <2> QED  BY <2>1, <2>4, <2>6, <2>7, <2>8 DEF BusInv
<1> QED  BY <1>2, <1>3

LEMMA BusNextInv == BusInv /\ [BusNext]_busVars => BusInv'
<1> SUFFICES ASSUME BusInv, [BusNext]_busVars PROVE BusInv'
  OBVIOUS
<1>1. CASE UNCHANGED busVars
  BY <1>1 DEF busVars, BusInv, BusTypeOK, Rising, TabAgrees, Below, Reached, stamp, lastPublished
<1>2. CASE BusNext
  BY <1>2, EventKeeps, ConnectKeeps, ReceiveKeeps, DisconnectKeeps, ClockKeeps DEF BusNext
<1> QED  BY <1>1, <1>2

\* The invariant says what a tab misses and what it sees twice: nothing.
LEMMA BusInvImplies == BusInv => BusTypeOK /\ ReplayIsExact
<1> SUFFICES ASSUME BusInv PROVE ReplayIsExact
  BY DEF BusInv
<1> SUFFICES ASSUME NEW t \in Tabs
             PROVE  LET coming == streams[t].events IN
                    /\ \A i \in 1..Len(recent) : recent[i].handled =>
                         /\ recent[i].ts <= cursors[t] => recent[i].ts \in shown
                         /\ streams[t].open /\ recent[i].ts > cursors[t] =>
                              \E j \in 1..Len(coming) : coming[j] = recent[i]
                    /\ \A j \in 1..Len(coming) :
                         /\ coming[j].ts > cursors[t]
                         /\ j > 1 => coming[j].ts > coming[j - 1].ts
  BY DEF ReplayIsExact
<1> DEFINE q == streams[t].events
<1>1. TabAgrees(t) /\ Reached(cursors[t]) /\ q \in Seq(Events) /\ Rising(q)
  BY BusTypes DEF BusInv, TabAgrees
<1>2. ASSUME NEW j \in 1..Len(q), j > 1 PROVE q[j].ts > q[j - 1].ts
  <2>1. j - 1 \in 1..Len(q) /\ j - 1 < j /\ j \in Nat
    BY <1>1, <1>2
  <2>2. q[j - 1].ts < q[j].ts
    BY <1>1, <2>1 DEF Rising
  <2>3. q[j].ts \in Nat /\ q[j - 1].ts \in Nat
    BY <1>1, <2>1, EventTypes
  <2> QED  BY <2>2, <2>3
<1> QED  BY <1>1, <1>2 DEF TabAgrees, Reached

\* The bus, the streams and the cursors have their types in every state.
THEOREM BusIsTyped == BusSpec => []BusTypeOK
  BY BusInitInv, BusNextInv, BusInvImplies, PTL DEF BusSpec

\* No tab misses a retained event that moves cursors, and none is shown one
\* twice.
THEOREM BusReplaysExactly == BusSpec => []ReplayIsExact
  BY BusInitInv, BusNextInv, BusInvImplies, PTL DEF BusSpec

====
