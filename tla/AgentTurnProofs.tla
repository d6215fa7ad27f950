---- MODULE AgentTurnProofs ----
(***************************************************************************)
(* Theorems about AgentTurn for every number of callers, of steering       *)
(* messages and every depth of the queue.                                  *)
(*                                                                         *)
(* The queue under a turn is RunQueue with one thread, so its invariant is *)
(* cited from RunQueueProofs; the turn only needs what a step of the queue *)
(* does to the owner and to the calls' status (Entered, Left).             *)
(***************************************************************************)
EXTENDS AgentTurn, TLAPS

QP == INSTANCE RunQueueProofs WITH Threads <- {Thread}

----------------------------------------------------------------------------
(* The queue.                                                              *)

\* A call entered the queue: it waits for the owner, or owns the thread.
Entered(j) ==
    /\ status[j] \in Queue!Free
    /\ \A k \in Jobs : k # j => status'[k] = status[k]
    /\ \/ /\ active[Thread] # NoJob
          /\ active' = active
          /\ status'[j] = "queued"
       \/ /\ active[Thread] = NoJob
          /\ active'[Thread] = j
          /\ status'[j] = "picked"

\* The owner's call settled with outcome o; a waiting call may own the thread.
Left(o) ==
    /\ active[Thread] \in Jobs
    /\ status'[active[Thread]] = o
    /\ \/ /\ active'[Thread] = NoJob
          /\ \A k \in Jobs : k # active[Thread] => status'[k] = status[k]
       \/ \E n \in Jobs :
            /\ status[n] = "queued"
            /\ active'[Thread] = n
            /\ status'[n] = "picked"
            /\ \A k \in Jobs : k \notin {n, active[Thread]} => status'[k] = status[k]

\* Only the calls of an expiring slot have a deadline.
DeadlinesExpire == \A j \in Jobs : deadline[j] # "none" => j \in Expiring

QueueInv == QP!Inv /\ DeadlinesExpire

LEMMA QueueAssumption == AgentTurnAssumption => QP!RunQueueAssumption
  BY DEF AgentTurnAssumption, QP!RunQueueAssumption

LEMMA SameEnqueue ==
    ASSUME NEW j, NEW l
    PROVE  Queue!Enqueue(Thread, j, l) <=> QP!Enqueue(Thread, j, l)
  BY DEF Queue!Enqueue, QP!Enqueue, Queue!drain, QP!drain, Queue!drains, QP!drains,
         Queue!pushed, QP!pushed, Queue!entryLanes, QP!entryLanes,
         Queue!entryActive, QP!entryActive, Queue!depth, QP!depth, Queue!ahead, QP!ahead,
         Queue!Empty, QP!Empty, Queue!Lanes, QP!Lanes, Queue!Free, QP!Free,
         Queue!mayShift, QP!mayShift, Queue!shifted, QP!shifted

LEMMA SameFinish ==
    ASSUME NEW o
    PROVE  Queue!finish(Thread, o) <=> QP!finish(Thread, o)
  BY DEF Queue!finish, QP!finish, Queue!drain, QP!drain, Queue!Empty, QP!Empty,
         Queue!Lanes, QP!Lanes, Queue!mayShift, QP!mayShift, Queue!shifted, QP!shifted,
         Queue!Waiters, QP!Waiters, Queue!InLane, QP!InLane, Queue!Range, QP!Range,
         Queue!stillRegistered, QP!stillRegistered

\* What the invariant of the queue says of one thread.
LEMMA QueueFacts ==
    ASSUME QP!Inv, AgentTurnAssumption
    PROVE  /\ active \in [{Thread} -> Jobs \cup {NoJob}]
           /\ status \in [Jobs -> {"queued", "picked", "running", "idle", "expired"}]
           /\ deadline \in [Jobs -> {"none", "ahead", "passed"}]
           /\ \A j \in Jobs : status[j] \in {"picked", "running"} <=> active[Thread] = j
  BY DEF QP!Inv, QP!TypeOK, QP!Statuses, QP!Free, QP!Deadlines, QP!EveryCallHasOnePlace

LEMMA QueueTypes == QP!TypeOK => Queue!TypeOK
  BY DEF QP!TypeOK, Queue!TypeOK, QP!Statuses, Queue!Statuses, QP!Free, Queue!Free,
         QP!Deadlines, Queue!Deadlines, QP!Lanes, Queue!Lanes

LEMMA LanesRequested ==
    /\ Queue!lane("user", "default") \in QP!RequestedLanes
    /\ Queue!RequestedLanes = QP!RequestedLanes
    /\ QP!RequestedLanes \subseteq QP!Lanes
  BY DEF Queue!lane, QP!lane, Queue!RequestedLanes, QP!RequestedLanes, Queue!Lanes, QP!Lanes,
         Queue!sourceLanes, QP!sourceLanes

LEMMA EnqueueEnters ==
    ASSUME AgentTurnAssumption, QueueInv, NEW j \in Jobs, NEW l \in QP!RequestedLanes,
           Queue!Enqueue(Thread, j, l)
    PROVE  QueueInv' /\ Entered(j)
<1>1. l \in QP!Lanes /\ QP!Enqueue(Thread, j, l) /\ QP!RunQueueAssumption
  BY SameEnqueue, LanesRequested, QueueAssumption
<1>2. QP!Inv'
  BY <1>1, QP!EnqueueKeepsInv DEF QueueInv
<1>3. /\ active \in [{Thread} -> Jobs \cup {NoJob}]
      /\ status \in [Jobs -> {"queued", "picked", "running", "idle", "expired"}]
      /\ deadline \in [Jobs -> {"none", "ahead", "passed"}]
  BY QueueFacts DEF QueueInv
<1>4. DeadlinesExpire'
  BY <1>1, <1>3 DEF QP!Enqueue, QueueInv, DeadlinesExpire
<1>5. /\ active[Thread] = NoJob => waiting[Thread] = QP!Empty
      /\ QP!entryLanes(Thread) = waiting[Thread]
      /\ QP!entryActive(Thread) = active[Thread]
  BY <1>1, QP!RefinementFacts DEF QueueInv
<1>6. status[j] \in Queue!Free
  BY <1>1 DEF QP!Enqueue, QP!Free, Queue!Free
<1>7. ASSUME active[Thread] # NoJob
      PROVE  Entered(j)
  <2>1. active' = active /\ status' = [status EXCEPT ![j] = "queued"]
    BY <1>1, <1>5, <1>7 DEF QP!Enqueue, QP!drains
  <2> QED  BY <1>3, <1>6, <1>7, <2>1 DEF Entered
<1>8. ASSUME active[Thread] = NoJob
      PROVE  Entered(j)
  <2> DEFINE w == QP!pushed(QP!Empty, l, j)
  <2>1. QP!drain(Thread, w, [status EXCEPT ![j] = "queued"])
    BY <1>1, <1>5, <1>8 DEF QP!Enqueue, QP!drains
  <2>2. \A m \in QP!Lanes : w[m] = IF m = l THEN <<j>> ELSE <<>>
    BY <1>1 DEF QP!pushed, QP!Empty
  <2>3. w # QP!Empty
    BY <1>1, <2>2 DEF QP!Empty
  <2>4. ASSUME NEW m \in QP!Lanes, QP!mayShift(w, m)
        PROVE  Head(w[m]) = j
    BY <2>2, <2>4 DEF QP!mayShift
  <2> HIDE DEF w
  <2>5. active'[Thread] = j /\ status' = [[status EXCEPT ![j] = "queued"] EXCEPT ![j] = "picked"]
    BY <1>3, <2>1, <2>3, <2>4 DEF QP!drain
  <2> QED  BY <1>3, <1>6, <1>8, <2>5 DEF Entered
<1> QED  BY <1>2, <1>4, <1>7, <1>8 DEF QueueInv

LEMMA FinishLeaves ==
    ASSUME AgentTurnAssumption, QueueInv, active[Thread] # NoJob,
           NEW o \in Queue!Free, Queue!finish(Thread, o)
    PROVE  QueueInv' /\ Left(o)
<1> DEFINE a == active[Thread]
           st == [status EXCEPT ![a] = o]
<1>1. o \in QP!Free /\ QP!finish(Thread, o) /\ QP!RunQueueAssumption /\ QP!Inv
  BY SameFinish, QueueAssumption DEF Queue!Free, QP!Free, QueueInv
<1>2. QP!Inv'
  BY <1>1, QP!FinishKeepsInv
<1>3. /\ active \in [{Thread} -> Jobs \cup {NoJob}]
      /\ status \in [Jobs -> {"queued", "picked", "running", "idle", "expired"}]
      /\ deadline \in [Jobs -> {"none", "ahead", "passed"}]
      /\ \A j \in Jobs : status[j] \in {"picked", "running"} <=> active[Thread] = j
      /\ a \in Jobs
  BY QueueFacts DEF QueueInv
<1>4. DeadlinesExpire'
  BY <1>1, <1>3 DEF QP!finish, QueueInv, DeadlinesExpire
<1>5. QP!drain(Thread, waiting[Thread], st)
  BY <1>1 DEF QP!finish, QP!stillRegistered, QP!Inv, QP!NeverStalled
<1>6. ASSUME NEW m \in QP!Lanes, QP!mayShift(waiting[Thread], m)
      PROVE  Head(waiting[Thread][m]) \in Jobs /\ status[Head(waiting[Thread][m])] = "queued"
  <2>1. waiting \in QP!LaneSeqs /\ QP!OnePlace(waiting, active, status)
    BY <1>1, QP!RefinementFacts
  <2>2. waiting[Thread][m] \in Seq(Jobs) /\ waiting[Thread][m] # <<>>
    BY <2>1, <1>6 DEF QP!mayShift, QP!LaneSeqs
  <2>3. /\ QP!At(waiting[Thread][m], 1, Head(waiting[Thread][m]))
        /\ Head(waiting[Thread][m]) \in Jobs
    BY <2>2, QP!AtTail
  <2> QED  BY <2>1, <2>3 DEF QP!OnePlace
<1> HIDE DEF a
<1>7. ASSUME NEW n \in Jobs, status[n] = "queued",
             active' = [active EXCEPT ![Thread] = n], status' = [st EXCEPT ![n] = "picked"]
      PROVE  Left(o)
  <2>1. n # a
    BY <1>3, <1>7 DEF a
  <2> QED  BY <1>3, <1>7, <2>1 DEF Left, a
<1>8. ASSUME active' = [active EXCEPT ![Thread] = NoJob], status' = st
      PROVE  Left(o)
  BY <1>3, <1>8 DEF Left, a
<1> HIDE DEF st
<1>9. Left(o)
  BY <1>5, <1>6, <1>7, <1>8 DEF QP!drain
<1> QED  BY <1>2, <1>4, <1>9 DEF QueueInv

LEMMA StartCalls ==
    ASSUME AgentTurnAssumption, QueueInv, Queue!Start(Thread)
    PROVE  /\ QueueInv'
           /\ active[Thread] \in Jobs /\ active' = active
           /\ status[active[Thread]] = "picked"
           /\ status' = [status EXCEPT ![active[Thread]] = "running"]
<1>1. QP!Start(Thread)
  BY DEF Queue!Start, QP!Start
<1>2. QP!Inv'
  BY <1>1, QueueAssumption, QP!NextKeepsInv DEF QP!Next, QueueInv
<1> QED  BY <1>1, <1>2, QueueFacts DEF QP!Start, QueueInv, DeadlinesExpire

LEMMA DeadlinePasses ==
    ASSUME AgentTurnAssumption, QueueInv, NEW j \in Jobs, Queue!PassDeadline(j)
    PROVE  QueueInv' /\ active' = active /\ status' = status
<1>1. QP!PassDeadline(j)
  BY DEF Queue!PassDeadline, QP!PassDeadline
<1>2. QP!Inv'
  BY <1>1, QueueAssumption, QP!NextKeepsInv DEF QP!Next, QueueInv
<1> QED  BY <1>1, <1>2, QueueFacts DEF QP!PassDeadline, QueueInv, DeadlinesExpire

LEMMA QueueStays == AgentTurnAssumption /\ QueueInv /\ UNCHANGED queueVars => QueueInv'
<1> SUFFICES ASSUME AgentTurnAssumption, QueueInv, UNCHANGED queueVars
             PROVE  QueueInv'
  OBVIOUS
<1>1. QP!Inv'
  BY QueueAssumption, QP!NextKeepsInv DEF queueVars, QueueInv, QP!vars
<1> QED  BY <1>1 DEF queueVars, QueueInv, DeadlinesExpire

LEMMA QueueStarts == AgentTurnAssumption /\ Queue!Init => QueueInv
<1>1. Queue!Init => QP!Init
  BY DEF Queue!Init, QP!Init, Queue!Empty, QP!Empty, Queue!Lanes, QP!Lanes
<1> QED  BY <1>1, QueueAssumption, QP!InitInv DEF QueueInv, DeadlinesExpire, Queue!Init

LEMMA QueueRestarts ==
    ASSUME AgentTurnAssumption, Crash
    PROVE  QueueInv'
<1>1. QP!Init'
  BY DEF Crash, QP!Init, Queue!Empty, QP!Empty, Queue!Lanes, QP!Lanes
<1>2. QP!RunQueueAssumption'
  BY QueueAssumption DEF QP!RunQueueAssumption
<1>3. QP!Inv'
  BY <1>1, <1>2, QP!InitInv, PTL
<1> QED  BY <1>3 DEF QueueInv, DeadlinesExpire, Crash

----------------------------------------------------------------------------
(* The inductive invariant.                                                *)

TurnTypes ==
    /\ up \in BOOLEAN
    /\ kind \in [Jobs -> Kinds]
    /\ phase \in [Jobs -> Phases]
    /\ admission \in [Jobs -> Admissions]
    /\ userRow \in [Jobs -> RowStates]
    /\ draft \in [Jobs -> RowStates]
    /\ cargo \in [Jobs -> SUBSET Messages]
    /\ run \in Runs
    /\ fate \in [Messages -> Fates]
    /\ mishap \in [Jobs -> SUBSET Mishaps]

\* Where the runner of a call is, what the queue makes of the call and what
\* its POST handler has answered agree.
Calls ==
    \A j \in Jobs :
        /\ phase[j] # "none" <=> status[j] = "running"
        /\ kind[j] # "none" <=> status[j] \notin Queue!Free
        /\ admission[j] # "none" => kind[j] = "http"
        /\ admission[j] = "pending" => phase[j] \in {"none", "admission"}
        /\ phase[j] = "admission" => kind[j] = "http"
        /\ kind[j] \in {"http", "continuation"} => j \notin Expiring

\* An entry that runs, or holds steering after a watchdog ended it, is the
\* one of the call that owns the thread, and that call still drives it; or it
\* was abandoned, and no call drives any entry.
Registered ==
    run.state = "running" \/ run.steering # <<>> =>
        \/ /\ run.of = NoJob
           /\ \A j \in Jobs : phase[j] \notin {"preparing", "streaming"}
        \/ /\ run.of \in Jobs
           /\ active[Thread] = run.of
           /\ phase[run.of] \in {"preparing", "streaming"}

\* Which calls may have an open row: an admitted http call that has not been
\* executed, for drafts also a call that is preparing or streaming, and a call
\* whose row could not be settled.
Admitted(j) ==
    kind[j] = "http" /\ admission[j] = "persisted" /\ phase[j] \in {"none", "admission"}

Rows ==
    up => \A j \in Jobs :
        /\ userRow[j] = "in_progress" =>
            Admitted(j) \/ mishap[j] \cap {"start", "activation"} # {}
        /\ draft[j] = "in_progress" =>
            \/ Admitted(j)
            \/ phase[j] \in {"preparing", "streaming"}
            \/ mishap[j] \cap {"start", "settling"} # {}

\* fate tells where a steering message is; no place holds a message twice.
Places ==
    /\ \A m \in Messages :
        /\ fate[m] = "queued" <=> m \in Range(run.steering)
        /\ fate[m] = "carried" <=> \E j \in Jobs : m \in cargo[j]
    /\ IsInjective(run.steering)
    /\ \A j, k \in Jobs : cargo[k] \cap cargo[j] # {} => k = j

\* Only a continuation carries steering, and only until its prompt is built.
Carriers ==
    \A j \in Jobs : cargo[j] # {} =>
        kind[j] = "continuation" /\ phase[j] \in {"none", "preparing"}

Inv == QueueInv /\ TurnTypes /\ Calls /\ Registered /\ Rows /\ Places /\ Carriers

LEMMA InvFacts ==
    ASSUME AgentTurnAssumption, Inv
    PROVE  /\ active \in [{Thread} -> Jobs \cup {NoJob}]
           /\ status \in [Jobs -> {"queued", "picked", "running", "idle", "expired"}]
           /\ \A j \in Jobs : status[j] \in {"picked", "running"} <=> active[Thread] = j
           /\ NoJob \notin Jobs
           /\ run.of \in Jobs \cup {NoJob} /\ run.state \in {"none", "running", "done", "error"}
           /\ run.aborted \in BOOLEAN /\ run.steering \in Seq(Messages)
           /\ NoRun \in Runs
           /\ \A j \in Jobs : NewRun(j) \in Runs
  BY QueueFacts DEF Inv, QueueInv, AgentTurnAssumption, TurnTypes, Runs, NoRun, NewRun

\* An entry that runs, or holds steering, while the owner of the thread is
\* neither preparing nor streaming was abandoned.
LEMMA OnlyTheOwnerRuns ==
    ASSUME AgentTurnAssumption, Inv, active[Thread] \in Jobs,
           phase[active[Thread]] \notin {"preparing", "streaming"},
           run.state = "running" \/ run.steering # <<>>
    PROVE  run.of = NoJob /\ \A j \in Jobs : phase[j] \notin {"preparing", "streaming"}
  BY DEF Inv, Registered

LEMMA EmptyRange == Range(<<>>) = {} /\ IsInjective(<<>>)
  BY DEF Range, IsInjective

LEMMA RangeType ==
    ASSUME NEW s \in Seq(Messages)
    PROVE  Range(s) \subseteq Messages
<1>1. DOMAIN s = 1..Len(s) /\ \A i \in 1..Len(s) : s[i] \in Messages
  OBVIOUS
<1> QED  BY <1>1 DEF Range

LEMMA AppendKeeps ==
    ASSUME NEW s \in Seq(Messages), NEW m \in Messages, m \notin Range(s), IsInjective(s)
    PROVE  Range(Append(s, m)) = Range(s) \cup {m} /\ IsInjective(Append(s, m))
<1> DEFINE a == Append(s, m)
<1>1. /\ DOMAIN s = 1..Len(s) /\ Len(s) \in Nat
      /\ DOMAIN a = 1..Len(s) + 1
      /\ \A i \in 1..Len(s) : a[i] = s[i]
      /\ a[Len(s) + 1] = m
  OBVIOUS
<1> HIDE DEF a
<1>2. \A i \in DOMAIN a : i \in DOMAIN s \/ i = Len(s) + 1
  BY <1>1
<1>3. DOMAIN s \subseteq DOMAIN a /\ Len(s) + 1 \in DOMAIN a
  BY <1>1
<1>4. Range(a) = Range(s) \cup {m}
  BY <1>1, <1>2, <1>3 DEF Range
<1>5. \A i \in DOMAIN s : s[i] # m
  BY DEF Range
<1>6. IsInjective(a)
  BY <1>1, <1>2, <1>5 DEF IsInjective
<1> QED  BY <1>4, <1>6 DEF a

\* The ways an action updates the entry.
LEMMA RunUpdates ==
    ASSUME Inv, NEW q \in Seq(Messages), NEW s \in {"running", "done", "error"}
    PROVE  /\ [run EXCEPT !.steering = q] \in Runs
           /\ [run EXCEPT !.steering = q].steering = q
           /\ [run EXCEPT !.steering = q].state = run.state
           /\ [run EXCEPT !.steering = q].of = run.of
           /\ [run EXCEPT !.state = s, !.steering = q] \in Runs
           /\ [run EXCEPT !.state = s, !.steering = q].steering = q
           /\ [run EXCEPT !.state = s, !.steering = q].state = s
           /\ [run EXCEPT !.aborted = TRUE] \in Runs
           /\ [run EXCEPT !.aborted = TRUE].steering = run.steering
           /\ [run EXCEPT !.aborted = TRUE].of = run.of
           /\ [run EXCEPT !.aborted = TRUE, !.state = s] \in Runs
           /\ [run EXCEPT !.aborted = TRUE, !.state = s].steering = run.steering
           /\ [run EXCEPT !.aborted = TRUE, !.state = s].of = run.of
<1>1. run \in Runs
  BY DEF Inv, TurnTypes
<1> QED  BY <1>1 DEF Runs

LEMMA NoSteering == <<>> \in Seq(Messages)
  OBVIOUS

\* finishRun of the runner that drives the entry.
LEMMA RunFinished ==
    ASSUME Inv, NEW j, run.of = j, NEW s \in {"done", "error"}
    PROVE  /\ finishRun(j, s) \in Runs
           /\ finishRun(j, s).steering = <<>>
           /\ finishRun(j, s).state = s
<1>1. finishRun(j, s) = [run EXCEPT !.state = s, !.steering = <<>>]
  BY DEF finishRun
<1>2. s \in {"running", "done", "error"}
  OBVIOUS
<1>3. /\ [run EXCEPT !.state = s, !.steering = <<>>] \in Runs
      /\ [run EXCEPT !.state = s, !.steering = <<>>].steering = <<>>
      /\ [run EXCEPT !.state = s, !.steering = <<>>].state = s
  <2>1. run \in Runs
    BY DEF Inv, TurnTypes
  <2> QED  BY <1>2, <2>1, NoSteering DEF Runs
<1> QED  BY <1>1, <1>3

LEMMA StartInv ==
    ASSUME AgentTurnAssumption, Init
    PROVE  Inv
<1>1. QueueInv
  BY QueueStarts DEF Init
<1>2. \A j \in Jobs : status[j] = "idle"
  BY DEF Init, Queue!Init
<1> QED  BY <1>1, <1>2, EmptyRange
         DEF Init, Inv, TurnTypes, Kinds, Phases, Admissions, RowStates, Fates, Runs, NoRun,
             Calls, Queue!Free, Registered, Rows, Places, Carriers

----------------------------------------------------------------------------
(* The steps of the queue.                                                 *)

\* A call opened in slot j; the rest of the turn's state stays.
LEMMA SubmitKeepsInv ==
    ASSUME AgentTurnAssumption, Inv, NEW j \in Jobs, NEW k \in {"http", "agent"},
           k = "http" => j \notin Expiring,
           QueueInv', Entered(j), opens(j, k, {}),
           userRow' = freshRows(userRow, j), draft' = freshRows(draft, j),
           UNCHANGED <<up, phase, run, fate>>
    PROVE  Inv'
<1>1. /\ status[j] \in Queue!Free /\ phase[j] = "none"
      /\ status'[j] \in {"queued", "picked"}
      /\ \A i \in Jobs : i # j => status'[i] = status[i]
      /\ cargo[j] = {} /\ kind[j] = "none"
  BY DEF Entered, Inv, Calls, Carriers, Queue!Free
<1>2. cargo' = cargo
  BY <1>1 DEF opens, Inv, TurnTypes
<1>3. TurnTypes'
  BY <1>2 DEF Inv, TurnTypes, opens, freshRows, Kinds, Admissions, RowStates
<1>4. Calls'
  BY <1>1 DEF Inv, Calls, opens, TurnTypes, Queue!Free
<1>5. Registered'
  BY <1>1, InvFacts DEF Inv, Registered, Entered
<1>6. Rows'
  BY <1>1 DEF Inv, Rows, Admitted, opens, freshRows, TurnTypes
<1>7. Places' /\ Carriers'
  BY <1>1, <1>2 DEF Inv, Places, Carriers, opens, TurnTypes
<1> QED  BY <1>3, <1>4, <1>5, <1>6, <1>7 DEF Inv

\* What is given up leaves its place: the steering of the entry, or the cargo
\* of a continuation.
LEMMA GivenUp ==
    ASSUME Inv, NEW j \in Jobs, run'.steering = <<>> \/ run' = run,
           \/ /\ run'.steering = <<>> /\ cargo' = cargo
              /\ fate' = lose(Range(run.steering))
           \/ /\ run' = run /\ cargo' = [cargo EXCEPT ![j] = {}]
              /\ fate' = lose(cargo[j])
           \/ /\ run'.steering = <<>> /\ cargo' = [cargo EXCEPT ![j] = {}]
              /\ fate' = lose(Range(run.steering) \cup cargo[j])
    PROVE  Places' /\ fate' \in [Messages -> Fates]
<1>1. fate' \in [Messages -> Fates]
  BY DEF Inv, TurnTypes, Fates, lose
<1>2. ASSUME NEW m \in Messages
      PROVE  /\ fate'[m] = "queued" <=> m \in Range(run'.steering)
             /\ fate'[m] = "carried" <=> \E i \in Jobs : m \in cargo'[i]
  <2>1. /\ fate[m] = "queued" <=> m \in Range(run.steering)
        /\ fate[m] = "carried" <=> \E i \in Jobs : m \in cargo[i]
        /\ m \in cargo[j] => \A i \in Jobs : m \in cargo[i] => i = j
    BY DEF Inv, Places
  <2>2. cargo' = [cargo EXCEPT ![j] = {}] /\ m \notin cargo[j] =>
          ((\E i \in Jobs : m \in cargo[i]) <=> \E i \in Jobs : m \in cargo'[i])
    BY DEF Inv, TurnTypes
  <2>3. cargo' = [cargo EXCEPT ![j] = {}] /\ m \in cargo[j] => ~\E i \in Jobs : m \in cargo'[i]
    BY <2>1 DEF Inv, TurnTypes
  <2> QED  BY <2>1, <2>2, <2>3, EmptyRange DEF lose
<1>3. IsInjective(run'.steering)
  BY EmptyRange DEF Inv, Places
<1>4. \A i, k \in Jobs : cargo'[k] \cap cargo'[i] # {} => k = i
  BY DEF Inv, TurnTypes, Places
<1> QED  BY <1>1, <1>2, <1>3, <1>4 DEF Places

\* startRun in the slot of the owner, whose runner has not registered a run:
\* an abandoned entry makes it throw, any other one is replaced.
LEMMA StartRunKeeps ==
    ASSUME AgentTurnAssumption, Inv, NEW j \in Jobs, active[Thread] = j, active' = active,
           phase[j] \in {"none", "admission"}, startRun(j),
           phase[j] = "none" => kind[j] # "http",
           phase[j] = "admission" => admission[j] = "persisted",
           kind[j] # "none",
           up, UNCHANGED <<up, kind, admission, draft>>
    PROVE  /\ phase' \in {[phase EXCEPT ![j] = "preparing"], [phase EXCEPT ![j] = "over"]}
           /\ TurnTypes' /\ Registered' /\ Rows' /\ Places' /\ Carriers'
<1>1. CASE startRunThrows(j)
  <2>1. /\ run.state = "running" /\ run' = run /\ userRow' = userRow
        /\ phase' = [phase EXCEPT ![j] = "over"]
        /\ mishap' = [mishap EXCEPT ![j] = @ \cup {"start"}]
        /\ fate' = lose(cargo[j])
        /\ cargo' = [cargo EXCEPT ![j] = {}]
    BY <1>1 DEF startRunThrows, noted
  <2>2. Places' /\ fate' \in [Messages -> Fates]
    BY <2>1, GivenUp
  <2>3. TurnTypes'
    BY <2>1, <2>2 DEF Inv, TurnTypes, Phases, Mishaps
  <2>4. Registered'
    BY <2>1, OnlyTheOwnerRuns DEF Inv, TurnTypes, Registered
  <2>5. Rows'
    BY <2>1 DEF Inv, Rows, Admitted, TurnTypes
  <2>6. Carriers'
    BY <2>1 DEF Inv, Carriers, TurnTypes
  <2> QED  BY <2>1, <2>2, <2>3, <2>4, <2>5, <2>6
<1>2. CASE registers(j)
  <2>1. /\ run' = NewRun(j)
        /\ phase' = [phase EXCEPT ![j] = "preparing"]
        /\ userRow' = IF kind[j] = "http" THEN [userRow EXCEPT ![j] = "completed"] ELSE userRow
        /\ fate' = lose(Range(run.steering)) /\ cargo' = cargo /\ mishap' = mishap
    BY <1>2 DEF registers
  <2>2. NewRun(j).of = j /\ NewRun(j).steering = <<>> /\ NewRun(j) \in Runs
    BY InvFacts DEF NewRun
  <2>3. Places' /\ fate' \in [Messages -> Fates]
    BY <2>1, <2>2, GivenUp
  <2>4. TurnTypes'
    BY <2>1, <2>2, <2>3 DEF Inv, TurnTypes, Phases, RowStates
  <2>5. Registered'
    BY <2>1, <2>2 DEF Inv, TurnTypes, Registered
  <2>6. Rows'
    BY <2>1 DEF Inv, Rows, Admitted, TurnTypes
  <2>7. Carriers'
    BY <2>1 DEF Inv, Carriers, TurnTypes
  <2> QED  BY <2>1, <2>3, <2>4, <2>5, <2>6, <2>7
<1> QED  BY <1>1, <1>2 DEF startRun

LEMMA CallRunnerKeepsInv ==
    ASSUME AgentTurnAssumption, Inv, CallRunner
    PROVE  Inv'
<1> DEFINE j == active[Thread]
<1>1. /\ QueueInv'
      /\ j \in Jobs /\ active' = active
      /\ status[j] = "picked"
      /\ status' = [status EXCEPT ![j] = "running"]
  BY StartCalls DEF CallRunner, Inv
<1>2. phase[j] = "none" /\ kind[j] # "none"
  BY <1>1 DEF Inv, Calls, Queue!Free
<1>3. status \in [Jobs -> {"queued", "picked", "running", "idle", "expired"}]
  BY InvFacts
<1> HIDE DEF j
<1>4. CASE kind[j] = "http"
  <2>1. phase' = [phase EXCEPT ![j] = "admission"]
        /\ UNCHANGED <<up, kind, admission, userRow, draft, cargo, run, fate, mishap>>
    BY <1>4 DEF CallRunner, j
  <2>2. run.state = "running" \/ run.steering # <<>> =>
          run.of = NoJob /\ \A i \in Jobs : phase[i] \notin {"preparing", "streaming"}
    BY <1>1, <1>2, OnlyTheOwnerRuns DEF j
  <2>3. TurnTypes'
    BY <2>1 DEF Inv, TurnTypes, Phases
  <2>4. Calls'
    BY <1>1, <1>3, <1>4, <2>1 DEF Inv, Calls, TurnTypes, Queue!Free
  <2>5. Registered' /\ Places'
    BY <2>1, <2>2 DEF Inv, TurnTypes, Registered, Places
  <2>6. Rows'
    BY <1>2, <1>4, <2>1 DEF Inv, Rows, Admitted, TurnTypes
  <2>7. Carriers'
    BY <1>4, <2>1 DEF Inv, Carriers, TurnTypes
  <2> QED  BY <1>1, <2>3, <2>4, <2>5, <2>6, <2>7 DEF Inv
<1>5. CASE kind[j] # "http"
  <2>1. startRun(j) /\ up /\ UNCHANGED <<up, kind, admission, draft>>
    BY <1>5 DEF CallRunner, j
  <2>2. /\ phase' \in {[phase EXCEPT ![j] = "preparing"], [phase EXCEPT ![j] = "over"]}
        /\ TurnTypes' /\ Registered' /\ Rows' /\ Places' /\ Carriers'
    BY <1>1, <1>2, <1>5, <2>1, StartRunKeeps DEF j
  <2>3. Calls'
    BY <1>1, <1>3, <1>5, <2>1, <2>2 DEF Inv, Calls, TurnTypes, Queue!Free
  <2> QED  BY <1>1, <2>2, <2>3 DEF Inv
<1> QED  BY <1>4, <1>5

\* The owner's call has settled, by Leave or Expire.
LEMMA LeavingKeepsInv ==
    ASSUME AgentTurnAssumption, Inv, NEW o \in Queue!Free, Left(o), QueueInv',
           NEW j \in Jobs, j = active[Thread],
           phase[j] \in {"none", "over"}, phase[j] = "none" => kind[j] # "http",
           phase[j] = "none" => kind[j] # "continuation",
           phase' = [phase EXCEPT ![j] = "none"],
           kind' = [kind EXCEPT ![j] = "none"],
           admission' = [admission EXCEPT ![j] = "none"],
           userRow' = userRow \/ userRow' = forgotten(userRow, j),
           draft' = draft \/ draft' = forgotten(draft, j),
           UNCHANGED <<up, cargo, run, fate, mishap>>
    PROVE  Inv'
<1>1. /\ cargo[j] = {}
      /\ run.state = "running" \/ run.steering # <<>> =>
          run.of = NoJob /\ \A i \in Jobs : phase[i] \notin {"preparing", "streaming"}
  BY OnlyTheOwnerRuns DEF Inv, Carriers
<1>2. TurnTypes'
  BY DEF Inv, TurnTypes, Phases, Kinds, Admissions, RowStates, forgotten, keptOpen
<1>3. Calls'
  <2>1. ASSUME NEW i \in Jobs
        PROVE  /\ i = j => status'[i] = o
               /\ i # j => status'[i] = status[i] \/ (status[i] = "queued" /\ status'[i] = "picked")
    BY InvFacts DEF Left
  <2> QED  BY <2>1 DEF Inv, Calls, TurnTypes, Queue!Free
<1>4. Registered' /\ Places'
  BY <1>1 DEF Inv, TurnTypes, Registered, Places
<1>5. Rows'
  <2>1. ASSUME up
        PROVE  /\ userRow[j] = "in_progress" => mishap[j] \cap {"start", "activation"} # {}
               /\ draft[j] = "in_progress" => mishap[j] \cap {"start", "settling"} # {}
    BY <2>1 DEF Inv, Rows, Admitted
  <2> QED  BY <2>1 DEF Inv, Rows, Admitted, TurnTypes, forgotten, keptOpen
<1>6. Carriers'
  BY <1>1 DEF Inv, Carriers, TurnTypes
<1> QED  BY <1>2, <1>3, <1>4, <1>5, <1>6 DEF Inv

LEMMA LeaveKeepsInv ==
    ASSUME AgentTurnAssumption, Inv, Leave
    PROVE  Inv'
<1>1. Queue!finish(Thread, "idle") /\ active[Thread] # NoJob /\ "idle" \in Queue!Free
  BY DEF Leave, Queue!Settle, Queue!Free
<1>2. QueueInv' /\ Left("idle")
  BY <1>1, FinishLeaves DEF Inv
<1>3. active[Thread] \in Jobs
  BY <1>2 DEF Left
<1> QED  BY <1>1, <1>2, <1>3, LeavingKeepsInv DEF Leave

LEMMA ExpireKeepsInv ==
    ASSUME AgentTurnAssumption, Inv, Expire
    PROVE  Inv'
<1> DEFINE j == active[Thread]
<1>1. /\ Queue!finish(Thread, "expired") /\ j # NoJob /\ "expired" \in Queue!Free
      /\ status[j] = "picked" /\ deadline[j] = "passed"
  BY DEF Expire, Queue!Expire, Queue!Free
<1>2. QueueInv' /\ Left("expired")
  BY <1>1, FinishLeaves DEF Inv
<1>3. j \in Jobs
  BY <1>2 DEF Left
<1>4. j \in Expiring /\ phase[j] = "none" /\ kind[j] \notin {"http", "continuation"}
      /\ admission[j] = "none"
  BY <1>1, <1>3 DEF Inv, QueueInv, DeadlinesExpire, Calls
<1>5. phase' = [phase EXCEPT ![j] = "none"] /\ admission' = [admission EXCEPT ![j] = "none"]
  BY <1>4 DEF Expire, Inv, TurnTypes
<1>6. /\ kind' = [kind EXCEPT ![j] = "none"]
      /\ UNCHANGED <<userRow, draft>> /\ UNCHANGED <<up, cargo, run, fate, mishap>>
  BY DEF Expire, rowVars
<1> HIDE DEF j
<1> QED  BY <1>1, <1>2, <1>3, <1>4, <1>5, <1>6, LeavingKeepsInv DEF j

LEMMA PassDeadlineKeepsInv ==
    ASSUME AgentTurnAssumption, Inv, NEW j \in Jobs, PassDeadline(j)
    PROVE  Inv'
<1>1. QueueInv' /\ active' = active /\ status' = status
  BY DeadlinePasses DEF PassDeadline, Inv
<1> QED  BY <1>1 DEF PassDeadline, turnVars, rowVars, Inv, TurnTypes, Calls, Registered, Rows,
                     Admitted, Places, Carriers

----------------------------------------------------------------------------
(* The steps of the POST handler and of the runner: the queue stays.       *)

\* The POST handler saves the message, or refuses the call.
LEMMA AdmitKeepsInv ==
    ASSUME AgentTurnAssumption, Inv, NEW j \in Jobs, Admit(j)
    PROVE  Inv'
<1>1. /\ UNCHANGED queueVars /\ QueueInv' /\ status' = status /\ active' = active
      /\ UNCHANGED <<kind, phase, cargo, run, fate, mishap, up>> /\ up /\ admission[j] = "pending"
  BY QueueStays DEF Admit, Persist, Refuse, queueVars, Inv
<1>2. kind[j] = "http" /\ phase[j] \in {"none", "admission"}
  BY <1>1 DEF Inv, Calls
<1>3. TurnTypes'
  BY <1>1 DEF Admit, Persist, Refuse, rowVars, Inv, TurnTypes, Admissions, RowStates,
              savedUserRow
<1>4. Calls'
  BY <1>1, <1>2 DEF Admit, Persist, Refuse, Inv, TurnTypes, Calls
<1>5. Rows'
  BY <1>1, <1>2 DEF Admit, Persist, Refuse, rowVars, Inv, TurnTypes, Rows, Admitted,
                    savedUserRow
<1>6. Registered' /\ Places' /\ Carriers'
  BY <1>1 DEF Inv, Registered, Places, Carriers
<1> QED  BY <1>1, <1>3, <1>4, <1>5, <1>6 DEF Inv

LEMMA ExecuteKeepsInv ==
    ASSUME AgentTurnAssumption, Inv, NEW j \in Jobs, Execute(j)
    PROVE  Inv'
<1>1. /\ QueueInv' /\ status' = status /\ active' = active
      /\ active[Thread] = j /\ up /\ status[j] = "running" /\ startRun(j)
      /\ phase[j] = "admission" /\ admission[j] = "persisted"
      /\ UNCHANGED <<up, kind, admission, draft>>
  BY QueueStays DEF Execute, Owner, queueVars, Inv
<1>2. kind[j] = "http"
  BY <1>1 DEF Inv, Calls
<1>3. /\ phase' \in {[phase EXCEPT ![j] = "preparing"], [phase EXCEPT ![j] = "over"]}
      /\ TurnTypes' /\ Registered' /\ Rows' /\ Places' /\ Carriers'
  BY <1>1, <1>2, StartRunKeeps
<1>4. Calls'
  BY <1>1, <1>3 DEF Inv, TurnTypes, Calls
<1> QED  BY <1>1, <1>3, <1>4 DEF Inv

LEMMA TurnAwayKeepsInv ==
    ASSUME AgentTurnAssumption, Inv, NEW j \in Jobs, TurnAway(j)
    PROVE  Inv'
<1>1. /\ QueueInv' /\ status' = status /\ active' = active
      /\ active[Thread] = j /\ status[j] = "running"
      /\ phase[j] = "admission" /\ admission[j] = "refused"
      /\ phase' = [phase EXCEPT ![j] = "over"]
      /\ UNCHANGED <<up, kind, admission, userRow, draft, cargo, run, fate, mishap>>
  BY QueueStays DEF TurnAway, Owner, queueVars, rowVars, Inv
<1>2. run.state = "running" \/ run.steering # <<>> =>
        run.of = NoJob /\ \A i \in Jobs : phase[i] \notin {"preparing", "streaming"}
  BY <1>1, OnlyTheOwnerRuns
<1>3. TurnTypes' /\ Calls'
  BY <1>1 DEF Inv, TurnTypes, Calls, Phases
<1>4. Registered' /\ Places'
  BY <1>1, <1>2 DEF Inv, TurnTypes, Registered, Places
<1>5. Rows' /\ Carriers'
  BY <1>1 DEF Inv, TurnTypes, Calls, Rows, Admitted, Carriers
<1> QED  BY <1>1, <1>3, <1>4, <1>5 DEF Inv

LEMMA PersistInputKeepsInv ==
    ASSUME AgentTurnAssumption, Inv, NEW j \in Jobs, PersistInput(j)
    PROVE  Inv'
<1>1. /\ QueueInv' /\ status' = status /\ active' = active
      /\ phase[j] = "preparing"
      /\ userRow' = [userRow EXCEPT ![j] = "completed"]
      /\ draft' \in {draft, [draft EXCEPT ![j] = "in_progress"]}
      /\ UNCHANGED <<up, kind, phase, admission, cargo, run, fate, mishap>>
  BY QueueStays DEF PersistInput, queueVars, turnVars, Inv
<1>2. TurnTypes'
  BY <1>1 DEF Inv, TurnTypes, RowStates
<1>3. Rows'
  BY <1>1 DEF Inv, TurnTypes, Rows, Admitted
<1>4. Calls' /\ Registered' /\ Places' /\ Carriers'
  BY <1>1 DEF Inv, Calls, Registered, Places, Carriers
<1> QED  BY <1>1, <1>2, <1>3, <1>4 DEF Inv

LEMMA PreparedKeepsInv ==
    ASSUME AgentTurnAssumption, Inv, NEW j \in Jobs, Prepared(j)
    PROVE  Inv'
<1>1. /\ QueueInv' /\ status' = status /\ active' = active
      /\ phase[j] = "preparing"
      /\ phase' = [phase EXCEPT ![j] = "streaming"]
      /\ draft' \in {draft, [draft EXCEPT ![j] = "in_progress"]}
      /\ fate' = [m \in Messages |-> IF m \in cargo[j] THEN "read" ELSE fate[m]]
      /\ cargo' = [cargo EXCEPT ![j] = {}]
      /\ UNCHANGED <<up, kind, admission, userRow, run, mishap>>
  BY QueueStays DEF Prepared, queueVars, Inv
<1>2. TurnTypes'
  BY <1>1 DEF Inv, TurnTypes, RowStates, Phases, Fates
<1>3. Calls'
  BY <1>1 DEF Inv, TurnTypes, Calls
<1>4. Registered'
  BY <1>1 DEF Inv, TurnTypes, Registered
<1>5. Rows'
  BY <1>1 DEF Inv, TurnTypes, Rows, Admitted
<1>6. Places'
  <2>1. ASSUME NEW m \in Messages
        PROVE  /\ fate'[m] = "queued" <=> m \in Range(run'.steering)
               /\ fate'[m] = "carried" <=> \E i \in Jobs : m \in cargo'[i]
    <3>1. m \in cargo[j] => fate[m] = "carried" /\ \A i \in Jobs : m \in cargo[i] => i = j
      BY DEF Inv, Places
    <3>2. m \notin cargo[j] =>
            ((\E i \in Jobs : m \in cargo[i]) <=> \E i \in Jobs : m \in cargo'[i])
      BY <1>1 DEF Inv, TurnTypes
    <3> QED  BY <1>1, <3>1, <3>2 DEF Inv, Places, TurnTypes
  <2>2. \A i, k \in Jobs : cargo'[k] \cap cargo'[i] # {} => k = i
    BY <1>1 DEF Inv, TurnTypes, Places
  <2> QED  BY <1>1, <2>1, <2>2 DEF Inv, Places
<1>7. Carriers'
  BY <1>1 DEF Inv, TurnTypes, Carriers
<1> QED  BY <1>1, <1>2, <1>3, <1>4, <1>5, <1>6, <1>7 DEF Inv

\* The owner's runner returns: its entry ends, what steering is left in the
\* entry or in its cargo is lost, and its draft is settled or on record.
LEMMA LeavesKeepsInv ==
    ASSUME AgentTurnAssumption, Inv, NEW j \in Jobs, Owner(j),
           phase[j] \in {"preparing", "streaming"},
           NEW s \in {"done", "error"}, leaves(j, s),
           \/ /\ \E row \in {"completed", "failed", "interrupted"} : draft' = settledRow(j, row)
              /\ mishap' = mishap
           \/ draft' = draft /\ mishap' = noted(j, {"settling"})
    PROVE  Inv'
<1>1. /\ QueueInv' /\ status' = status /\ active' = active
      /\ active[Thread] = j /\ status[j] = "running"
      /\ phase' = [phase EXCEPT ![j] = "over"]
      /\ run' = finishRun(j, s)
      /\ fate' = lose(Range(run.steering) \cup cargo[j])
      /\ cargo' = [cargo EXCEPT ![j] = {}]
      /\ UNCHANGED <<up, kind, admission, userRow>>
  BY QueueStays DEF leaves, queueVars, Inv, Owner
<1>2. run'.steering = <<>> /\ run'.state # "running" /\ run' \in Runs
  <2>1. run.state = "running" \/ run.steering # <<>> => run.of = j
    BY <1>1 DEF Inv, Registered
  <2>2. CASE run.of = j
    BY <1>1, <2>1, <2>2, RunFinished
  <2>3. CASE run.of # j
    BY <1>1, <2>1, <2>3 DEF finishRun, Inv, TurnTypes
  <2> QED  BY <2>1, <2>2, <2>3
<1>3. Places' /\ fate' \in [Messages -> Fates]
  BY <1>1, <1>2, GivenUp
<1>4. TurnTypes'
  <2>1. draft' \in [Jobs -> RowStates]
    BY DEF Inv, TurnTypes, RowStates, settledRow
  <2>2. mishap' \in [Jobs -> SUBSET Mishaps]
    BY DEF Inv, TurnTypes, Mishaps, noted
  <2> QED  BY <1>1, <1>2, <1>3, <2>1, <2>2 DEF Inv, TurnTypes, Phases
<1>5. Calls'
  BY <1>1 DEF Inv, TurnTypes, Calls
<1>6. Registered'
  BY <1>2 DEF Registered
<1>7. Rows'
  BY <1>1 DEF Inv, TurnTypes, Rows, Admitted, settledRow, noted
<1>8. Carriers'
  BY <1>1 DEF Inv, TurnTypes, Carriers
<1> QED  BY <1>1, <1>3, <1>4, <1>5, <1>6, <1>7, <1>8 DEF Inv

\* The owner's runner returns without finishRun: nobody holds its entry now.
LEMMA AbandonsKeepsInv ==
    ASSUME AgentTurnAssumption, Inv, NEW j \in Jobs, Owner(j),
           phase[j] = "preparing", kind[j] = "http", abandons(j)
    PROVE  Inv'
<1>1. /\ QueueInv' /\ status' = status /\ active' = active
      /\ active[Thread] = j /\ status[j] = "running"
      /\ phase' = [phase EXCEPT ![j] = "over"]
      /\ run' = IF run.of = j THEN [run EXCEPT !.of = NoJob] ELSE run
      /\ mishap' = [mishap EXCEPT ![j] = @ \cup {"settling"}]
      /\ UNCHANGED <<up, kind, admission, cargo, userRow, draft, fate>>
  BY QueueStays DEF abandons, noted, queueVars, Inv, Owner
<1>2. run' \in Runs /\ run'.steering = run.steering /\ run'.state = run.state
      /\ run'.of \in {run.of, NoJob} /\ run'.of # j
  <2>1. run \in Runs /\ NoJob # j
    BY InvFacts DEF Inv, TurnTypes
  <2> QED  BY <1>1, <2>1 DEF Runs
<1>3. \A i \in Jobs : phase'[i] \notin {"preparing", "streaming"}
  BY <1>1, InvFacts DEF Inv, TurnTypes, Calls
<1>4. Registered'
  <2>1. run.state = "running" \/ run.steering # <<>> => run.of \in {j, NoJob}
    BY <1>1 DEF Inv, Registered
  <2> QED  BY <1>1, <1>2, <1>3, <2>1 DEF Registered
<1>5. TurnTypes'
  BY <1>1, <1>2 DEF Inv, TurnTypes, Phases, Mishaps
<1>6. Calls'
  BY <1>1 DEF Inv, TurnTypes, Calls
<1>7. Rows'
  BY <1>1 DEF Inv, TurnTypes, Rows, Admitted
<1>8. Places'
  BY <1>1, <1>2 DEF Inv, Places
<1>9. Carriers'
  BY <1>1 DEF Inv, TurnTypes, Calls, Carriers
<1> QED  BY <1>1, <1>4, <1>5, <1>6, <1>7, <1>8, <1>9 DEF Inv

\* The activation of an http turn fails: its run is over, or abandoned.
LEMMA ActivationFailsKeepsInv ==
    ASSUME AgentTurnAssumption, Inv, NEW j \in Jobs, ActivationFails(j)
    PROVE  Inv'
<1>1. /\ QueueInv' /\ status' = status /\ active' = active
      /\ active[Thread] = j /\ status[j] = "running" /\ phase[j] = "admission"
      /\ admission[j] = "persisted"
      /\ phase' = [phase EXCEPT ![j] = "over"]
      /\ fate' = lose(Range(run.steering))
      /\ UNCHANGED <<up, kind, admission, cargo, userRow>>
  BY QueueStays DEF ActivationFails, Owner, queueVars, Inv
<1>2. /\ run'.steering = <<>> /\ run' \in Runs
      /\ run'.state = "running" => run'.of = NoJob
  <2>1. /\ NewRun(j) \in Runs /\ NewRun(j).of = j /\ NewRun(j).steering = <<>>
        /\ NewRun(j).state = "running"
    BY InvFacts DEF NewRun
  <2>2. run' \in {[NewRun(j) EXCEPT !.state = "error"], [NewRun(j) EXCEPT !.of = NoJob]}
    BY DEF ActivationFails
  <2> HIDE DEF NewRun
  <2> QED  BY <2>1, <2>2 DEF Runs
<1>3. \/ draft' = settledRow(j, "failed") /\ mishap' = [mishap EXCEPT ![j] = @ \cup {"activation"}]
      \/ draft' = draft /\ mishap' = [mishap EXCEPT ![j] = @ \cup {"activation", "settling"}]
  BY DEF ActivationFails, noted
<1>4. \A i \in Jobs : phase'[i] \notin {"preparing", "streaming"}
  BY <1>1, InvFacts DEF Inv, TurnTypes, Calls
<1>5. Registered'
  BY <1>2, <1>4 DEF Registered
<1>6. Places' /\ fate' \in [Messages -> Fates]
  BY <1>1, <1>2, GivenUp
<1>7. TurnTypes'
  BY <1>1, <1>2, <1>3, <1>6 DEF Inv, TurnTypes, RowStates, Phases, Mishaps, settledRow
<1>8. Calls'
  BY <1>1 DEF Inv, TurnTypes, Calls
<1>9. Rows'
  <2>1. /\ draft[j] # "in_progress" => draft'[j] # "in_progress"
        /\ draft'[j] = "in_progress" => "settling" \in mishap'[j]
        /\ "activation" \in mishap'[j]
    BY <1>3 DEF Inv, TurnTypes, settledRow
  <2>2. \A i \in Jobs : i # j => draft'[i] = draft[i] /\ mishap'[i] = mishap[i]
                                /\ phase'[i] = phase[i]
    BY <1>1, <1>3 DEF Inv, TurnTypes, settledRow
  <2> QED  BY <1>1, <2>1, <2>2 DEF Inv, Rows, Admitted
<1>10. Carriers'
  BY <1>1 DEF Inv, TurnTypes, Calls, Carriers
<1> QED  BY <1>1, <1>5, <1>6, <1>7, <1>8, <1>9, <1>10 DEF Inv

\* The ways out of a turn that has nothing to continue.
LEMMA EndKeepsInv ==
    ASSUME AgentTurnAssumption, Inv, NEW j \in Jobs,
           \/ PrepareFails(j)
           \/ \E o \in Outcomes : StreamEnds(j, o)
           \/ PersistFails(j)
    PROVE  Inv'
<1>1. ASSUME Owner(j), phase[j] \in {"preparing", "streaming"},
             NEW s \in {"done", "error"}, NEW row \in {"completed", "failed", "interrupted"},
             returns(j, s, row)
      PROVE  Inv'
  BY <1>1, LeavesKeepsInv DEF returns
<1>2. ASSUME Owner(j), phase[j] \in {"preparing", "streaming"}, returnsUnsettled(j)
      PROVE  Inv'
  BY <1>2, LeavesKeepsInv DEF returnsUnsettled
<1>3. ASSUME PrepareFails(j)
      PROVE  Inv'
  BY <1>1, <1>2, <1>3, AbandonsKeepsInv DEF PrepareFails, preparesBadly
<1>4. ASSUME NEW o \in Outcomes, StreamEnds(j, o)
      PROVE  Inv'
  <2>1. terminalOf[o] \in {"done", "error"} /\ rowOf[o] \in {"completed", "failed", "interrupted"}
    BY DEF Outcomes, terminalOf, rowOf
  <2> QED  BY <1>1, <1>4, <2>1 DEF StreamEnds
<1>5. ASSUME PersistFails(j)
      PROVE  Inv'
  BY <1>1, <1>2, <1>5 DEF PersistFails
<1> QED  BY <1>3, <1>4, <1>5

LEMMA ContinueKeepsInv ==
    ASSUME AgentTurnAssumption, Inv, NEW j \in Jobs, NEW k \in Jobs, NEW o \in Outcomes,
           StreamContinues(j, k, o)
    PROVE  Inv'
<1> DEFINE S == Range(run.steering)
<1>1. QueueInv' /\ Entered(k)
  BY EnqueueEnters, LanesRequested DEF StreamContinues, Inv
<1>2. /\ active[Thread] = j /\ status[j] = "running" /\ phase[j] = "streaming"
      /\ run.steering # <<>> /\ k \notin Expiring /\ up
      /\ opens(k, "continuation", S)
      /\ phase' = [phase EXCEPT ![j] = "over"]
      /\ draft' = freshRows(settledRow(j, rowOf[o]), k)
      /\ userRow' = freshRows(userRow, k)
      /\ run' = finishRun(j, terminalOf[o])
      /\ fate' = [m \in Messages |-> IF m \in S THEN "carried" ELSE fate[m]]
      /\ up' = up
  BY DEF StreamContinues, Owner
<1>3. /\ active' = active /\ status'[k] = "queued"
      /\ \A i \in Jobs : i # k => status'[i] = status[i]
      /\ status[k] \in Queue!Free
      /\ j # k
  BY <1>1, <1>2, InvFacts DEF Entered, Queue!Free
<1>4. phase[k] = "none" /\ kind[k] = "none" /\ cargo[k] = {} /\ cargo[j] = {}
  BY <1>2, <1>3 DEF Inv, Calls, Carriers, Queue!Free
<1>5. terminalOf[o] \in {"done", "error"} /\ rowOf[o] \in {"completed", "failed", "interrupted"}
  BY DEF Outcomes, terminalOf, rowOf
<1>6. run.of = j /\ run'.steering = <<>> /\ run'.state # "running" /\ run' \in Runs
  <2>1. run.of = j
    BY <1>2 DEF Inv, Registered
  <2> QED  BY <1>2, <1>5, <2>1, RunFinished
<1>7. S \subseteq Messages
  BY RangeType, InvFacts
<1> HIDE DEF S
<1>8. kind' = [kind EXCEPT ![k] = "continuation"] /\ admission' = [admission EXCEPT ![k] = "none"]
      /\ cargo' = [cargo EXCEPT ![k] = S] /\ mishap' = [mishap EXCEPT ![k] = {}]
  BY <1>2 DEF opens
<1>9. TurnTypes'
  BY <1>2, <1>5, <1>6, <1>7, <1>8
     DEF Inv, TurnTypes, Kinds, Admissions, RowStates, Phases, Fates, settledRow, freshRows
<1>10. Calls'
  BY <1>2, <1>3, <1>4, <1>8 DEF Inv, TurnTypes, Calls, Queue!Free
<1>11. Registered'
  BY <1>6 DEF Registered
<1>12. Rows'
  BY <1>2, <1>3, <1>5, <1>8 DEF Inv, TurnTypes, Rows, Admitted, settledRow, freshRows
<1>13. Places'
  <2>1. \A m \in Messages : m \in S <=> fate[m] = "queued"
    BY DEF Inv, Places, S
  <2>2. \A i \in Jobs : \A m \in cargo[i] : m \notin S
    BY <2>1 DEF Inv, Places, TurnTypes
  <2>3. ASSUME NEW m \in Messages
        PROVE  /\ fate'[m] # "queued"
               /\ fate'[m] = "carried" <=> \E i \in Jobs : m \in cargo'[i]
    <3>1. CASE m \in S
      BY <1>2, <1>8, <3>1 DEF Inv, TurnTypes
    <3>2. CASE m \notin S
      <4>1. (\E i \in Jobs : m \in cargo[i]) <=> \E i \in Jobs : m \in cargo'[i]
        BY <1>4, <1>8, <3>2 DEF Inv, TurnTypes
      <4> QED  BY <1>2, <2>1, <3>2, <4>1 DEF Inv, Places
    <3> QED  BY <3>1, <3>2
  <2>4. \A i, h \in Jobs : cargo'[h] \cap cargo'[i] # {} => h = i
    BY <1>8, <2>2 DEF Inv, TurnTypes, Places
  <2> QED  BY <1>6, <2>3, <2>4, EmptyRange DEF Places
<1>14. Carriers'
  BY <1>2, <1>3, <1>4, <1>8 DEF Inv, TurnTypes, Carriers
<1> QED  BY <1>1, <1>9, <1>10, <1>11, <1>12, <1>13, <1>14 DEF Inv

LEMMA ModelCallKeepsInv ==
    ASSUME AgentTurnAssumption, Inv, NEW j \in Jobs, ModelCall(j)
    PROVE  Inv'
<1>1. /\ QueueInv' /\ status' = status /\ active' = active
      /\ run.steering # <<>>
      /\ run' = [run EXCEPT !.steering = <<>>]
      /\ fate' = [m \in Messages |-> IF m \in Range(run.steering) THEN "read" ELSE fate[m]]
      /\ UNCHANGED <<up, kind, phase, admission, cargo, mishap, userRow, draft>>
  BY QueueStays DEF ModelCall, queueVars, turnVars, rowVars, unread, Inv
<1>2. run' \in Runs /\ run'.steering = <<>> /\ run'.state = run.state /\ run'.of = run.of
  BY <1>1, RunUpdates, NoSteering
<1>3. TurnTypes'
  BY <1>1, <1>2 DEF Inv, TurnTypes, Fates
<1>4. Places'
  BY <1>1, <1>2, EmptyRange DEF Inv, Places, TurnTypes
<1>5. Calls' /\ Registered' /\ Rows' /\ Carriers'
  BY <1>1, <1>2 DEF Inv, Calls, Registered, Rows, Admitted, Carriers
<1> QED  BY <1>1, <1>3, <1>4, <1>5 DEF Inv

----------------------------------------------------------------------------
(* Steering, stopping, watchdogs and crashes.                              *)

LEMMA SteerKeepsInv ==
    ASSUME AgentTurnAssumption, Inv, NEW m \in Messages, Steer(m)
    PROVE  Inv'
<1> DEFINE q == Append(run.steering, m)
<1>1. /\ QueueInv' /\ status' = status /\ active' = active
      /\ fate[m] = "unsent" /\ run.state = "running"
      /\ run' = [run EXCEPT !.steering = q]
      /\ fate' = [fate EXCEPT ![m] = "queued"]
      /\ UNCHANGED <<up, kind, phase, admission, cargo, mishap, userRow, draft>>
  BY QueueStays DEF Steer, alreadyAccepted, queueVars, turnVars, rowVars, Inv
<1>2. m \notin Range(run.steering) /\ run.steering \in Seq(Messages)
  BY <1>1, InvFacts DEF Inv, Places
<1>3. Range(q) = Range(run.steering) \cup {m} /\ IsInjective(q) /\ q \in Seq(Messages)
  BY <1>2, AppendKeeps DEF Inv, Places
<1> HIDE DEF q
<1>4. run' \in Runs /\ run'.steering = q /\ run'.state = run.state /\ run'.of = run.of
  BY <1>1, <1>3, RunUpdates
<1>5. TurnTypes'
  BY <1>1, <1>4 DEF Inv, TurnTypes, Fates
<1>6. Places'
  BY <1>1, <1>3, <1>4 DEF Inv, Places, TurnTypes
<1>7. Registered'
  BY <1>1, <1>4 DEF Inv, Registered
<1>8. Calls' /\ Rows' /\ Carriers'
  BY <1>1 DEF Inv, Calls, Rows, Admitted, Carriers
<1> QED  BY <1>1, <1>5, <1>6, <1>7, <1>8 DEF Inv

LEMMA AbortKeepsInv ==
    ASSUME AgentTurnAssumption, Inv, Stop \/ Watchdog
    PROVE  Inv'
<1>1. /\ QueueInv' /\ status' = status /\ active' = active
      /\ run.state = "running"
      /\ UNCHANGED <<up, kind, phase, admission, cargo, mishap, userRow, draft, fate>>
  BY QueueStays DEF Stop, Watchdog, queueVars, turnVars, rowVars, Inv
<1>2. run' \in Runs /\ run'.steering = run.steering /\ run'.of = run.of
  BY RunUpdates, NoSteering DEF Stop, Watchdog, timedOut
<1>3. TurnTypes' /\ Registered' /\ Places'
  BY <1>1, <1>2 DEF Inv, TurnTypes, Registered, Places
<1>4. Calls' /\ Rows' /\ Carriers'
  BY <1>1 DEF Inv, Calls, Rows, Admitted, Carriers
<1> QED  BY <1>1, <1>3, <1>4 DEF Inv

LEMMA EvictKeepsInv ==
    ASSUME AgentTurnAssumption, Inv, Evict
    PROVE  Inv'
<1>1. /\ QueueInv' /\ status' = status /\ active' = active
      /\ run' = NoRun /\ fate' = lose(Range(run.steering))
      /\ UNCHANGED <<up, kind, phase, admission, cargo, mishap, userRow, draft>>
  BY QueueStays DEF Evict, queueVars, turnVars, rowVars, Inv
<1>2. NoRun.steering = <<>> /\ NoRun.state = "none" /\ NoRun \in Runs
  BY InvFacts DEF NoRun
<1>3. TurnTypes'
  BY <1>1, <1>2 DEF Inv, TurnTypes, Fates, lose
<1>4. Places'
  BY <1>1, <1>2, EmptyRange DEF Inv, Places, TurnTypes, lose
<1>5. Registered' /\ Calls' /\ Rows' /\ Carriers'
  BY <1>1, <1>2 DEF Inv, Registered, Calls, Rows, Admitted, Carriers
<1> QED  BY <1>1, <1>3, <1>4, <1>5 DEF Inv

LEMMA CrashKeepsInv ==
    ASSUME AgentTurnAssumption, Inv, Crash
    PROVE  Inv'
<1>1. QueueInv'
  BY QueueRestarts
<1>2. /\ up' = FALSE /\ run' = NoRun
      /\ status' = [j \in Jobs |-> "idle"]
      /\ kind' = [j \in Jobs |-> "none"]
      /\ phase' = [j \in Jobs |-> "none"]
      /\ admission' = [j \in Jobs |-> "none"]
      /\ cargo' = [j \in Jobs |-> {}]
      /\ mishap' = [j \in Jobs |-> {}]
      /\ fate' = [m \in Messages |-> IF fate[m] \in {"queued", "carried"} THEN "lost" ELSE fate[m]]
      /\ UNCHANGED <<userRow, draft>>
  BY DEF Crash, lose, rowVars
<1>3. NoRun.steering = <<>> /\ NoRun.state = "none" /\ NoRun \in Runs
  BY InvFacts DEF NoRun
<1>4. TurnTypes'
  BY <1>2, <1>3 DEF Inv, TurnTypes, Kinds, Phases, Admissions, Fates
<1>5. Places'
  BY <1>2, <1>3, EmptyRange DEF Inv, Places, TurnTypes
<1>6. Registered' /\ Calls' /\ Rows' /\ Carriers'
  BY <1>2, <1>3 DEF Registered, Calls, Queue!Free, Rows, Carriers
<1> QED  BY <1>1, <1>4, <1>5, <1>6 DEF Inv

LEMMA BootKeepsInv ==
    ASSUME AgentTurnAssumption, Inv, Boot
    PROVE  Inv'
<1>1. /\ QueueInv' /\ status' = status /\ active' = active
      /\ UNCHANGED <<kind, phase, admission, cargo, mishap, run, fate>> /\ up' = TRUE
  BY QueueStays DEF Boot, queueVars, turnVars, Inv
<1>2. \A j \in Jobs : userRow'[j] = "none" /\ draft'[j] = "none"
  BY DEF Boot, keptOpen, recovered, recoveredUserRows
<1>3. TurnTypes'
  BY <1>1, <1>2 DEF Inv, TurnTypes, RowStates, Boot
<1>4. Rows'
  BY <1>2 DEF Rows
<1>5. Calls' /\ Registered' /\ Places' /\ Carriers'
  BY <1>1 DEF Inv, Calls, Registered, Places, Carriers
<1> QED  BY <1>1, <1>3, <1>4, <1>5 DEF Inv

LEMMA StepKeepsInv == AgentTurnAssumption /\ Inv /\ [Next]_vars => Inv'
<1> SUFFICES ASSUME AgentTurnAssumption, Inv, [Next]_vars
             PROVE  Inv'
  OBVIOUS
<1>1. ASSUME NEW j \in Jobs, HttpSubmit(j)
      PROVE  Inv'
  <2>1. QueueInv' /\ Entered(j)
    BY <1>1, EnqueueEnters, LanesRequested DEF HttpSubmit, Inv
  <2> QED  BY <1>1, <2>1, SubmitKeepsInv DEF HttpSubmit
<1>2. ASSUME NEW j \in Jobs, NEW l \in Queue!RequestedLanes, AgentSubmit(j, l)
      PROVE  Inv'
  <2>1. QueueInv' /\ Entered(j)
    BY <1>2, EnqueueEnters, LanesRequested DEF AgentSubmit, Inv
  <2> QED  BY <1>2, <2>1, SubmitKeepsInv DEF AgentSubmit
<1>3. ASSUME NEW j \in Jobs, RunnerStep(j)
      PROVE  Inv'
  BY <1>3, ExecuteKeepsInv, ActivationFailsKeepsInv, TurnAwayKeepsInv, PersistInputKeepsInv, PreparedKeepsInv,
     EndKeepsInv, ContinueKeepsInv DEF RunnerStep
<1>4. ASSUME NEW j \in Jobs, Admit(j) \/ ModelCall(j) \/ PassDeadline(j)
      PROVE  Inv'
  BY <1>4, AdmitKeepsInv, ModelCallKeepsInv, PassDeadlineKeepsInv
<1>5. CASE QueueStep
  BY <1>5, CallRunnerKeepsInv, ExpireKeepsInv, LeaveKeepsInv DEF QueueStep
<1>6. ASSUME NEW m \in Messages, Steer(m)
      PROVE  Inv'
  BY <1>6, SteerKeepsInv
<1>7. CASE Stop \/ Watchdog \/ Evict \/ Crash \/ Boot
  BY <1>7, AbortKeepsInv, EvictKeepsInv, CrashKeepsInv, BootKeepsInv
<1>8. CASE UNCHANGED vars
  <2>1. QueueInv'
    BY <1>8, QueueStays DEF vars, Inv
  <2> QED  BY <1>8, <2>1 DEF vars, queueVars, turnVars, rowVars, Inv, TurnTypes, Calls,
                             Registered, Rows, Admitted, Places, Carriers
<1> QED  BY <1>1, <1>2, <1>3, <1>4, <1>5, <1>6, <1>7, <1>8 DEF Next

----------------------------------------------------------------------------
(* The theorems.                                                           *)

\* The inductive invariant: the queue, the runner's progress, the registry's
\* entry, the rows and the steering messages agree in every reachable state.
THEOREM TurnInvariant == Spec => []Inv
<1>1. Init => Inv
  BY StartInv, AgentTurnAssumption
<1>2. Inv /\ [Next]_vars => Inv'
  BY StepKeepsInv, AgentTurnAssumption
<1> QED  BY <1>1, <1>2, PTL DEF Spec

\* Type correctness of a conversation's turns.
THEOREM TurnTyped == Spec => []TypeOK
<1>1. Inv => TypeOK
  BY QueueTypes DEF Inv, QueueInv, QP!Inv, TypeOK, TurnTypes
<1> QED  BY <1>1, TurnInvariant, PTL

\* A run registered as running is the owner's, and the owner drives it,
\* whatever watchdogs, aborts, failed turns and crashes came before, unless its
\* handler has abandoned it.
THEOREM RegisteredRunIsTheOwners == Spec => []RunHasItsOwner
<1>1. Inv => RunHasItsOwner
  BY DEF Inv, Registered, RunHasItsOwner
<1> QED  BY <1>1, TurnInvariant, PTL

\* While the server is up, a row of a settled call is open only when startRun
\* threw or the write that would have settled the row was refused.
THEOREM RowsAreSettled == Spec => []NoRowLeftOpen
<1>1. Inv => NoRowLeftOpen
  BY DEF Inv, Rows, Admitted, Calls, NoRowLeftOpen, Queue!Free
<1> QED  BY <1>1, TurnInvariant, PTL

\* A steering message that waits is in one place, once: the owner's run, an
\* abandoned entry or a continuation, across the drain, the watchdog, refused
\* writes and a crash.
THEOREM SteeringHasOnePlace == Spec => []SteeringInOnePlace
<1>1. Inv => SteeringInOnePlace
  BY DEF Inv, Registered, Calls, Places, Carriers, SteeringInOnePlace
<1> QED  BY <1>1, TurnInvariant, PTL

\* A steering message is read at most once, and never after it was given up,
\* whatever the client repeats.
THEOREM SteeringIsReadOnce == Spec => SteeringHandledOnce
<1> DEFINE Kept == \A m \in Messages : fate[m] \in {"read", "lost"} => fate'[m] = fate[m]
<1>1. Inv /\ [Next]_vars => [Kept]_vars
  <2> SUFFICES ASSUME Inv, Next, NEW m \in Messages, fate[m] \in {"read", "lost"}
               PROVE  fate'[m] = fate[m]
    OBVIOUS
  <2>1. fate \in [Messages -> Fates] /\ m \notin Range(run.steering)
        /\ \A j \in Jobs : m \notin cargo[j]
    BY DEF Inv, Places, TurnTypes
  <2>2. ASSUME NEW j \in Jobs, startRun(j)
        PROVE  fate'[m] = fate[m]
    BY <2>1, <2>2 DEF startRun, startRunThrows, registers, lose
  <2>3. ASSUME NEW j \in Jobs, HttpSubmit(j) \/ Admit(j) \/ PassDeadline(j)
                \/ \E l \in Queue!RequestedLanes : AgentSubmit(j, l)
        PROVE  fate' = fate
    BY <2>3 DEF HttpSubmit, Admit, Persist, Refuse, PassDeadline, AgentSubmit
  <2>4. ASSUME NEW j \in Jobs, ModelCall(j)
        PROVE  fate'[m] = fate[m]
    BY <2>1, <2>4 DEF ModelCall
  <2>5. ASSUME NEW j \in Jobs, RunnerStep(j)
        PROVE  fate'[m] = fate[m]
    <3>1. CASE Execute(j) \/ ActivationFails(j) \/ TurnAway(j) \/ PersistInput(j)
      BY <2>1, <2>2, <3>1 DEF Execute, ActivationFails, TurnAway, PersistInput, lose
    <3>2. CASE Prepared(j)
      BY <2>1, <3>2 DEF Prepared
    <3>3. ASSUME NEW s, leaves(j, s)
          PROVE  fate'[m] = fate[m]
      BY <2>1, <3>3 DEF leaves, lose
    <3>4. ASSUME NEW k \in Jobs, NEW o \in Outcomes, StreamContinues(j, k, o)
          PROVE  fate'[m] = fate[m]
      BY <2>1, <3>4 DEF StreamContinues
    <3>5. CASE PrepareFails(j) \/ PersistFails(j) \/ \E o \in Outcomes : StreamEnds(j, o)
      BY <3>3, <3>5 DEF PrepareFails, StreamEnds, PersistFails, returns, returnsUnsettled, abandons
    <3> QED  BY <2>5, <3>1, <3>2, <3>4, <3>5 DEF RunnerStep
  <2>6. CASE QueueStep \/ Stop \/ Watchdog \/ Boot
    <3>1. CASE CallRunner
      <4>1. active[Thread] \in Jobs
        BY <3>1, StartCalls, AgentTurnAssumption DEF CallRunner, Inv
      <4> QED  BY <2>2, <3>1, <4>1 DEF CallRunner
    <3> QED  BY <2>6, <3>1 DEF QueueStep, Expire, Leave, Stop, Watchdog, Boot
  <2>7. ASSUME NEW n \in Messages, Steer(n)
        PROVE  fate'[m] = fate[m]
    BY <2>1, <2>7 DEF Steer, alreadyAccepted
  <2>8. CASE Evict \/ Crash
    BY <2>1, <2>8 DEF Evict, Crash, lose
  <2> QED  BY <2>3, <2>4, <2>5, <2>6, <2>7, <2>8 DEF Next
<1> QED  BY <1>1, TurnInvariant, PTL DEF Spec, SteeringHandledOnce

====
