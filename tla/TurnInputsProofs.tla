---- MODULE TurnInputsProofs ----
(***************************************************************************)
(* Theorems about what a turn is given: the tools of the MCP servers       *)
(* (McpTools), the vectors recall compares with (EmbeddingJobs), the recap *)
(* of the rows below the hot window (ContextBoundary) and the messages of  *)
(* bridged chats (BridgeInbound).                                          *)
(***************************************************************************)
EXTENDS McpTools, EmbeddingJobs, ContextBoundary, BridgeInbound, SubsequencesProofs,
        FiniteSetTheorems, TLAPS


----------------------------------------------------------------------------
(* McpTools.                                                               *)

\* A run is of the generation it started in: no later one, an earlier one if
\* its clients were closed, and the servers are still those if it is current.
RunsAreDated ==
    \A r \in Connects :
        /\ connects[r].generation <= generation
        /\ connects[r].clients = "closed" => connects[r].generation < generation
        /\ connects[r].step = "none" => connects[r].clients = "none"
        /\ connects[r].step # "none" /\ connects[r].generation = generation
             => connects[r].key = enabled

McpInv == McpTypeOK /\ RunsAreDated /\ McpToolsAreCurrent

LEMMA RunFields ==
    ASSUME McpAssumption, McpTypeOK
    PROVE  /\ generation \in Nat
           /\ 0 \notin Connects /\ -1 \notin Connects
           /\ \A r \in Connects : /\ connects[r] \in ConnectRuns
                                  /\ connects[r].generation \in Nat
                                  /\ connects[r].gives \in {EmptyTools} \cup Connects
  BY DEF McpAssumption, McpTypeOK, ConnectRuns, Connects

\* Only run r changes.
RunMoves(r) ==
    /\ connects' \in [Connects -> ConnectRuns]
    /\ \A q \in Connects : q # r => connects'[q] = connects[q]

LEMMA RunMoved ==
    ASSUME McpTypeOK, NEW r \in Connects, NEW new \in ConnectRuns,
           connects' = [connects EXCEPT ![r] = new]
    PROVE  RunMoves(r) /\ connects'[r] = new
  BY DEF McpTypeOK, RunMoves

\* McpToolsAreCurrent after a step in which only run r changes, by its fields.
LEMMA OneRunMoves ==
    ASSUME McpAssumption, McpInv, NEW r \in Connects, RunMoves(r),
           UNCHANGED <<enabled, generation, cachedTools, cacheKey, activeClient>>,
           connecting' \in {connecting, NoConnect}
              \/ (connecting' = r /\ connects'[r].generation = generation),
           connects'[r].generation >= connects[r].generation, connects'[r].generation <= generation,
           connects'[r].clients = "closed" => connects[r].clients = "closed",
           cachedTools = r => connects'[r].generation = generation,
           connects'[r].clients = "closed" => connects'[r].generation < generation,
           connects'[r].step = "none" => connects'[r].clients = "none",
           connects'[r].step # "none" /\ connects'[r].generation = generation => connects'[r].key = enabled,
           connects'[r].step \in {"resolved", "settled"} =>
              IF connects'[r].gives = EmptyTools THEN connects'[r].generation < generation
              ELSE IF connects'[r].gives = r THEN TRUE
              ELSE connects[connects'[r].gives].generation >= connects'[r].generation
    PROVE  McpInv'
<1> USE DEF McpInv
<1> DEFINE new == connects'[r]
<1>1. connects' \in [Connects -> ConnectRuns] /\ new \in ConnectRuns
  BY DEF RunMoves
<1>2. McpTypeOK'
  BY <1>1 DEF McpTypeOK, NoConnect
<1>3. /\ connects'[r] = new /\ \A q \in Connects : q # r => connects'[q] = connects[q]
  BY DEF RunMoves
<1>4. RunsAreDated'
  BY <1>3 DEF RunsAreDated
<1>5. \A q \in Connects : /\ connects'[q].generation >= connects[q].generation
                           /\ connects'[q].generation \in Nat /\ connects[q].generation \in Nat
  <2>1. \A q \in Connects : connects'[q] \in ConnectRuns
    BY <1>1
  <2>2. \A q \in Connects : connects'[q].generation \in Nat
    BY <2>1, McpAssumption DEF ConnectRuns, McpAssumption
  <2> QED  BY <1>3, <2>2, RunFields
<1>6. cachedTools \in Connects =>
        connects'[cachedTools].generation = generation /\ connects'[cachedTools].clients # "closed"
  BY <1>3, RunFields DEF McpToolsAreCurrent, RunsAreDated
<1>7. connecting' # NoConnect => connects'[connecting'].generation = generation
  <2>1. CASE connecting' = r /\ new.generation = generation
    BY <1>3, <2>1
  <2>2. CASE connecting' = connecting /\ connecting # NoConnect /\ connecting # r
    BY <1>3, <2>2 DEF McpToolsAreCurrent, McpTypeOK
  <2>3. CASE connecting' = connecting /\ connecting = r /\ connecting # NoConnect
    BY <1>3, <1>5, <2>3, RunFields DEF McpToolsAreCurrent
  <2> QED  BY <2>1, <2>2, <2>3
<1>8. ASSUME NEW q \in Connects, connects'[q].step \in {"resolved", "settled"}
      PROVE  IF connects'[q].gives = EmptyTools THEN connects'[q].generation < generation
             ELSE connects'[connects'[q].gives].generation >= connects'[q].generation
  <2>1. CASE q = r
    <3>1. CASE new.gives = EmptyTools \/ new.gives = r
      BY <1>5, <1>8, <2>1, <3>1, RunFields DEF EmptyTools
    <3>2. CASE new.gives \in Connects /\ new.gives # r
      <4>1. connects[new.gives].generation >= new.generation
        BY <1>8, <2>1, <3>2, RunFields DEF EmptyTools
      <4> QED  BY <1>5, <2>1, <3>2, <4>1, RunFields DEF EmptyTools
    <3> QED  BY <1>1, <3>1, <3>2 DEF ConnectRuns
  <2>2. CASE q # r
    <3>1. connects'[q] = connects[q]
      BY <1>3, <2>2
    <3>2. IF connects[q].gives = EmptyTools THEN connects[q].generation < generation
          ELSE connects[connects[q].gives].generation >= connects[q].generation
      BY <1>8, <3>1 DEF McpToolsAreCurrent
    <3>3. connects[q].gives \in {EmptyTools} \cup Connects
      BY RunFields
    <3> QED  BY <1>5, <3>1, <3>2, <3>3 DEF EmptyTools
  <2> QED  BY <2>1, <2>2
<1> QED  BY <1>2, <1>4, <1>6, <1>7, <1>8 DEF McpToolsAreCurrent

LEMMA GetMcpToolsKeepsInv ==
    ASSUME McpAssumption, McpInv, NEW r \in Connects, GetMcpTools(r)
    PROVE  McpInv'
<1> USE DEF McpInv
<1>1. cachedTools \notin Connects /\ activeClient = NoConnect
  BY RunFields DEF GetMcpTools, cacheHit, McpToolsAreCurrent, McpTypeOK, NoTools, NoConnect
<1>2. CASE enabled = NoServers
  <2>1. /\ cachedTools' = EmptyTools /\ cacheKey' = enabled
        /\ UNCHANGED <<connecting, connects, enabled, generation, activeClient>>
    BY <1>2 DEF GetMcpTools
  <2> QED  BY <1>1, <2>1, RunFields DEF McpTypeOK, RunsAreDated, McpToolsAreCurrent, EmptyTools
<1>3. CASE enabled # NoServers
  <2> DEFINE new == [connects[r] EXCEPT !.step = "connects", !.key = enabled, !.generation = generation]
  <2>1. /\ connecting' = r /\ connects[r].step = "none"
        /\ UNCHANGED <<cachedTools, cacheKey, enabled, generation, activeClient>>
    BY <1>3 DEF GetMcpTools
  <2>2. connects' = [connects EXCEPT ![r] = new]
    BY <1>3 DEF GetMcpTools
  <2>3. /\ new \in ConnectRuns /\ new.step = "connects" /\ new.key = enabled
        /\ new.generation = generation /\ new.clients = connects[r].clients
    <3>1. connects[r] \in ConnectRuns /\ generation \in 0..MaxGenerations /\ enabled \in ServerSets
      BY RunFields DEF McpTypeOK
    <3> QED  BY <3>1 DEF ConnectRuns
  <2> HIDE DEF new
  <2>4. connects[r].clients = "none" /\ connects[r].generation <= generation
    BY <2>1 DEF RunsAreDated
  <2>5. RunMoves(r) /\ connects'[r] = new
    BY <2>2, <2>3, RunMoved
  <2> QED  BY <1>1, <2>1, <2>3, <2>4, <2>5, RunFields, OneRunMoves
<1> QED  BY <1>2, <1>3

LEMMA ConnectedKeepsInv ==
    ASSUME McpAssumption, McpInv, NEW r \in Connects, Connected(r)
    PROVE  McpInv'
<1> DEFINE new == [connects[r] EXCEPT !.clients = "open"]
<1> USE DEF McpInv
<1>1. /\ connects[r].step = "connects" /\ connects' = [connects EXCEPT ![r] = new]
      /\ UNCHANGED <<enabled, generation, cachedTools, cacheKey, connecting, activeClient>>
  BY DEF Connected
<1>2. /\ new \in ConnectRuns /\ new.step = "connects" /\ new.clients = "open"
      /\ new.generation = connects[r].generation /\ new.key = connects[r].key
  BY <1>1, RunFields DEF ConnectRuns
<1> HIDE DEF new
<1>3. /\ connects[r].generation <= generation
      /\ connects[r].generation = generation => connects[r].key = enabled
      /\ cachedTools = r => connects[r].generation = generation
  BY <1>1 DEF RunsAreDated, McpToolsAreCurrent
<1>4. RunMoves(r) /\ connects'[r] = new
  BY <1>1, <1>2, RunMoved
<1> QED  BY <1>1, <1>2, <1>3, <1>4, RunFields, OneRunMoves

LEMMA CallerSettlesKeepsInv ==
    ASSUME McpAssumption, McpInv, NEW r \in Connects, CallerSettles(r)
    PROVE  McpInv'
<1> DEFINE new == [connects[r] EXCEPT !.step = "settled"]
<1> USE DEF McpInv
<1>1. /\ connects[r].step = "resolved" /\ connects' = [connects EXCEPT ![r] = new]
      /\ connecting' = NoConnect
      /\ UNCHANGED <<enabled, generation, cachedTools, cacheKey, activeClient>>
  BY DEF CallerSettles
<1>2. /\ new \in ConnectRuns /\ new.step = "settled" /\ new.clients = connects[r].clients
      /\ new.generation = connects[r].generation /\ new.key = connects[r].key
      /\ new.gives = connects[r].gives
  BY <1>1, RunFields DEF ConnectRuns
<1> HIDE DEF new
<1>3. /\ connects[r].generation <= generation
      /\ connects[r].clients = "closed" => connects[r].generation < generation
      /\ connects[r].generation = generation => connects[r].key = enabled
      /\ cachedTools = r => connects[r].generation = generation
      /\ IF connects[r].gives = EmptyTools THEN connects[r].generation < generation
         ELSE connects[connects[r].gives].generation >= connects[r].generation
  BY <1>1 DEF RunsAreDated, McpToolsAreCurrent
<1>4. RunMoves(r) /\ connects'[r] = new
  BY <1>1, <1>2, RunMoved
<1> QED  BY <1>1, <1>2, <1>3, <1>4, RunFields, OneRunMoves

LEMMA ConnectEndsKeepsInv ==
    ASSUME McpAssumption, McpInv, NEW r \in Connects, ConnectEnds(r)
    PROVE  McpInv'
<1> DEFINE cached == IF cachedTools = NoTools THEN EmptyTools ELSE cachedTools
           gives == IF superseded(r) THEN cached ELSE r
           new == [connects[r] EXCEPT !.step = "resolved", !.gives = gives]
<1> USE DEF McpInv
<1>1. /\ connects[r].step = "connects" /\ connects' = [connects EXCEPT ![r] = new]
      /\ UNCHANGED <<enabled, generation, connecting>>
  BY DEF ConnectEnds
<1>2. gives \in {EmptyTools} \cup Connects
  BY DEF McpTypeOK
<1>3. /\ new \in ConnectRuns /\ new.step = "resolved" /\ new.clients = connects[r].clients
      /\ new.generation = connects[r].generation /\ new.key = connects[r].key
      /\ new.gives = gives
  <2>1. connects[r] \in ConnectRuns
    BY RunFields
  <2> HIDE DEF gives
  <2> QED  BY <1>2, <2>1 DEF ConnectRuns
<1> HIDE DEF new
<1>4. /\ connects[r].generation <= generation
      /\ connects[r].clients = "closed" => connects[r].generation < generation
      /\ connects[r].generation = generation => connects[r].key = enabled
      /\ cachedTools \in Connects => connects[cachedTools].generation = generation
  BY <1>1 DEF RunsAreDated, McpToolsAreCurrent
<1>5. CASE superseded(r)
  <2>1. UNCHANGED <<cachedTools, cacheKey, activeClient>> /\ gives = cached
    BY <1>5 DEF ConnectEnds
  <2>2. connects[r].generation < generation
    BY <1>4, <1>5, RunFields DEF superseded
  <2>3. gives # EmptyTools => gives = cachedTools /\ cachedTools \in Connects
    BY <1>2, <2>1
  <2> HIDE DEF gives
  <2>4. /\ cachedTools = r => connects[r].generation = generation
        /\ gives # EmptyTools => connects[gives].generation = generation
    BY <1>4, <2>3
  <2>5. RunMoves(r) /\ connects'[r] = new
    BY <1>1, <1>3, RunMoved
  <2> QED  BY <1>1, <1>3, <1>4, <2>1, <2>2, <2>4, <2>5, RunFields, OneRunMoves
<1>6. CASE ~superseded(r)
  <2>1. cachedTools' = r /\ cacheKey' = connects[r].key /\ activeClient' = r /\ gives = r
    BY <1>6 DEF ConnectEnds
  <2> HIDE DEF gives
  <2>2. connects[r].generation = generation
    BY <1>6 DEF superseded
  <2>3. /\ connects' \in [Connects -> ConnectRuns]
        /\ connects'[r] = new /\ \A q \in Connects : q # r => connects'[q] = connects[q]
    BY <1>1, <1>3 DEF McpTypeOK
  <2>4. McpTypeOK'
    BY <1>1, <2>1, <2>3, RunFields DEF McpTypeOK, ConnectRuns
  <2>5. RunsAreDated'
    BY <1>1, <1>3, <2>3 DEF RunsAreDated
  <2>6. \A q \in Connects : connects'[q].generation = connects[q].generation
    BY <1>3, <2>3
  <2>7. ASSUME NEW q \in Connects, connects'[q].step \in {"resolved", "settled"}
        PROVE  IF connects'[q].gives = EmptyTools THEN connects'[q].generation < generation
               ELSE connects'[connects'[q].gives].generation >= connects'[q].generation
    <3>1. CASE q = r
      BY <1>3, <2>1, <2>3, <2>6, <3>1, RunFields DEF EmptyTools
    <3>2. CASE q # r
      BY <2>3, <2>6, <2>7, <3>2, RunFields DEF McpToolsAreCurrent
    <3> QED  BY <3>1, <3>2
  <2>8. connecting' # NoConnect => connects'[connecting'].generation = generation
    BY <1>1, <2>6 DEF McpToolsAreCurrent, McpTypeOK
  <2> QED  BY <1>1, <1>3, <1>4, <2>1, <2>2, <2>3, <2>4, <2>5, <2>7, <2>8, RunFields
           DEF McpToolsAreCurrent
<1> QED  BY <1>5, <1>6

LEMMA EditServersKeepsInv ==
    ASSUME McpAssumption, McpInv, NEW s \in ServerSets, EditServers(s)
    PROVE  McpInv'
<1> USE DEF McpInv
<1>1. /\ enabled' = s /\ generation' = generation + 1 /\ generation < MaxGenerations
      /\ cachedTools' = NoTools /\ cacheKey' = NoServers
      /\ connecting' = NoConnect /\ activeClient' = NoConnect
      /\ DOMAIN connects' = Connects
      /\ connects' = [r \in Connects |-> connects'[r]]
  BY DEF EditServers
<1>2. ASSUME NEW r \in Connects
      PROVE  /\ connects'[r] \in ConnectRuns
             /\ connects'[r].step = connects[r].step
             /\ connects'[r].generation = connects[r].generation
             /\ connects'[r].gives = connects[r].gives
             /\ connects'[r].clients = connects[r].clients \/ connects[r].clients = "open"
  BY RunFields DEF EditServers, ConnectRuns
<1>3. McpTypeOK'
  BY <1>1, <1>2, RunFields DEF McpTypeOK, McpAssumption, NoTools
<1>4. RunsAreDated'
  BY <1>1, <1>2, RunFields DEF RunsAreDated
<1>5. ASSUME NEW q \in Connects, connects'[q].step \in {"resolved", "settled"}
      PROVE  IF connects'[q].gives = EmptyTools THEN connects'[q].generation < generation'
             ELSE connects'[connects'[q].gives].generation >= connects'[q].generation
  BY <1>1, <1>2, <1>5, RunFields DEF McpToolsAreCurrent
<1> QED  BY <1>1, <1>3, <1>4, <1>5, RunFields DEF McpToolsAreCurrent, NoTools

LEMMA McpStays == McpInv /\ UNCHANGED mcpVars => McpInv'
  BY DEF mcpVars, McpInv, McpTypeOK, RunsAreDated, McpToolsAreCurrent

LEMMA McpInvHolds == McpSpec => []McpInv
<1>1. McpInit => McpInv
  <2> SUFFICES ASSUME McpInit
               PROVE  McpInv
    OBVIOUS
  <2>1. NotStarted \in ConnectRuns /\ NotStarted.step = "none" /\ NotStarted.clients = "none"
        /\ NotStarted.generation = 0
    BY McpAssumption DEF NotStarted, ConnectRuns, McpAssumption
  <2>2. generation = 0 /\ MaxGenerations \in Nat
    BY McpAssumption DEF McpInit, McpAssumption
  <2>3. \A r \in Connects : connects[r] = NotStarted
    BY DEF McpInit
  <2>4. McpTypeOK
    BY <2>1, <2>2, McpAssumption DEF McpInit, McpTypeOK, McpAssumption
  <2> QED  BY <2>1, <2>2, <2>3, <2>4, RunFields, McpAssumption
           DEF McpInit, McpInv, RunsAreDated, McpToolsAreCurrent, NoTools
<1>2. McpInv /\ [McpNext]_mcpVars => McpInv'
  BY McpAssumption, GetMcpToolsKeepsInv, ConnectedKeepsInv, ConnectEndsKeepsInv,
     CallerSettlesKeepsInv, EditServersKeepsInv, McpStays DEF McpNext
<1> QED  BY <1>1, <1>2, PTL DEF McpSpec

\* The cache of tools and the runs that fill it have their types.
THEOREM McpIsTyped == McpSpec => []McpTypeOK
<1>1. McpInv => McpTypeOK
  BY DEF McpInv
<1> QED  BY <1>1, McpInvHolds, PTL

\* The cache of MCP tools is one of the servers as they are: a connecting run
\* that an edit overtook never installs its tools, its callers never share it,
\* and the active clients are those of the cached tools and still open.
THEOREM ToolsAreCurrent == McpSpec => []McpToolsAreCurrent
<1>1. McpInv => McpToolsAreCurrent
  BY DEF McpInv
<1> QED  BY <1>1, McpInvHolds, PTL

----------------------------------------------------------------------------
(* EmbeddingJobs.                                                          *)

\* VectorsAreTrue for one row and its job, with what it rests on: only final
\* rows have a vector, and then their job has the hash of their text.
TrueAt(row, job) ==
    /\ row.vector # NoVector =>
         /\ row.vector.text = row.text /\ row.vector.model = job.model
         /\ row.status = "final" /\ job.hash = row.text
    /\ isOpen(job) => row.status = "final" /\ row.text = job.hash /\ row.text # NoText

RowsAreTrue == \A m \in Indexed : TrueAt(msgRows[m], jobs[m])

CacheIsTrue == cache.loaded => \A m \in Indexed : cache.vectors[m] = msgRows[m].vector

EmbeddingInv == EmbeddingTypeOK /\ RowsAreTrue /\ CacheIsTrue

Caches == [loaded : BOOLEAN, vectors : [Indexed -> Vectors]]
Workers == [phase : {"idle", "embeds", "ends"}, batch : [Indexed -> Hashes], model : Signatures]

\* enqueueMessageEmbeddingJob: the job has the text's hash, is skipped where
\* there is nothing to embed, and keeps its model while the text is the same.
LEMMA QueuedAgain ==
    ASSUME NEW j \in JobRows, NEW text \in Hashes, NEW attempted \in Signatures
    PROVE  /\ queuedAgain(j, text, attempted) \in JobRows
           /\ queuedAgain(j, text, attempted).hash = text
           /\ queuedAgain(j, text, attempted).model = IF j.hash = text THEN j.model ELSE NoModel
           /\ isOpen(queuedAgain(j, text, attempted)) <=> text # NoText
  BY DEF queuedAgain, JobRows, Signatures, isOpen

\* A final row whose text is stored anew, without a vector or with the one it
\* had of the same text, and the job queued for it.
LEMMA RequeuedIsTrue ==
    ASSUME NEW row \in MessageRows, NEW job \in JobRows, TrueAt(row, job),
           NEW new \in MessageRows, NEW attempted \in Signatures,
           new.status = "final",
           new.vector = NoVector \/ (new.vector = row.vector /\ new.text = row.text)
    PROVE  TrueAt(new, queuedAgain(job, new.text, attempted))
<1>1. new.text \in Hashes
  BY DEF MessageRows
<1> QED  BY <1>1, QueuedAgain DEF TrueAt

LEMMA NoVectorTyped ==
    /\ NoVector \in Vectors /\ NoText \in Hashes /\ NoModel \in Signatures
    /\ NoJob \in JobRows /\ ~isOpen(NoJob)
    /\ NotLoaded \in Caches /\ ~NotLoaded.loaded
    /\ Waits \in Workers /\ [Waits EXCEPT !.phase = "ends"] \in Workers
  BY DEF Vectors, Hashes, Signatures, NoJob, JobRows, isOpen, NotLoaded, Caches, Waits, Workers,
         NoBatch

LEMMA EmbeddingTypes ==
    EmbeddingTypeOK <=>
       /\ msgRows \in [Indexed -> MessageRows]
       /\ jobs \in [Indexed -> JobRows]
       /\ cache \in Caches
       /\ worker \in Workers
       /\ {kicked, timer} \subseteq BOOLEAN
       /\ reembed \in {"idle", "memories", "messages"}
       /\ active \in Signatures
       /\ events \in 0..MaxEvents
  BY DEF EmbeddingTypeOK, Caches, Workers

\* A claim changes no hash and no model, and claims only what is open.
LEMMA DrainKeeps ==
    ASSUME NEW js \in [Indexed -> JobRows], active \in Signatures, drainLoop(js)
    PROVE  /\ jobs' \in [Indexed -> JobRows] /\ worker' \in Workers /\ timer' \in BOOLEAN
           /\ \A m \in Indexed : \A row : TrueAt(row, js[m]) => TrueAt(row, jobs'[m])
<1> DEFINE due == {m \in Indexed : isOpen(js[m]) /\ js[m].due}
<1>1. jobs' = [m \in Indexed |->
          IF m \in due THEN [js[m] EXCEPT !.state = "processing", !.due = FALSE] ELSE js[m]]
  BY DEF drainLoop
<1>2. ASSUME NEW m \in Indexed
      PROVE  /\ jobs'[m] \in JobRows
             /\ jobs'[m].hash = js[m].hash /\ jobs'[m].model = js[m].model
             /\ isOpen(jobs'[m]) <=> isOpen(js[m])
  <2>1. js[m] \in JobRows
    OBVIOUS
  <2> QED  BY <1>1, <2>1 DEF JobRows, isOpen
<1>3. CASE due # {}
  <2> DEFINE batch == [m \in Indexed |-> IF m \in due THEN js[m].hash ELSE NoText]
  <2>1. worker' = [phase |-> "embeds", model |-> active, batch |-> batch] /\ timer' = FALSE
    BY <1>3 DEF drainLoop
  <2>2. batch \in [Indexed -> Hashes]
    BY DEF JobRows, Hashes
  <2> HIDE DEF batch
  <2>3. worker' \in Workers
    BY <2>1, <2>2 DEF Workers
  <2> QED  BY <1>1, <1>2, <2>1, <2>3 DEF TrueAt
<1>4. CASE due = {}
  <2>1. worker' \in Workers /\ timer' \in BOOLEAN
    BY <1>4, NoVectorTyped DEF drainLoop
  <2> QED  BY <1>1, <1>2, <2>1 DEF TrueAt
<1> QED  BY <1>3, <1>4

LEMMA ProcessKeeps ==
    ASSUME EmbeddingTypeOK, NEW js \in [Indexed -> JobRows], process(js)
    PROVE  /\ jobs' \in [Indexed -> JobRows] /\ worker' \in Workers /\ timer' \in BOOLEAN
           /\ \A m \in Indexed : \A row : TrueAt(row, js[m]) => TrueAt(row, jobs'[m])
<1>1. active \in Signatures /\ worker \in Workers /\ timer \in BOOLEAN
  BY EmbeddingTypes
<1>2. CASE worker.phase = "idle"
  BY <1>1, <1>2, DrainKeeps DEF process
<1>3. CASE worker.phase # "idle"
  BY <1>1, <1>3 DEF process
<1> QED  BY <1>2, <1>3

\* A row becomes final or is written again: written.
LEMMA WrittenKeepsInv ==
    ASSUME EmbeddingInv, NEW m \in Indexed, NEW text \in Hashes, NEW changed \in BOOLEAN,
           written(m, text, changed),
           ~changed => msgRows[m].vector = NoVector \/ msgRows[m].text = text,
           UNCHANGED <<worker, timer, reembed, active>>, events' \in 0..MaxEvents
    PROVE  EmbeddingInv'
<1> DEFINE row == msgRows[m]
           new == [row EXCEPT !.status = "final", !.text = text,
                              !.vector = IF changed THEN NoVector ELSE row.vector]
<1>1. /\ msgRows \in [Indexed -> MessageRows] /\ jobs \in [Indexed -> JobRows] /\ cache \in Caches
      /\ worker \in Workers /\ timer \in BOOLEAN /\ reembed \in {"idle", "memories", "messages"}
      /\ active \in Signatures /\ TrueAt(row, jobs[m])
  BY EmbeddingTypes DEF EmbeddingInv, RowsAreTrue
<1>2. /\ msgRows' = [msgRows EXCEPT ![m] = new]
      /\ jobs' = [jobs EXCEPT ![m] = queuedAgain(jobs[m], text, NoModel)]
      /\ cache' = (IF changed THEN NotLoaded ELSE cache) /\ kicked' = TRUE
  BY DEF written, cacheAfter
<1>3. /\ new \in MessageRows /\ new.status = "final" /\ new.text = text
      /\ new.vector = IF changed THEN NoVector ELSE row.vector
  <2>1. row \in MessageRows
    BY <1>1
  <2> HIDE DEF row
  <2> QED  BY <2>1, NoVectorTyped DEF MessageRows
<1> HIDE DEF new
<1>4. queuedAgain(jobs[m], text, NoModel) \in JobRows
  BY <1>1, QueuedAgain, NoVectorTyped
<1>5. TrueAt(new, queuedAgain(jobs[m], text, NoModel))
  BY <1>1, <1>3, RequeuedIsTrue, NoVectorTyped
<1>6. EmbeddingTypeOK'
  BY <1>1, <1>2, <1>3, <1>4, NoVectorTyped, EmbeddingTypes DEF EmbeddingTypeOK, Caches, Workers
<1>7. RowsAreTrue'
  BY <1>1, <1>2, <1>5 DEF EmbeddingInv, RowsAreTrue
<1>8. CacheIsTrue'
  BY <1>1, <1>2, <1>3, NoVectorTyped DEF EmbeddingInv, CacheIsTrue
<1> QED  BY <1>6, <1>7, <1>8 DEF EmbeddingInv

\* A step that leaves the rows' vectors, the cache and the events alone, and
\* under which every row stays true to its job.
LEMMA JobsMoveKeepsInv ==
    ASSUME EmbeddingInv, UNCHANGED msgRows, jobs' \in [Indexed -> JobRows], worker' \in Workers,
           {kicked', timer'} \subseteq BOOLEAN, reembed' \in {"idle", "memories", "messages"},
           active' \in Signatures, events' \in 0..MaxEvents,
           cache' \in Caches, CacheIsTrue',
           \A m \in Indexed : TrueAt(msgRows[m], jobs[m]) => TrueAt(msgRows[m], jobs'[m])
    PROVE  EmbeddingInv'
<1>1. EmbeddingTypeOK'
  BY EmbeddingTypes DEF EmbeddingInv, EmbeddingTypeOK, Caches, Workers
<1>2. RowsAreTrue'
  BY DEF EmbeddingInv, RowsAreTrue
<1> QED  BY <1>1, <1>2 DEF EmbeddingInv

\* The variables of the invariant, typed.
LEMMA EmbeddingFacts ==
    ASSUME EmbeddingInv
    PROVE  /\ msgRows \in [Indexed -> MessageRows] /\ jobs \in [Indexed -> JobRows]
           /\ cache \in Caches /\ worker \in Workers /\ kicked \in BOOLEAN /\ timer \in BOOLEAN
           /\ reembed \in {"idle", "memories", "messages"} /\ active \in Signatures
           /\ events \in 0..MaxEvents /\ MaxEvents \in Nat
           /\ \A m \in Indexed : TrueAt(msgRows[m], jobs[m])
           /\ CacheIsTrue
  BY EmbeddingTypes, EmbeddingAssumption DEF EmbeddingInv, RowsAreTrue

LEMMA AddMessageRowKeepsInv ==
    ASSUME EmbeddingInv, NEW m \in Indexed, NEW text \in Hashes,
           NEW status \in {"draft", "checking", "final"}, AddMessageRow(m, status, text)
    PROVE  EmbeddingInv'
<1>1. /\ msgRows \in [Indexed -> MessageRows] /\ events \in 0..MaxEvents
      /\ TrueAt(msgRows[m], jobs[m]) /\ msgRows[m].status = "unborn"
  BY EmbeddingFacts DEF AddMessageRow
<1>2. msgRows[m].vector = NoVector /\ ~isOpen(jobs[m])
  BY <1>1 DEF TrueAt
<1>3. CASE status = "final"
  BY <1>1, <1>2, <1>3, WrittenKeepsInv DEF AddMessageRow
<1>4. CASE status # "final"
  <2> DEFINE new == [msgRows[m] EXCEPT !.status = status]
  <2>1. /\ msgRows' = [msgRows EXCEPT ![m] = new]
        /\ UNCHANGED <<jobs, cache, kicked, worker, timer, reembed, active, events>>
    BY <1>4 DEF AddMessageRow
  <2>2. new \in MessageRows /\ new.vector = NoVector
    <3>1. msgRows[m] \in MessageRows
      BY <1>1
    <3> QED  BY <1>2, <3>1 DEF MessageRows
  <2> HIDE DEF new
  <2>3. TrueAt(new, jobs[m])
    BY <1>2, <2>2 DEF TrueAt
  <2>4. EmbeddingTypeOK'
    BY <1>1, <2>1, <2>2 DEF EmbeddingInv, EmbeddingTypeOK
  <2>5. RowsAreTrue' /\ CacheIsTrue'
    BY <1>1, <1>2, <2>1, <2>2, <2>3 DEF EmbeddingInv, RowsAreTrue, CacheIsTrue
  <2> QED  BY <2>4, <2>5 DEF EmbeddingInv
<1> QED  BY <1>3, <1>4

LEMMA FinishMessageKeepsInv ==
    ASSUME EmbeddingInv, NEW m \in Indexed, NEW text \in Hashes, NEW changed \in BOOLEAN,
           FinishMessage(m, text, changed)
    PROVE  EmbeddingInv'
<1>1. events \in 0..MaxEvents /\ msgRows[m].vector = NoVector
  BY EmbeddingFacts DEF FinishMessage, TrueAt
<1> QED  BY <1>1, WrittenKeepsInv DEF FinishMessage

LEMMA EditMessageKeepsInv ==
    ASSUME EmbeddingInv, NEW m \in Indexed, NEW text \in Hashes, NEW changed \in BOOLEAN,
           EditMessage(m, text, changed)
    PROVE  EmbeddingInv'
<1>1. events' \in 0..MaxEvents
  BY EmbeddingFacts DEF EditMessage, Disturbs
<1> QED  BY <1>1, WrittenKeepsInv DEF EditMessage

\* The job goes with its message, and so does the cache.
LEMMA DeleteMessageKeepsInv ==
    ASSUME EmbeddingInv, NEW m \in Indexed, DeleteMessage(m)
    PROVE  EmbeddingInv'
<1> DEFINE gone == [status |-> "gone", text |-> NoText, vector |-> NoVector]
<1>1. /\ msgRows' = [msgRows EXCEPT ![m] = gone] /\ jobs' = [jobs EXCEPT ![m] = NoJob]
      /\ cache' = NotLoaded /\ UNCHANGED <<worker, kicked, timer, reembed, active, events>>
  BY DEF DeleteMessage
<1>2. gone \in MessageRows /\ gone.vector = NoVector
  BY NoVectorTyped DEF MessageRows
<1>3. TrueAt(gone, NoJob)
  BY <1>2, NoVectorTyped DEF TrueAt
<1> HIDE DEF gone
<1>4. EmbeddingTypeOK'
  BY <1>1, <1>2, NoVectorTyped DEF EmbeddingInv, EmbeddingTypeOK, Caches
<1>5. RowsAreTrue' /\ CacheIsTrue'
  BY <1>1, <1>3, EmbeddingFacts, NoVectorTyped DEF RowsAreTrue, CacheIsTrue
<1> QED  BY <1>4, <1>5 DEF EmbeddingInv

\* Kick, RetryTimer and MemoriesDone call the worker; WorkerEnds, DelayPasses
\* and SetModel touch no hash, no model of a job and no row.
LEMMA WorkerStepsKeepInv ==
    ASSUME EmbeddingInv,
           \/ Kick \/ RetryTimer \/ WorkerEnds
           \/ \E embedded \in BOOLEAN : MemoriesDone(embedded)
           \/ \E m \in Indexed : DelayPasses(m)
           \/ \E model \in Signatures : SetModel(model)
    PROVE  EmbeddingInv'
<1>1. EmbeddingTypeOK
  BY DEF EmbeddingInv
<1>2. CASE Kick \/ RetryTimer
  <2>1. /\ process(jobs) /\ UNCHANGED <<msgRows, cache, reembed, active, events>>
        /\ kicked' \in BOOLEAN
    BY <1>2, EmbeddingFacts DEF Kick, RetryTimer
  <2>2. /\ jobs' \in [Indexed -> JobRows] /\ worker' \in Workers /\ timer' \in BOOLEAN
        /\ \A m \in Indexed : \A row : TrueAt(row, jobs[m]) => TrueAt(row, jobs'[m])
    BY <1>1, <2>1, EmbeddingFacts, ProcessKeeps
  <2>3. CacheIsTrue'
    BY <2>1, EmbeddingFacts DEF CacheIsTrue
  <2> QED  BY <2>1, <2>2, <2>3, EmbeddingFacts, JobsMoveKeepsInv
<1>3. CASE WorkerEnds
  <2>1. /\ worker' \in Workers /\ reembed' \in {"idle", "memories", "messages"}
        /\ UNCHANGED <<msgRows, jobs, cache, kicked, timer, active, events>>
    BY <1>3, EmbeddingFacts, NoVectorTyped DEF WorkerEnds
  <2>2. CacheIsTrue'
    BY <2>1, EmbeddingFacts DEF CacheIsTrue
  <2> QED  BY <2>1, <2>2, EmbeddingFacts, JobsMoveKeepsInv
<1>4. ASSUME NEW embedded \in BOOLEAN, MemoriesDone(embedded)
      PROVE  EmbeddingInv'
  <2>1. UNCHANGED <<msgRows, cache, kicked, active, events>> /\ CacheIsTrue'
    BY <1>4, EmbeddingFacts DEF MemoriesDone, CacheIsTrue
  <2>2. CASE embedded
    <3>1. process(jobs) /\ reembed' = "messages"
      BY <1>4, <2>2 DEF MemoriesDone
    <3>2. /\ jobs' \in [Indexed -> JobRows] /\ worker' \in Workers /\ timer' \in BOOLEAN
          /\ \A m \in Indexed : \A row : TrueAt(row, jobs[m]) => TrueAt(row, jobs'[m])
      BY <1>1, <3>1, EmbeddingFacts, ProcessKeeps
    <3> QED  BY <2>1, <3>1, <3>2, EmbeddingFacts, JobsMoveKeepsInv
  <2>3. CASE ~embedded
    <3>1. reembed' = "idle" /\ UNCHANGED <<jobs, worker, timer>>
      BY <1>4, <2>3 DEF MemoriesDone
    <3> QED  BY <2>1, <3>1, EmbeddingFacts, JobsMoveKeepsInv
  <2> QED  BY <2>2, <2>3
<1>5. ASSUME NEW d \in Indexed, DelayPasses(d)
      PROVE  EmbeddingInv'
  <2> DEFINE late == [jobs[d] EXCEPT !.due = TRUE]
  <2>1. /\ jobs' = [jobs EXCEPT ![d] = late] /\ CacheIsTrue'
        /\ UNCHANGED <<msgRows, cache, worker, kicked, timer, reembed, active, events>>
    BY <1>5, EmbeddingFacts DEF DelayPasses, CacheIsTrue
  <2>2. /\ late \in JobRows /\ late.hash = jobs[d].hash /\ late.model = jobs[d].model
        /\ late.state = jobs[d].state
    <3>1. jobs[d] \in JobRows
      BY EmbeddingFacts
    <3> QED  BY <3>1 DEF JobRows
  <2> HIDE DEF late
  <2>3. jobs' \in [Indexed -> JobRows]
    BY <2>1, <2>2, EmbeddingFacts
  <2>4. \A m \in Indexed : TrueAt(msgRows[m], jobs[m]) => TrueAt(msgRows[m], jobs'[m])
    BY <2>1, <2>2, EmbeddingFacts DEF TrueAt, isOpen
  <2> QED  BY <2>1, <2>3, <2>4, EmbeddingFacts, JobsMoveKeepsInv
<1>6. ASSUME NEW model \in Signatures, SetModel(model)
      PROVE  EmbeddingInv'
  <2>1. /\ active' \in Signatures /\ events' \in 0..MaxEvents /\ CacheIsTrue'
        /\ UNCHANGED <<msgRows, jobs, cache, worker, kicked, timer, reembed>>
    BY <1>6, EmbeddingFacts DEF SetModel, Disturbs, CacheIsTrue
  <2> QED  BY <2>1, EmbeddingFacts, JobsMoveKeepsInv
<1> QED  BY <1>2, <1>3, <1>4, <1>5, <1>6

\* completeMessageEmbeddingJob and failMessageEmbeddingJob leave a job true to
\* its row, and to the row with the new vector if that is stored.
LEMMA SettledIsTrue ==
    ASSUME EmbeddingInv, NEW m \in Indexed, NEW o \in EmbedOutcomes
    PROVE  /\ settled(m, o) \in JobRows
           /\ ~(o = "vector" /\ ~resultOutdated(m)) => TrueAt(msgRows[m], settled(m, o))
           /\ o = "vector" /\ ~resultOutdated(m) =>
                /\ msgRows[m].status = "final" /\ msgRows[m].text = worker.batch[m]
                /\ settled(m, o).hash = worker.batch[m] /\ settled(m, o).model = worker.model
                /\ ~isOpen(settled(m, o))
<1> DEFINE j == jobs[m]
           row == msgRows[m]
<1>1. /\ row \in MessageRows /\ j \in JobRows /\ TrueAt(row, j)
      /\ worker.model \in Signatures /\ NoModel \in Signatures /\ row.text \in Hashes
  BY EmbeddingFacts, NoVectorTyped DEF Workers, MessageRows
<1>2. CASE o = "vector" /\ ~resultOutdated(m)
  <2>1. settled(m, o) = [j EXCEPT !.state = "done", !.model = worker.model,
                                  !.attempted = worker.model, !.due = FALSE]
    BY <1>2 DEF settled
  <2>2. j.state = "processing" /\ j.hash = worker.batch[m] /\ row.text = worker.batch[m]
    BY <1>2 DEF resultOutdated
  <2>3. row.status = "final"
    BY <1>1, <2>2 DEF TrueAt, isOpen
  <2> HIDE DEF j, row
  <2>4. /\ settled(m, o) \in JobRows /\ settled(m, o).hash = j.hash
        /\ settled(m, o).model = worker.model /\ settled(m, o).state = "done"
    BY <1>1, <2>1 DEF JobRows
  <2>5. ~isOpen(settled(m, o))
    BY <2>4 DEF isOpen
  <2> QED  BY <1>2, <2>2, <2>3, <2>4, <2>5 DEF j, row
<1>3. CASE o = "vector" /\ resultOutdated(m) /\ j.state = "processing"
  <2>1. settled(m, o) = queuedAgain(j, row.text, NoModel)
    BY <1>3 DEF settled
  <2>2. row.status = "final"
    BY <1>1, <1>3 DEF TrueAt, isOpen
  <2>3. TrueAt(row, queuedAgain(j, row.text, NoModel)) /\ queuedAgain(j, row.text, NoModel) \in JobRows
    BY <1>1, <2>2, RequeuedIsTrue, QueuedAgain
  <2> QED  BY <1>3, <2>1, <2>3
<1>4. CASE o \in {"retry", "never"} /\ j.state = "processing" /\ j.hash = worker.batch[m]
  <2>1. settled(m, o) = [j EXCEPT !.state = IF o = "never" THEN "failed" ELSE "pending", !.due = FALSE,
                                  !.attempted = IF worker.model = NoModel THEN j.attempted ELSE worker.model]
    BY <1>4 DEF settled
  <2>2. isOpen(j)
    BY <1>4 DEF isOpen
  <2> HIDE DEF j, row
  <2>3. /\ settled(m, o) \in JobRows /\ settled(m, o).hash = j.hash
        /\ settled(m, o).model = j.model
    BY <1>1, <2>1 DEF JobRows
  <2>4. TrueAt(row, settled(m, o))
    BY <1>1, <2>2, <2>3 DEF TrueAt
  <2> QED  BY <1>4, <2>3, <2>4 DEF row
<1>5. CASE /\ ~(o = "vector" /\ ~resultOutdated(m)) /\ ~(o = "vector" /\ j.state = "processing")
           /\ ~(o \in {"retry", "never"} /\ j.state = "processing" /\ j.hash = worker.batch[m])
  <2>1. settled(m, o) = j
    BY <1>5 DEF settled
  <2> QED  BY <1>1, <1>5, <2>1
<1> QED  BY <1>2, <1>3, <1>4, <1>5

\* The answers of a batch: what is stored is of the row's text, and the cache
\* has it too.
LEMMA EmbedReturnsKeepsInv ==
    ASSUME EmbeddingInv, NEW outcome \in [Claimed -> EmbedOutcomes], EmbedReturns(outcome)
    PROVE  EmbeddingInv'
<1> DEFINE vector(m) == [text |-> worker.batch[m], model |-> worker.model]
           stored == {m \in Claimed : outcome[m] = "vector" /\ ~resultOutdated(m)}
           after == [m \in Indexed |-> IF m \in Claimed THEN settled(m, outcome[m]) ELSE jobs[m]]
<1>1. /\ msgRows' = [m \in Indexed |->
              IF m \in stored THEN [msgRows[m] EXCEPT !.vector = vector(m)] ELSE msgRows[m]]
      /\ cache' = IF cache.loaded
           THEN [cache EXCEPT !.vectors = [m \in Indexed |-> IF m \in stored THEN vector(m) ELSE cache.vectors[m]]]
           ELSE cache
      /\ \/ /\ jobs' = after /\ worker' = [Waits EXCEPT !.phase = "ends"]
            /\ timer' = \E m \in Indexed : isOpen(after[m])
         \/ drainLoop(after)
      /\ UNCHANGED <<kicked, reembed, active, events>>
      /\ worker.model = NoModel => \A m \in Claimed : outcome[m] # "vector"
  BY DEF EmbedReturns
<1>2. ASSUME NEW m \in stored
      PROVE  /\ m \in Indexed /\ m \in Claimed /\ outcome[m] = "vector" /\ ~resultOutdated(m)
             /\ vector(m) \in Vectors
             /\ vector(m).text = worker.batch[m] /\ vector(m).model = worker.model
  <2>1. /\ m \in Indexed /\ worker.batch[m] # NoText /\ worker.batch[m] \in Hashes
        /\ worker.model \in Models
    BY <1>1, EmbeddingFacts DEF Claimed, Workers, Signatures
  <2>2. worker.batch[m] \in EmbedTexts
    BY <2>1 DEF Hashes
  <2> QED  BY <2>1, <2>2 DEF Vectors
<1> HIDE DEF vector
<1>3. ASSUME NEW m \in Indexed
      PROVE  after[m] \in JobRows
  <2>1. CASE m \in Claimed
    BY <2>1, SettledIsTrue
  <2>2. CASE m \notin Claimed
    BY <2>2, EmbeddingFacts
  <2> QED  BY <2>1, <2>2
<1>4. ASSUME NEW m \in Indexed
      PROVE  /\ msgRows'[m] \in MessageRows /\ TrueAt(msgRows'[m], after[m])
             /\ msgRows'[m].vector = IF m \in stored THEN vector(m) ELSE msgRows[m].vector
  <2>1. msgRows[m] \in MessageRows /\ TrueAt(msgRows[m], jobs[m])
    BY EmbeddingFacts
  <2>2. CASE m \in stored
    <3> DEFINE new == [msgRows[m] EXCEPT !.vector = vector(m)]
    <3>1. msgRows'[m] = new
      BY <1>1, <2>2
    <3>2. /\ new \in MessageRows /\ new.vector = vector(m) /\ new.status = msgRows[m].status
          /\ new.text = msgRows[m].text
      BY <1>2, <2>1, <2>2 DEF MessageRows
    <3>3. after[m] = settled(m, "vector")
      BY <1>2, <2>2
    <3>4. /\ msgRows[m].status = "final" /\ msgRows[m].text = worker.batch[m]
          /\ settled(m, "vector").hash = worker.batch[m] /\ settled(m, "vector").model = worker.model
          /\ ~isOpen(settled(m, "vector"))
      BY <1>2, <2>2, SettledIsTrue DEF EmbedOutcomes
    <3> HIDE DEF new, after
    <3>5. TrueAt(new, after[m])
      BY <1>2, <2>2, <3>2, <3>3, <3>4 DEF TrueAt
    <3> QED  BY <2>2, <3>1, <3>2, <3>5
  <2>3. CASE m \notin stored
    <3>1. msgRows'[m] = msgRows[m]
      BY <1>1, <2>3
    <3>2. CASE m \in Claimed
      <4>1. outcome[m] \in EmbedOutcomes /\ ~(outcome[m] = "vector" /\ ~resultOutdated(m))
        BY <2>3, <3>2
      <4>2. after[m] = settled(m, outcome[m])
        BY <3>2
      <4>3. TrueAt(msgRows[m], settled(m, outcome[m]))
        BY <4>1, SettledIsTrue
      <4> QED  BY <2>1, <2>3, <3>1, <4>2, <4>3
    <3>3. CASE m \notin Claimed
      BY <2>1, <2>3, <3>1, <3>3
    <3> QED  BY <3>2, <3>3
  <2> QED  BY <2>2, <2>3
<1>5. after \in [Indexed -> JobRows]
  BY <1>3
<1> HIDE DEF after
<1>6. /\ jobs' \in [Indexed -> JobRows] /\ worker' \in Workers /\ timer' \in BOOLEAN
      /\ \A m \in Indexed : \A row : TrueAt(row, after[m]) => TrueAt(row, jobs'[m])
  <2>1. CASE drainLoop(after)
    BY <1>5, <2>1, DrainKeeps, EmbeddingFacts
  <2>2. CASE /\ jobs' = after /\ worker' = [Waits EXCEPT !.phase = "ends"]
             /\ timer' = \E m \in Indexed : isOpen(after[m])
    BY <1>5, <2>2, NoVectorTyped
  <2> QED  BY <1>1, <2>1, <2>2
<1>7. msgRows' \in [Indexed -> MessageRows]
  <2>1. msgRows' = [m \in Indexed |-> msgRows'[m]]
    BY <1>1
  <2> QED  BY <1>4, <2>1
<1>8. cache' \in Caches /\ CacheIsTrue'
  <2>1. CASE ~cache.loaded
    BY <1>1, <2>1, EmbeddingFacts DEF CacheIsTrue
  <2>2. CASE cache.loaded
    <3> DEFINE vs == [m \in Indexed |-> IF m \in stored THEN vector(m) ELSE cache.vectors[m]]
    <3>1. cache' = [cache EXCEPT !.vectors = vs]
      BY <1>1, <2>2
    <3>2. cache \in Caches
      BY EmbeddingFacts
    <3>3. vs \in [Indexed -> Vectors]
      BY <1>2, <3>2 DEF Caches
    <3>4. \A m \in Indexed : vs[m] = msgRows'[m].vector
      BY <1>4, <2>2, EmbeddingFacts DEF CacheIsTrue
    <3> HIDE DEF vs, stored
    <3>5. cache' \in Caches /\ cache'.vectors = vs
      BY <3>1, <3>2, <3>3 DEF Caches
    <3> QED  BY <3>4, <3>5 DEF CacheIsTrue
  <2> QED  BY <2>1, <2>2
<1>9. EmbeddingTypeOK'
  BY <1>1, <1>6, <1>7, <1>8, EmbeddingFacts DEF EmbeddingTypeOK, Caches, Workers
<1>10. RowsAreTrue'
  BY <1>4, <1>6 DEF RowsAreTrue
<1> QED  BY <1>8, <1>9, <1>10 DEF EmbeddingInv

\* What recall finds stale is a final row with a vector: queued again, its job
\* has the text of the row, and the model of the vector it still has.
LEMMA RecallKeepsInv ==
    ASSUME EmbeddingInv, NEW rescans \in BOOLEAN, Recall(rescans)
    PROVE  EmbeddingInv'
<1> DEFINE again == [m \in Indexed |-> IF staleVector(m)
                                        THEN queuedAgain(jobs[m], msgRows[m].text, active) ELSE jobs[m]]
<1>1. /\ cache' = loaded /\ reembed' \in {"idle", "memories", "messages"}
      /\ jobs' = again \/ jobs' = jobs
      /\ UNCHANGED <<msgRows, worker, kicked, timer, active, events>>
  BY EmbeddingFacts DEF Recall
<1>2. /\ loaded \in Caches /\ \A m \in Indexed : loaded.vectors[m] = msgRows[m].vector
  <2>1. CASE cache.loaded
    BY <2>1, EmbeddingFacts DEF loaded, CacheIsTrue
  <2>2. CASE ~cache.loaded
    BY <2>2, EmbeddingFacts DEF loaded, Caches, MessageRows
  <2> QED  BY <2>1, <2>2
<1>3. ASSUME NEW m \in Indexed
      PROVE  again[m] \in JobRows /\ TrueAt(msgRows[m], again[m])
  <2>1. /\ msgRows[m] \in MessageRows /\ jobs[m] \in JobRows /\ active \in Signatures
        /\ TrueAt(msgRows[m], jobs[m]) /\ msgRows[m].text \in Hashes
    BY EmbeddingFacts DEF MessageRows
  <2>2. CASE staleVector(m)
    <3>1. msgRows[m].status = "final"
      BY <1>2, <2>1, <2>2 DEF staleVector, TrueAt
    <3> QED  BY <2>1, <2>2, <3>1, RequeuedIsTrue, QueuedAgain
  <2>3. CASE ~staleVector(m)
    BY <2>1, <2>3
  <2> QED  BY <2>2, <2>3
<1>4. again \in [Indexed -> JobRows]
  BY <1>3
<1> HIDE DEF again
<1>5. CacheIsTrue'
  BY <1>1, <1>2 DEF CacheIsTrue
<1> QED  BY <1>1, <1>2, <1>3, <1>4, <1>5, EmbeddingFacts, JobsMoveKeepsInv

\* Drafts have no vector, so the text they are recovered with is new.
LEMMA RestartEmbeddingKeepsInv ==
    ASSUME EmbeddingInv, NEW text \in Hashes, RestartEmbedding(text)
    PROVE  EmbeddingInv'
<1> DEFINE drafts == {m \in Indexed : msgRows[m].status = "draft"}
<1>1. /\ msgRows' = [m \in Indexed |-> IF m \in drafts
              THEN [msgRows[m] EXCEPT !.status = "final", !.text = text] ELSE msgRows[m]]
      /\ jobs' = [m \in Indexed |-> IF m \in drafts
              THEN queuedAgain(jobs[m], text, NoModel) ELSE jobs[m]]
      /\ kicked' = (drafts # {}) /\ Disturbs /\ active' = active
      /\ cache' = NotLoaded /\ worker' = Waits /\ timer' = FALSE /\ reembed' = "idle"
  BY Zenon DEF RestartEmbedding
<1>a. kicked' \in BOOLEAN /\ events' \in 0..MaxEvents
  <2> HIDE DEF drafts
  <2>1. kicked' = (drafts # {}) /\ Disturbs
    BY <1>1
  <2>2. events' \in 0..MaxEvents
    BY <2>1, EmbeddingFacts DEF Disturbs
  <2>3. kicked' \in BOOLEAN
    BY <2>1, Zenon
  <2> QED  BY <2>2, <2>3
<1>2. ASSUME NEW m \in Indexed
      PROVE  msgRows'[m] \in MessageRows /\ jobs'[m] \in JobRows /\ TrueAt(msgRows'[m], jobs'[m])
  <2>1. /\ msgRows[m] \in MessageRows /\ jobs[m] \in JobRows /\ TrueAt(msgRows[m], jobs[m])
    BY EmbeddingFacts
  <2>2. CASE m \in drafts
    <3> DEFINE new == [msgRows[m] EXCEPT !.status = "final", !.text = text]
    <3>1. msgRows'[m] = new /\ jobs'[m] = queuedAgain(jobs[m], text, NoModel)
      BY <1>1, <2>2
    <3>2. msgRows[m].vector = NoVector
      BY <2>1, <2>2 DEF TrueAt
    <3>3. new \in MessageRows /\ new.vector = NoVector /\ new.status = "final" /\ new.text = text
      BY <2>1, <3>2 DEF MessageRows
    <3> HIDE DEF new
    <3> QED  BY <2>1, <3>1, <3>3, RequeuedIsTrue, QueuedAgain, NoVectorTyped
  <2>3. CASE m \notin drafts
    BY <1>1, <2>1, <2>3
  <2> QED  BY <2>2, <2>3
<1>3. msgRows' \in [Indexed -> MessageRows] /\ jobs' \in [Indexed -> JobRows]
  <2>1. msgRows' = [m \in Indexed |-> msgRows'[m]] /\ jobs' = [m \in Indexed |-> jobs'[m]]
    BY <1>1
  <2> QED  BY <1>2, <2>1
<1>4. EmbeddingTypeOK' /\ CacheIsTrue'
  BY <1>1, <1>a, <1>3, EmbeddingFacts, NoVectorTyped DEF EmbeddingTypeOK, Caches, Workers, CacheIsTrue
<1> QED  BY <1>2, <1>4 DEF EmbeddingInv, RowsAreTrue

LEMMA EmbeddingInvHolds == EmbeddingSpec => []EmbeddingInv
<1>1. EmbeddingInit => EmbeddingInv
  <2> SUFFICES ASSUME EmbeddingInit PROVE EmbeddingInv
    OBVIOUS
  <2>1. PICK status \in [Indexed -> {"unborn", "gone"}] :
           msgRows = [m \in Indexed |-> [status |-> status[m], text |-> NoText, vector |-> NoVector]]
    BY DEF EmbeddingInit
  <2>2. \A m \in Indexed : msgRows[m] \in MessageRows /\ msgRows[m].vector = NoVector
    BY <2>1, NoVectorTyped DEF MessageRows
  <2>3. msgRows \in [Indexed -> MessageRows] /\ jobs \in [Indexed -> JobRows]
    BY <2>1, <2>2, NoVectorTyped DEF EmbeddingInit
  <2>4. EmbeddingTypeOK
    BY <2>3, NoVectorTyped, EmbeddingTypes DEF EmbeddingInit
  <2>5. RowsAreTrue /\ CacheIsTrue
    BY <2>2, NoVectorTyped DEF EmbeddingInit, RowsAreTrue, CacheIsTrue, TrueAt
  <2> QED  BY <2>4, <2>5 DEF EmbeddingInv
<1>2. EmbeddingInv /\ [EmbeddingNext]_embeddingVars => EmbeddingInv'
  <2> SUFFICES ASSUME EmbeddingInv, [EmbeddingNext]_embeddingVars PROVE EmbeddingInv'
    OBVIOUS
  <2>1. ASSUME NEW m \in Indexed, NEW text \in Hashes,
               \/ \E status \in {"draft", "checking", "final"} : AddMessageRow(m, status, text)
               \/ \E changed \in BOOLEAN : FinishMessage(m, text, changed) \/ EditMessage(m, text, changed)
        PROVE  EmbeddingInv'
    BY <2>1, AddMessageRowKeepsInv, FinishMessageKeepsInv, EditMessageKeepsInv
  <2>2. ASSUME NEW m \in Indexed, DeleteMessage(m)
        PROVE  EmbeddingInv'
    BY <2>2, DeleteMessageKeepsInv
  <2>3. CASE Answers
    BY <2>3, EmbedReturnsKeepsInv DEF Answers
  <2>4. ASSUME NEW b \in BOOLEAN, Recall(b)
        PROVE  EmbeddingInv'
    BY <2>4, RecallKeepsInv
  <2>5. ASSUME NEW text \in Hashes, RestartEmbedding(text)
        PROVE  EmbeddingInv'
    BY <2>5, RestartEmbeddingKeepsInv
  <2>6. CASE UNCHANGED embeddingVars
    BY <2>6, EmbeddingFacts, JobsMoveKeepsInv DEF embeddingVars, CacheIsTrue
  <2> QED  BY <2>1, <2>2, <2>3, <2>4, <2>5, <2>6, WorkerStepsKeepInv DEF EmbeddingNext
<1> QED  BY <1>1, <1>2, PTL DEF EmbeddingSpec

\* Rows, jobs, calls and the cache of vectors have their types.
THEOREM EmbeddingIsTyped == EmbeddingSpec => []EmbeddingTypeOK
<1>1. EmbeddingInv => EmbeddingTypeOK
  BY DEF EmbeddingInv
<1> QED  BY <1>1, EmbeddingInvHolds, PTL

\* Recall compares with what the transcript says now, for every number of
\* messages, texts and models: edits, deletions, restarts and changes of the
\* model may come between the claim of a batch and its answers
\* (completeMessageEmbeddingJob, resetMessageEmbedCache).
THEOREM RecallComparesTheTruth == EmbeddingSpec => []VectorsAreTrue
<1>1. EmbeddingInv => VectorsAreTrue
  <2> SUFFICES ASSUME EmbeddingInv, NEW m \in Indexed
               PROVE  /\ msgRows[m].vector # NoVector =>
                           msgRows[m].vector = [text |-> msgRows[m].text, model |-> jobs[m].model]
                      /\ cache.loaded => cache.vectors[m] = msgRows[m].vector
                      /\ isOpen(jobs[m]) => /\ msgRows[m].status = "final"
                                            /\ msgRows[m].text = jobs[m].hash /\ msgRows[m].text # NoText
    BY DEF VectorsAreTrue
  <2>1. TrueAt(msgRows[m], jobs[m]) /\ msgRows[m].vector \in Vectors
    BY EmbeddingFacts DEF MessageRows
  <2>2. ASSUME msgRows[m].vector # NoVector
        PROVE  msgRows[m].vector = [text |-> msgRows[m].text, model |-> jobs[m].model]
    <3>1. msgRows[m].vector \in [text : EmbedTexts, model : Models]
      BY <2>1, <2>2 DEF Vectors
    <3> QED  BY <2>1, <2>2, <3>1 DEF TrueAt
  <2> QED  BY <2>1, <2>2, EmbeddingFacts DEF CacheIsTrue, TrueAt
<1> QED  BY <1>1, EmbeddingInvHolds, PTL

----------------------------------------------------------------------------
(* ContextBoundary.                                                        *)

\* The recap s accounts for exactly those of the rows f..n-1 that are below b,
\* and for none that is yet to come.
Accounts(s, b, f, n) == b <= n /\ s \subseteq 1..n - 1 /\ \A r \in f..n - 1 : r \in s <=> r < b

RecapsAreExact ==
    /\ Accounts(ctx.recap, ctx.before, first, nextSeq)
    /\ \A k \in Kinds : attempts[k].phase = "build" =>
          Accounts(attempts[k].recap, attempts[k].boundary, first, nextSeq)

BoundaryInv ==
    BoundaryTypeOK /\ first <= nextSeq /\ ctx.pin \in {NoSeq, ctx.before} /\ RecapsAreExact

Columns == [pin : Seqs, before : Seqs, recap : Recaps, text : Texts]

\* The variables of the invariant, typed, and the sizes of its sets.
LEMMA BoundaryFacts ==
    ASSUME BoundaryInv
    PROVE  /\ MaxSeq \in Nat /\ Cap \in Nat /\ Retained \in Nat
           /\ first \in 1..MaxSeq + 1 /\ nextSeq \in 1..MaxSeq + 1 /\ first <= nextSeq
           /\ first \in Int /\ nextSeq \in Int
           /\ ctx \in Columns /\ attempts \in [Kinds -> Compactions] /\ queued \in Seqs
           /\ ctx.pin \in {NoSeq, ctx.before} /\ ctx.pin \in Seqs /\ ctx.before \in Seqs
           /\ \A b \in Seqs : b \in Int
           /\ \A b \in 1..MaxSeq + 1 : b \in Seqs
           /\ rows \subseteq 1..MaxSeq /\ NoSeq \in Seqs
<1>1. /\ MaxSeq \in Nat /\ Cap \in Nat /\ Retained \in Nat
  BY BoundaryAssumption
<1>2. \A b \in Seqs : b \in Int
  BY <1>1 DEF Seqs, NoSeq
<1>3. ctx \in Columns
  BY DEF BoundaryInv, BoundaryTypeOK, Columns
<1>4. ctx.pin \in Seqs /\ ctx.before \in Seqs
  BY <1>3 DEF Columns
<1>5. rows \subseteq 1..MaxSeq
  BY <1>1 DEF BoundaryInv, BoundaryTypeOK, rows
<1> QED  BY <1>1, <1>2, <1>3, <1>4, <1>5 DEF BoundaryInv, BoundaryTypeOK, Seqs, NoSeq

\* A message more, or fewer of the oldest, leaves a recap exact.
LEMMA AccountsStays ==
    ASSUME NEW s, NEW b \in Int, NEW f \in Int, NEW n \in Int, NEW g \in Int, NEW o \in {n, n + 1},
           Accounts(s, b, f, n), f <= g
    PROVE  Accounts(s, b, g, o)
  BY DEF Accounts

\* findTopicBoundary answers with a row or with nothing.
LEMMA TopicBoundaries ==
    ASSUME BoundaryInv, NEW requested \in Seqs, NEW base \in Columns,
           NEW b \in topicBoundaries(requested, base)
    PROVE  b \in Seqs
<1>1. PICK c \in (IF requested \notin rows THEN {NoSeq}
                  ELSE IF requested = first THEN {first}
                  ELSE (first .. requested - 1) \cup {NoSeq}) :
             b = IF c = base.pin /\ c = base.before THEN NoSeq ELSE c
  BY DEF topicBoundaries
<1>2. c \in Seqs
  BY BoundaryFacts DEF Seqs, NoSeq, rows
<1> QED  BY <1>1, <1>2, BoundaryFacts

\* buildSummaryBefore: a rebuilt recap and an extended one are exact alike.
LEMMA SummariesAreExact ==
    ASSUME BoundaryInv, NEW b \in Seqs, b <= nextSeq, NEW s \in summariesBefore(b)
    PROVE  s.recap \in Recaps /\ s.text \in Texts /\ Accounts(s.recap, b, first, nextSeq)
<1> DEFINE below == {r \in rows : r < b}
<1>1. /\ b \in Int /\ ctx.before \in Int /\ ctx.recap \in Recaps
      /\ Accounts(ctx.recap, ctx.before, first, nextSeq)
  BY BoundaryFacts DEF BoundaryInv, RecapsAreExact, Columns
<1>2. CASE s \in {[recap |-> below, text |-> t] : t \in Texts \ {"null"}}
  <2>1. s.recap = below /\ s.text \in Texts
    BY <1>2
  <2> QED  BY <1>1, <2>1, BoundaryFacts DEF Accounts, Recaps, rows
<1>3. CASE /\ canMergeIntoTopics(b)
           /\ s = [recap |-> ctx.recap \cup {r \in below : ctx.before <= r}, text |-> "topics"]
  <2>1. ctx.before < b
    BY <1>1, <1>3 DEF canMergeIntoTopics
  <2>2. s.recap = ctx.recap \cup {r \in rows : r < b /\ ctx.before <= r} /\ s.text \in Texts
    BY <1>3 DEF Texts
  <2>3. s.recap \in Recaps
    BY <1>1, <2>2, BoundaryFacts DEF Recaps
  <2>4. s.recap \subseteq 1..nextSeq - 1
    BY <1>1, <2>2, BoundaryFacts DEF Accounts, rows
  <2>5. \A r \in first..nextSeq - 1 : r \in s.recap <=> r < b
    BY <1>1, <2>1, <2>2, BoundaryFacts DEF Accounts, rows
  <2> QED  BY <2>2, <2>3, <2>4, <2>5 DEF Accounts
<1> QED  BY <1>2, <1>3 DEF summariesBefore

\* What an attempt starts from, and what it has when its recap is asked for.
LEMMA AttemptsTyped ==
    ASSUME BoundaryInv, NEW b \in Seqs, NEW base \in Columns, NEW keep \in {0, Cap, Retained}
    PROVE  /\ Idle \in Compactions /\ Idle.phase = "idle"
           /\ compaction(b, base, keep) \in Compactions /\ compaction(b, base, keep).phase = "align"
           /\ compaction(b, base, keep).boundary = b
<1>1. {} \in Recaps /\ NoSeq \in Seqs /\ base.pin \in Seqs
  BY BoundaryFacts DEF Recaps, Columns
<1>2. Idle \in Compactions /\ Idle.phase = "idle"
  BY <1>1 DEF Idle, Compactions, Texts
<1> QED  BY <1>1, <1>2 DEF compaction, Compactions

LEMMA BuildingTyped ==
    ASSUME NEW c \in Compactions, NEW s, s.recap \in Recaps, s.text \in Texts
    PROVE  /\ building(c, s) \in Compactions /\ building(c, s).recap = s.recap
           /\ building(c, s).boundary = c.boundary
  BY DEF building, Compactions

\* The queued boundary, if one runs now, is not yet being written.
LEMMA SettleKeeps ==
    ASSUME BoundaryInv, NEW k \in Kinds, NEW others \in [Kinds -> Compactions], NEW columns \in Columns,
           settle(k, others, columns)
    PROVE  /\ attempts' \in [Kinds -> Compactions] /\ queued' \in Seqs
           /\ \A i \in Kinds : attempts'[i].phase = "build" => attempts'[i] = others[i]
<1> DEFINE free == [others EXCEPT ![k] = Idle]
<1>1. Idle \in Compactions /\ Idle.phase = "idle" /\ queued \in Seqs
  BY BoundaryFacts, AttemptsTyped
<1>2. /\ free \in [Kinds -> Compactions]
      /\ \A i \in Kinds : free[i].phase = "build" => free[i] = others[i]
  BY <1>1
<1>3. CASE attempts' = free /\ queued' \in {NoSeq, queued}
  BY <1>1, <1>2, <1>3, BoundaryFacts
<1>4. ASSUME NEW b \in topicBoundaries(queued, columns), queued' = NoSeq,
             attempts' = [free EXCEPT !["auto"] = compaction(b, columns, 0)]
      PROVE  /\ attempts' \in [Kinds -> Compactions] /\ queued' \in Seqs
             /\ \A i \in Kinds : attempts'[i].phase = "build" => attempts'[i] = others[i]
  <2>1. compaction(b, columns, 0) \in Compactions /\ compaction(b, columns, 0).phase = "align"
    BY <1>1, TopicBoundaries, AttemptsTyped
  <2> HIDE DEF free
  <2> QED  BY <1>2, <1>4, <2>1, BoundaryFacts DEF Kinds
<1> QED  BY <1>3, <1>4 DEF settle

\* A step keeps the invariant if what it leaves is exact of the rows it found:
\* then it is of those that are left, and of one more.
LEMMA BoundaryMoves ==
    ASSUME BoundaryInv, first' \in 1..MaxSeq + 1, nextSeq' \in 1..MaxSeq + 1,
           nextSeq' \in {nextSeq, nextSeq + 1}, first <= first', first' <= nextSeq',
           ctx' \in Columns, ctx'.pin \in {NoSeq, ctx'.before},
           attempts' \in [Kinds -> Compactions], queued' \in Seqs,
           Accounts(ctx'.recap, ctx'.before, first, nextSeq),
           \A k \in Kinds : attempts'[k].phase = "build" =>
              Accounts(attempts'[k].recap, attempts'[k].boundary, first, nextSeq)
    PROVE  BoundaryInv'
<1>1. BoundaryTypeOK'
  BY DEF BoundaryTypeOK, Columns
<1>2. /\ first \in Int /\ nextSeq \in Int /\ first' \in Int /\ ctx'.before \in Int
      /\ \A k \in Kinds : attempts'[k].boundary \in Int
  BY BoundaryFacts DEF Columns, Compactions
<1>3. Accounts(ctx'.recap, ctx'.before, first', nextSeq')
  BY <1>2, AccountsStays
<1>4. ASSUME NEW k \in Kinds, attempts'[k].phase = "build"
      PROVE  Accounts(attempts'[k].recap, attempts'[k].boundary, first', nextSeq')
  BY <1>2, <1>4, AccountsStays
<1> QED  BY <1>1, <1>3, <1>4 DEF BoundaryInv, RecapsAreExact

\* Where first, nextSeq and the columns stay, only new attempts matter.
LEMMA AttemptsMove ==
    ASSUME BoundaryInv, UNCHANGED <<first, nextSeq, ctx>>,
           attempts' \in [Kinds -> Compactions], queued' \in Seqs,
           \A k \in Kinds : attempts'[k].phase = "build" =>
              \/ attempts'[k] = attempts[k]
              \/ Accounts(attempts'[k].recap, attempts'[k].boundary, first, nextSeq)
    PROVE  BoundaryInv'
  BY BoundaryFacts, BoundaryMoves DEF BoundaryInv, RecapsAreExact

LEMMA AddMessageKeepsBoundary == BoundaryInv /\ AddMessage => BoundaryInv'
<1> SUFFICES ASSUME BoundaryInv, AddMessage PROVE BoundaryInv'
  OBVIOUS
<1>1. /\ nextSeq' = nextSeq + 1 /\ nextSeq' \in 1..MaxSeq + 1 /\ first' <= nextSeq'
      /\ UNCHANGED <<first, ctx, attempts, queued>>
  BY BoundaryFacts DEF AddMessage
<1> QED  BY <1>1, BoundaryFacts, BoundaryMoves DEF BoundaryInv, RecapsAreExact

LEMMA RequestBoundaryKeepsInv ==
    ASSUME BoundaryInv, NEW b \in rows, RequestBoundary(b)
    PROVE  BoundaryInv'
<1>1. b \in Seqs /\ UNCHANGED <<first, nextSeq, ctx>> /\ ctx \in Columns
  BY BoundaryFacts DEF RequestBoundary
<1>2. CASE queued' = b /\ UNCHANGED attempts
  BY <1>1, <1>2, BoundaryFacts, AttemptsMove
<1>3. ASSUME NEW t \in topicBoundaries(b, ctx), UNCHANGED queued,
             attempts' = [attempts EXCEPT !["auto"] = compaction(t, ctx, 0)]
      PROVE  BoundaryInv'
  <2>1. compaction(t, ctx, 0) \in Compactions /\ compaction(t, ctx, 0).phase = "align"
    BY <1>1, TopicBoundaries, AttemptsTyped
  <2> QED  BY <1>1, <1>3, <2>1, BoundaryFacts, AttemptsMove DEF Kinds
<1> QED  BY <1>2, <1>3 DEF RequestBoundary

LEMMA ClearBoundaryKeepsInv == BoundaryInv /\ ClearBoundary => BoundaryInv'
<1> SUFFICES ASSUME BoundaryInv, ClearBoundary PROVE BoundaryInv'
  OBVIOUS
<1>1. ctx' = [ctx EXCEPT !.pin = NoSeq] /\ UNCHANGED <<first, nextSeq, attempts, queued>>
  BY DEF ClearBoundary
<1>2. /\ ctx' \in Columns /\ ctx'.pin = NoSeq /\ ctx'.recap = ctx.recap
      /\ ctx'.before = ctx.before
  BY <1>1, BoundaryFacts DEF Columns
<1> QED  BY <1>1, <1>2, BoundaryFacts, BoundaryMoves DEF BoundaryInv, RecapsAreExact

\* An attempt of kind k has its recap: of the rows below its boundary.
LEMMA BuildKeepsInv ==
    ASSUME BoundaryInv, NEW k \in Kinds, NEW c \in Compactions, c.boundary <= nextSeq,
           NEW s \in summariesBefore(c.boundary),
           attempts' = [attempts EXCEPT ![k] = building(c, s)],
           UNCHANGED <<first, nextSeq, ctx, queued>>
    PROVE  BoundaryInv'
<1>1. c.boundary \in Seqs
  BY DEF Compactions
<1>2. s.recap \in Recaps /\ s.text \in Texts /\ Accounts(s.recap, c.boundary, first, nextSeq)
  BY <1>1, SummariesAreExact
<1>3. /\ building(c, s) \in Compactions /\ building(c, s).recap = s.recap
      /\ building(c, s).boundary = c.boundary
  BY <1>2, BuildingTyped
<1> QED  BY <1>2, <1>3, BoundaryFacts, AttemptsMove

LEMMA RefreshSummaryKeepsInv == BoundaryInv /\ RefreshSummary => BoundaryInv'
<1> SUFFICES ASSUME BoundaryInv, RefreshSummary PROVE BoundaryInv'
  OBVIOUS
<1>1. ctx.pin = ctx.before /\ ctx.pin <= nextSeq /\ ctx.pin \in Seqs /\ ctx \in Columns
  BY BoundaryFacts DEF RefreshSummary, BoundaryInv, RecapsAreExact, Accounts
<1>2. PICK s \in summariesBefore(ctx.pin) :
         attempts' = [attempts EXCEPT !["refresh"] = building(compaction(ctx.pin, ctx, 0), s)]
  BY DEF RefreshSummary
<1>3. compaction(ctx.pin, ctx, 0) \in Compactions /\ compaction(ctx.pin, ctx, 0).boundary = ctx.pin
  BY <1>1, AttemptsTyped
<1>4. UNCHANGED <<first, nextSeq, ctx, queued>> /\ "refresh" \in Kinds
  BY DEF RefreshSummary, Kinds
<1> QED  BY <1>1, <1>2, <1>3, <1>4, BuildKeepsInv

LEMMA CompactAgentThreadKeepsInv ==
    ASSUME BoundaryInv, NEW keep \in {Cap, Retained}, NEW reset \in BOOLEAN,
           compactAgentThread(keep, reset)
    PROVE  BoundaryInv'
<1>1. /\ ctx \in Columns /\ nextSeq \in Seqs /\ nextSeq <= nextSeq /\ keep \in {0, Cap, Retained}
      /\ "manual" \in Kinds /\ UNCHANGED <<first, nextSeq, ctx, queued>>
  BY BoundaryFacts DEF compactAgentThread, Kinds
<1>2. ASSUME NEW s \in summariesBefore(nextSeq),
             attempts' = [attempts EXCEPT !["manual"] = building(compaction(nextSeq, ctx, keep), s)]
      PROVE  BoundaryInv'
  <2>1. /\ compaction(nextSeq, ctx, keep) \in Compactions
        /\ compaction(nextSeq, ctx, keep).boundary = nextSeq
    BY <1>1, AttemptsTyped
  <2> QED  BY <1>1, <1>2, <2>1, BuildKeepsInv
<1>3. ASSUME ~(reset \/ keep >= messageCount),
             NEW b \in topicBoundaries(nextSeq - keep, ctx),
             attempts' = [attempts EXCEPT !["manual"] = compaction(b, ctx, keep)]
      PROVE  BoundaryInv'
  <2>1. nextSeq - keep \in Seqs
    BY <1>3, BoundaryFacts DEF messageCount, Seqs, NoSeq
  <2>2. compaction(b, ctx, keep) \in Compactions /\ compaction(b, ctx, keep).phase = "align"
    BY <1>1, <1>3, <2>1, TopicBoundaries, AttemptsTyped
  <2> QED  BY <1>1, <1>3, <2>2, BoundaryFacts, AttemptsMove
<1> QED  BY <1>2, <1>3 DEF compactAgentThread

\* pruneThreadMessages removes the oldest rows and none at or above preserveFrom.
LEMMA PruneKeeps ==
    ASSUME BoundaryInv, NEW keep \in Nat, NEW b \in Seqs, b <= nextSeq, pruneThreadMessages(keep, b)
    PROVE  first' \in 1..MaxSeq + 1 /\ first <= first' /\ first' <= nextSeq
<1>1. CASE {r \in rows : r < b} = {}
  <2>1. Cardinality({r \in rows : r < b}) = 0
    BY <1>1, FS_EmptySet
  <2>2. first' = first
    BY <2>1 DEF pruneThreadMessages
  <2> QED  BY <2>2, BoundaryFacts
<1>2. CASE {r \in rows : r < b} # {}
  <2>1. first < b /\ b \in 1..MaxSeq + 1
    BY <1>2, BoundaryFacts DEF rows
  <2>2. first' \in {first, b}
    BY DEF pruneThreadMessages
  <2> QED  BY <2>1, <2>2, BoundaryFacts
<1> QED  BY <1>1, <1>2

LEMMA RetainNewestKeepsInv == BoundaryInv /\ RetainNewest => BoundaryInv'
<1> SUFFICES ASSUME BoundaryInv, RetainNewest PROVE BoundaryInv'
  OBVIOUS
<1>1. CASE compactAgentThread(Retained, FALSE)
  BY <1>1, CompactAgentThreadKeepsInv
<1>2. CASE ctx.pin # NoSeq /\ pruneThreadMessages(Retained, ctx.pin) /\ UNCHANGED <<nextSeq, ctx, attempts, queued>>
  <2>1. ctx.pin \in Seqs /\ ctx.pin <= nextSeq /\ Retained \in Nat
    BY <1>2, BoundaryFacts DEF BoundaryInv, RecapsAreExact, Accounts
  <2>2. first' \in 1..MaxSeq + 1 /\ first <= first' /\ first' <= nextSeq
    BY <1>2, <2>1, PruneKeeps
  <2> QED  BY <1>2, <2>2, BoundaryFacts, BoundaryMoves DEF BoundaryInv, RecapsAreExact
<1> QED  BY <1>1, <1>2 DEF RetainNewest

LEMMA StartRecapKeepsInv ==
    ASSUME BoundaryInv, NEW k \in Kinds, StartRecap(k)
    PROVE  BoundaryInv'
<1> DEFINE b == attempts[k].boundary
<1>1. attempts[k] \in Compactions /\ b \in Seqs /\ b \in Int
  BY BoundaryFacts DEF Compactions
<1>2. {b, b - 1} \cap rows # {} /\ UNCHANGED <<first, nextSeq, ctx, queued>>
  BY DEF StartRecap
<1>3. b <= nextSeq
  BY <1>1, <1>2, BoundaryFacts DEF rows
<1>4. PICK s \in summariesBefore(b) : attempts' = [attempts EXCEPT ![k] = building(attempts[k], s)]
  BY DEF StartRecap
<1> QED  BY <1>1, <1>2, <1>3, <1>4, BuildKeepsInv

LEMMA EndWithoutCommitKeepsInv ==
    ASSUME BoundaryInv, NEW k \in Kinds, EndWithoutCommit(k)
    PROVE  BoundaryInv'
<1>1. settle(k, attempts, ctx) /\ UNCHANGED <<first, nextSeq, ctx>> /\ ctx \in Columns
      /\ attempts \in [Kinds -> Compactions]
  BY BoundaryFacts DEF EndWithoutCommit
<1>2. /\ attempts' \in [Kinds -> Compactions] /\ queued' \in Seqs
      /\ \A i \in Kinds : attempts'[i].phase = "build" => attempts'[i] = attempts[i]
  BY <1>1, SettleKeeps
<1> QED  BY <1>1, <1>2, AttemptsMove

\* The columns take the recap of the attempt with its boundary; the other
\* attempts keep theirs and may find that the stored one is another.
LEMMA CommitKeepsInv ==
    ASSUME BoundaryInv, NEW k \in Kinds, Commit(k)
    PROVE  BoundaryInv'
<1> DEFINE c == attempts[k]
           columns == [pin |-> c.boundary, before |-> c.boundary, recap |-> c.recap, text |-> c.text]
           same == c.text = "blank" /\ ctx.text = "blank"
           outdated(i) == [attempts[i] EXCEPT !.fresh = @ /\ same]
           others == [i \in Kinds |-> IF i = k THEN Idle ELSE outdated(i)]
<1>1. /\ c.phase = "build" /\ ctx' = columns /\ nextSeq' = nextSeq
      /\ IF k = "manual" THEN pruneThreadMessages(c.keep, c.boundary) ELSE UNCHANGED first
  BY DEF Commit
<1>2. settle(k, others, columns)
  BY DEF Commit
<1>3. /\ c \in Compactions /\ c.boundary \in Seqs /\ c.keep \in Nat /\ c.boundary <= nextSeq
      /\ c.recap \in Recaps /\ c.text \in Texts
      /\ Accounts(c.recap, c.boundary, first, nextSeq)
  <2>1. c \in Compactions /\ Accounts(c.recap, c.boundary, first, nextSeq)
    BY <1>1, BoundaryFacts DEF BoundaryInv, RecapsAreExact
  <2> HIDE DEF c
  <2> QED  BY <2>1, BoundaryFacts DEF Compactions, Accounts
<1>4. ASSUME NEW i \in Kinds
      PROVE  /\ outdated(i) \in Compactions /\ outdated(i).phase = attempts[i].phase
             /\ outdated(i).recap = attempts[i].recap /\ outdated(i).boundary = attempts[i].boundary
  <2>1. attempts[i] \in Compactions
    BY BoundaryFacts
  <2>2. attempts[i].fresh \in BOOLEAN /\ same \in BOOLEAN
    BY <2>1 DEF Compactions
  <2>3. (attempts[i].fresh /\ same) \in BOOLEAN
    BY <2>2, Zenon
  <2> HIDE DEF same
  <2> QED  BY <2>1, <2>3 DEF Compactions
<1>5. columns \in Columns /\ columns.pin = columns.before /\ columns.before = c.boundary
      /\ columns.recap = c.recap
  BY <1>3 DEF Columns
<1>6. Idle \in Compactions /\ Idle.phase = "idle"
  BY <1>5, <1>3, AttemptsTyped
<1> HIDE DEF columns, outdated
<1>7. others \in [Kinds -> Compactions]
  BY <1>4, <1>6
<1>8. /\ attempts' \in [Kinds -> Compactions] /\ queued' \in Seqs
      /\ \A i \in Kinds : attempts'[i].phase = "build" => attempts'[i] = others[i]
  BY <1>2, <1>5, <1>7, SettleKeeps
<1>9. ASSUME NEW i \in Kinds, attempts'[i].phase = "build"
      PROVE  Accounts(attempts'[i].recap, attempts'[i].boundary, first, nextSeq)
  <2>1. attempts'[i] = others[i]
    BY <1>8, <1>9
  <2>2. i # k /\ others[i] = outdated(i)
    BY <1>6, <1>9, <2>1
  <2>3. attempts[i].phase = "build"
    BY <1>4, <1>9, <2>1, <2>2
  <2> QED  BY <1>4, <2>1, <2>2, <2>3 DEF BoundaryInv, RecapsAreExact
<1>10. first' \in 1..MaxSeq + 1 /\ first <= first' /\ first' <= nextSeq
  <2>1. CASE k = "manual"
    BY <1>1, <1>3, <2>1, PruneKeeps
  <2>2. CASE k # "manual"
    BY <1>1, <2>2, BoundaryFacts
  <2> QED  BY <2>1, <2>2
<1> QED  BY <1>1, <1>3, <1>5, <1>8, <1>9, <1>10, BoundaryFacts, BoundaryMoves

LEMMA BoundaryInvHolds == BoundarySpec => []BoundaryInv
<1>1. BoundaryInit => BoundaryInv
  <2> SUFFICES ASSUME BoundaryInit PROVE BoundaryInv
    OBVIOUS
  <2>1. /\ MaxSeq \in Nat /\ {} \in Recaps /\ NoSeq \in Seqs /\ 0 \in Seqs /\ 1 \in 1..MaxSeq + 1
    BY BoundaryAssumption DEF Recaps, Seqs, NoSeq
  <2>2. Idle \in Compactions /\ Idle.phase = "idle"
    BY <2>1 DEF Idle, Compactions, Texts
  <2>3. BoundaryTypeOK
    BY <2>1, <2>2 DEF BoundaryInit, BoundaryTypeOK, Texts
  <2>4. RecapsAreExact
    BY <2>2 DEF BoundaryInit, RecapsAreExact, Accounts, NoSeq
  <2> QED  BY <2>3, <2>4 DEF BoundaryInit, BoundaryInv
<1>2. BoundaryInv /\ [BoundaryNext]_boundaryVars => BoundaryInv'
  <2> SUFFICES ASSUME BoundaryInv, [BoundaryNext]_boundaryVars PROVE BoundaryInv'
    OBVIOUS
  <2>1. CASE UNCHANGED boundaryVars
    BY <2>1, BoundaryFacts, AttemptsMove DEF boundaryVars
  <2>2. CASE CompactManually
    BY <2>2, CompactAgentThreadKeepsInv DEF CompactManually
  <2>3. ASSUME NEW b \in rows, RequestBoundary(b)
        PROVE  BoundaryInv'
    BY <2>3, RequestBoundaryKeepsInv
  <2>4. ASSUME NEW k \in Kinds, StartRecap(k) \/ EndWithoutCommit(k) \/ Commit(k)
        PROVE  BoundaryInv'
    BY <2>4, StartRecapKeepsInv, EndWithoutCommitKeepsInv, CommitKeepsInv
  <2> QED  BY <2>1, <2>2, <2>3, <2>4, AddMessageKeepsBoundary, ClearBoundaryKeepsInv,
              RefreshSummaryKeepsInv, RetainNewestKeepsInv DEF BoundaryNext
<1> QED  BY <1>1, <1>2, PTL DEF BoundarySpec

\* Rows, boundaries and the attempts to compact have their types.
THEOREM BoundaryIsTyped == BoundarySpec => []BoundaryTypeOK
<1>1. BoundaryInv => BoundaryTypeOK
  BY DEF BoundaryInv
<1> QED  BY <1>1, BoundaryInvHolds, PTL

\* Between the recap and the hot rows nothing is missing and nothing is told
\* twice, for every number of messages and every limit of retention: recaps
\* are written, extended, committed, cleared and pruned in any order
\* (buildSummaryBefore, commitThreadWarmContext, pruneThreadMessages).
THEOREM RecapAndHotRowsMeet == BoundarySpec => []RecapMeetsHot
<1>1. BoundaryInv => RecapMeetsHot
  <2> SUFFICES ASSUME BoundaryInv, ctx.pin # NoSeq
               PROVE  ctx.recap \cap rows = {r \in rows : r < ctx.pin}
    BY DEF RecapMeetsHot
  <2>1. ctx.pin = ctx.before /\ Accounts(ctx.recap, ctx.before, first, nextSeq)
    BY BoundaryFacts DEF BoundaryInv, RecapsAreExact
  <2> QED  BY <2>1 DEF Accounts, rows
<1> QED  BY <1>1, BoundaryInvHolds, PTL

----------------------------------------------------------------------------
(* Inbound messages.                                                       *)

\* Of every value of a set of numbers one is the least.
LEMMA LeastNumber ==
    ASSUME NEW S \in SUBSET Nat, S # {}
    PROVE  \E i \in S : \A j \in S : i <= j
<1>1. PICK i \in S : \A j \in S : <<j, i>> \notin OpToRel(<, Nat)
  BY WFMin, NatLessThanWellFounded
<1>2. ASSUME NEW j \in S PROVE i <= j
  <2>1. ~(j < i)
    BY <1>1 DEF OpToRel
  <2> QED  BY <2>1
<1> QED  BY <1>2

Calls == [step : {"none", "content", "handler"}, type : {"notify", "append"},
          adapter : 0..MaxAdapters, rest : Seq(Messages),
          watermarks : [Chats -> Nat], known : SUBSET Messages]

\* A watermark w of chat c stands for a message of the chat that was handled
\* and is at least as new.
Covered(w, c) == w > 0 => \E n \in handled : chatOf[n] = c /\ stampOf[n] >= w

\* A call was given true watermarks, what it knows as handled is below them,
\* and the message in its hands is not.
CallAgrees(call) ==
    /\ call \in Calls
    /\ \A c \in Chats : Covered(call.watermarks[c], c)
    /\ \A n \in call.known : chatOf[n] \in Routed => stampOf[n] <= call.watermarks[chatOf[n]]
    /\ call.step # "none" =>
         call.rest # <<>> /\ stampOf[Head(call.rest)] > call.watermarks[chatOf[Head(call.rest)]]

\* The watermark of a chat is the newest message it has handled.
BridgeInv ==
    /\ BridgeTypeOK
    /\ \A c \in Chats : Covered(lastSeen[c], c)
    /\ \A n \in handled : chatOf[n] \in Routed => stampOf[n] <= lastSeen[chatOf[n]]
    /\ \A u \in Upserts : CallAgrees(upsert[u])

LEMMA BridgeFacts ==
    ASSUME BridgeTypeOK
    PROVE  /\ adapter \in Nat /\ adapter \in 1..MaxAdapters /\ adapter \in 0..MaxAdapters
           /\ recvIds \in [1..MaxAdapters -> Seq(Messages)]
           /\ lastSeen \in [Chats -> Nat] /\ upsert \in [Upserts -> Calls] /\ handled \subseteq Messages
           /\ \A m \in Messages : chatOf[m] \in Chats /\ stampOf[m] \in Nat \ {0}
<1>1. /\ adapter \in 1..MaxAdapters /\ recvIds \in [1..MaxAdapters -> Seq(Messages)]
      /\ lastSeen \in [Chats -> Nat] /\ handled \subseteq Messages
  BY DEF BridgeTypeOK
<1>2. upsert \in [Upserts -> Calls]
  BY DEF BridgeTypeOK, Calls
<1>3. \A m \in Messages : chatOf[m] \in Chats /\ stampOf[m] \in Nat \ {0}
  BY BridgeAssumption DEF Chats
<1> QED  BY <1>1, <1>2, <1>3, BridgeAssumption

LEMMA NoUpsertAgrees == CallAgrees(NoUpsert)
<1>1. /\ NoUpsert \in Calls /\ NoUpsert.known = {} /\ NoUpsert.step = "none"
      /\ \A c \in Chats : NoUpsert.watermarks[c] = 0
  BY BridgeAssumption DEF NoUpsert, Calls
<1> HIDE DEF NoUpsert
<1> QED  BY <1>1 DEF CallAgrees, Covered

\* goesOn: the call ends, or has a message in its hands that no gate stops.
LEMMA GoesOnAgrees ==
    ASSUME BridgeInv, NEW u \in Upserts, NEW call, CallAgrees([call EXCEPT !.step = "none"]),
           call \in Calls, NEW rest \in Seq(Messages), NEW ids, goesOn(u, call, rest, ids)
    PROVE  /\ upsert' \in [Upserts -> Calls]
           /\ CallAgrees(upsert'[u])
           /\ \A v \in Upserts \ {u} : upsert'[v] = upsert[v]
<1> DEFINE stopped(m) == seen(ids[call.adapter], m) \/ belowWatermark(call, m)
           open == {i \in 1..Len(rest) : ~stopped(rest[i])}
           head == CHOOSE i \in open : \A j \in open : i <= j
           later == SubSeq(rest, head, Len(rest))
           x == IF open = {} THEN NoUpsert ELSE [call EXCEPT !.step = "content", !.rest = later]
<1>1. upsert \in [Upserts -> Calls] /\ upsert' = [upsert EXCEPT ![u] = x]
  <2>1. upsert' = [upsert EXCEPT ![u] = x]
    BY DEF goesOn
  <2> QED  BY <2>1, BridgeFacts DEF BridgeInv
<1>2. CallAgrees(x)
  <2>1. CASE open = {}
    BY <2>1, NoUpsertAgrees
  <2>2. CASE open # {}
    <3>1. open \in SUBSET Nat
      OBVIOUS
    <3>2. head \in open
      <4> HIDE DEF open
      <4> QED  BY <2>2, <3>1, LeastNumber
    <3>3. head \in 1..Len(rest) /\ ~belowWatermark(call, rest[head])
      BY <3>2
    <3> HIDE DEF head
    <3>4. later \in Seq(Messages) /\ later # <<>> /\ Head(later) = rest[head] /\ rest[head] \in Messages
      BY <3>3
    <3> DEFINE y == [call EXCEPT !.step = "content", !.rest = later]
               z == [call EXCEPT !.step = "none"]
    <3>5. x = y
      BY <2>2
    <3> HIDE DEF later
    <3>6. /\ y \in Calls /\ y.step = "content" /\ y.rest = later
          /\ y.watermarks = call.watermarks /\ y.known = call.known
      BY <3>4 DEF Calls
    <3>7. z.watermarks = call.watermarks /\ z.known = call.known
      BY DEF Calls
    <3>8. /\ call.watermarks \in [Chats -> Nat]
          /\ chatOf[rest[head]] \in Chats /\ stampOf[rest[head]] \in Nat
      BY <3>4, BridgeFacts DEF BridgeInv, Calls
    <3>9. stampOf[Head(later)] > call.watermarks[chatOf[Head(later)]]
      BY <3>3, <3>4, <3>8 DEF belowWatermark
    <3> HIDE DEF x, y, z
    <3>10. CallAgrees(y)
      BY <3>4, <3>6, <3>7, <3>9 DEF CallAgrees, z
    <3> QED  BY <3>5, <3>10
  <2> QED  BY <2>1, <2>2
<1> HIDE DEF x
<1>3. x \in Calls
  BY <1>2 DEF CallAgrees
<1> QED  BY <1>1, <1>2, <1>3

LEMMA BridgeInitInv == BridgeInit => BridgeInv
<1> SUFFICES ASSUME BridgeInit PROVE BridgeInv
  OBVIOUS
<1>1. /\ adapter = 1 /\ recvIds = [a \in 1..MaxAdapters |-> <<>>] /\ lastSeen = [c \in Chats |-> 0]
      /\ upsert = [u \in Upserts |-> NoUpsert] /\ handled = {}
  BY DEF BridgeInit
<1>2. NoUpsert \in Calls
  BY NoUpsertAgrees DEF CallAgrees
<1>3. BridgeTypeOK
  BY <1>1, <1>2, BridgeAssumption DEF BridgeTypeOK, Calls
<1>4. \A u \in Upserts : CallAgrees(upsert[u])
  BY <1>1, NoUpsertAgrees
<1> QED  BY <1>1, <1>3, <1>4 DEF BridgeInv, Covered

\* One call moves, and nothing is handled.
LEMMA CallMoves ==
    ASSUME BridgeInv, NEW u \in Upserts,
           upsert' \in [Upserts -> Calls], CallAgrees(upsert'[u]),
           \A v \in Upserts \ {u} : upsert'[v] = upsert[v],
           recvIds' \in [1..MaxAdapters -> Seq(Messages)],
           UNCHANGED <<adapter, lastSeen, handled>>
    PROVE  BridgeInv'
<1>1. BridgeTypeOK'
  BY DEF BridgeInv, BridgeTypeOK, Calls
<1>2. ASSUME NEW v \in Upserts PROVE CallAgrees(upsert[v])'
  <2>1. CallAgrees(upsert'[v])
    BY DEF BridgeInv
  <2> QED  BY <2>1 DEF CallAgrees, Covered
<1>3. \A c \in Chats : Covered(lastSeen[c], c)'
  BY DEF BridgeInv, Covered
<1> QED  BY <1>1, <1>2, <1>3 DEF BridgeInv

LEMMA HandleMessageUpsertKeeps ==
    ASSUME BridgeInv, NEW u \in Upserts, NEW type \in {"notify", "append"},
           NEW batch \in Seq(Messages), HandleMessageUpsert(u, type, batch)
    PROVE  BridgeInv'
<1> DEFINE call == [NoUpsert EXCEPT !.type = type, !.adapter = adapter,
                                    !.watermarks = IF type = "append" THEN readWatermarks ELSE @,
                                    !.known = IF type = "append" THEN handled \cap Range(batch) ELSE @]
           z == [call EXCEPT !.step = "none"]
<1>1. goesOn(u, call, batch, recvIds) /\ UNCHANGED <<adapter, recvIds, lastSeen, handled>>
  BY DEF HandleMessageUpsert
<1>2. BridgeTypeOK /\ NoUpsert \in Calls /\ NoUpsert.known = {} /\ CallAgrees(NoUpsert)
  BY NoUpsertAgrees DEF BridgeInv, CallAgrees, NoUpsert
<1>3. /\ adapter \in 0..MaxAdapters /\ lastSeen \in [Chats -> Nat] /\ handled \subseteq Messages
      /\ recvIds \in [1..MaxAdapters -> Seq(Messages)]
  BY <1>2, BridgeFacts
<1>4. /\ call \in Calls
      /\ call.watermarks \in {lastSeen, NoUpsert.watermarks}
      /\ call.watermarks = IF type = "append" THEN lastSeen ELSE NoUpsert.watermarks
      /\ call.known = IF type = "append" THEN handled \cap Range(batch) ELSE {}
  BY <1>2, <1>3 DEF Calls, readWatermarks
<1> HIDE DEF call
<1>5. z \in Calls /\ z.step = "none" /\ z.watermarks = call.watermarks /\ z.known = call.known
  BY <1>4 DEF Calls
<1> HIDE DEF z
<1>6. CallAgrees(z)
  <2>1. \A c \in Chats : Covered(z.watermarks[c], c)
    BY <1>2, <1>4, <1>5 DEF BridgeInv, CallAgrees
  <2>2. \A n \in z.known : chatOf[n] \in Routed => stampOf[n] <= z.watermarks[chatOf[n]]
    BY <1>4, <1>5 DEF BridgeInv
  <2> QED  BY <1>5, <2>1, <2>2 DEF CallAgrees
<1>7. /\ upsert' \in [Upserts -> Calls] /\ CallAgrees(upsert'[u])
      /\ \A v \in Upserts \ {u} : upsert'[v] = upsert[v]
  BY <1>1, <1>4, <1>6, GoesOnAgrees DEF z
<1> QED  BY <1>1, <1>3, <1>7, CallMoves

\* A call without a step agrees whenever the call does.
LEMMA IdleAgrees ==
    ASSUME NEW call, CallAgrees(call)
    PROVE  CallAgrees([call EXCEPT !.step = "none"])
<1> DEFINE z == [call EXCEPT !.step = "none"]
<1>1. z \in Calls /\ z.step = "none" /\ z.watermarks = call.watermarks /\ z.known = call.known
  BY DEF Calls, CallAgrees
<1> HIDE DEF z
<1>2. CallAgrees(z)
  BY <1>1 DEF CallAgrees
<1> QED  BY <1>2 DEF z

LEMMA InHands ==
    ASSUME BridgeInv, NEW u \in Upserts, upsert[u].step # "none"
    PROVE  /\ upsert[u] \in Calls /\ CallAgrees(upsert[u])
           /\ Head(upsert[u].rest) \in Messages /\ Tail(upsert[u].rest) \in Seq(Messages)
<1>1. CallAgrees(upsert[u]) /\ upsert[u] \in Calls
  BY DEF BridgeInv, CallAgrees
<1>2. upsert[u].rest \in Seq(Messages) /\ upsert[u].rest # <<>>
  BY <1>1 DEF Calls, CallAgrees
<1> QED  BY <1>1, <1>2

LEMMA UnreadableKeeps ==
    ASSUME BridgeInv, NEW u \in Upserts, Unreadable(u)
    PROVE  BridgeInv'
<1>1. /\ upsert[u].step = "content" /\ goesOn(u, upsert[u], Tail(upsert[u].rest), recvIds)
      /\ UNCHANGED <<adapter, recvIds, lastSeen, handled>>
  BY DEF Unreadable
<1>2. /\ upsert[u] \in Calls /\ CallAgrees(upsert[u]) /\ Tail(upsert[u].rest) \in Seq(Messages)
      /\ CallAgrees([upsert[u] EXCEPT !.step = "none"])
  BY <1>1, InHands, IdleAgrees
<1>3. /\ upsert' \in [Upserts -> Calls] /\ CallAgrees(upsert'[u])
      /\ \A v \in Upserts \ {u} : upsert'[v] = upsert[v]
  BY <1>1, <1>2, GoesOnAgrees
<1> QED  BY <1>1, <1>3, CallMoves, BridgeFacts DEF BridgeInv

\* The ids that an adapter remembers are ids of messages.
LEMMA RememberedTypes ==
    ASSUME NEW ids \in Seq(Messages), NEW m \in Messages
    PROVE  remembered(ids, m) \in Seq(Messages)
<1> DEFINE k == kept(ids, Messages \ {m})
           all == Append(k, m)
<1>1. k \in Seq(Messages)
  BY KeptRange
<1> HIDE DEF k
<1>2. all \in Seq(Messages) /\ all # <<>>
  BY <1>1
<1> HIDE DEF all
<1>3. Tail(all) \in Seq(Messages)
  BY <1>2
<1> QED  BY <1>2, <1>3 DEF remembered, all, k

LEMMA HandOverKeeps ==
    ASSUME BridgeInv, NEW u \in Upserts, HandOver(u)
    PROVE  BridgeInv'
<1> DEFINE call == upsert[u]
           m == Head(call.rest)
           x == [call EXCEPT !.step = "handler"]
<1>1. /\ call.step = "content"
      /\ recvIds' = [recvIds EXCEPT ![call.adapter] = remembered(recvIds[call.adapter], m)]
      /\ upsert' = [upsert EXCEPT ![u] = x]
      /\ UNCHANGED <<adapter, lastSeen, handled>>
  BY DEF HandOver
<1>2. call \in Calls /\ CallAgrees(call) /\ m \in Messages
  BY <1>1, InHands
<1>3. upsert \in [Upserts -> Calls] /\ recvIds \in [1..MaxAdapters -> Seq(Messages)]
  BY BridgeFacts DEF BridgeInv
<1> HIDE DEF call, m
<1>4. /\ x \in Calls /\ x.step = "handler" /\ x.rest = call.rest
      /\ x.watermarks = call.watermarks /\ x.known = call.known
  BY <1>2 DEF Calls
<1> HIDE DEF x
<1>5. CallAgrees(x)
  BY <1>1, <1>2, <1>4 DEF CallAgrees
<1>6. /\ upsert' \in [Upserts -> Calls] /\ CallAgrees(upsert'[u])
      /\ \A v \in Upserts \ {u} : upsert'[v] = upsert[v]
  BY <1>1, <1>3, <1>4, <1>5
<1>7. recvIds' \in [1..MaxAdapters -> Seq(Messages)]
  <2>1. call.adapter \in 1..MaxAdapters => remembered(recvIds[call.adapter], m) \in Seq(Messages)
    BY <1>2, <1>3, RememberedTypes
  <2> QED  BY <1>1, <1>3, <2>1
<1> QED  BY <1>1, <1>6, <1>7, CallMoves

LEMMA HandlerReturnsKeeps ==
    ASSUME BridgeInv, NEW u \in Upserts, HandlerReturns(u)
    PROVE  BridgeInv'
<1> DEFINE m == Head(upsert[u].rest)
<1>1. /\ upsert[u].step = "handler" /\ lastSeen' = bumped(m) /\ handled' = handled \cup {m}
      /\ goesOn(u, upsert[u], Tail(upsert[u].rest), recvIds) /\ UNCHANGED <<adapter, recvIds>>
  BY DEF HandlerReturns
<1>2. /\ upsert[u] \in Calls /\ CallAgrees(upsert[u]) /\ m \in Messages
      /\ Tail(upsert[u].rest) \in Seq(Messages) /\ CallAgrees([upsert[u] EXCEPT !.step = "none"])
  BY <1>1, InHands, IdleAgrees
<1>3. /\ upsert' \in [Upserts -> Calls] /\ CallAgrees(upsert'[u])
      /\ \A v \in Upserts \ {u} : upsert'[v] = upsert[v]
  BY <1>1, <1>2, GoesOnAgrees
<1> HIDE DEF m
<1>4. /\ lastSeen \in [Chats -> Nat] /\ handled \subseteq Messages /\ BridgeTypeOK
      /\ \A n \in Messages : chatOf[n] \in Chats /\ stampOf[n] \in Nat
  BY BridgeFacts DEF BridgeInv
<1>5. /\ lastSeen' \in [Chats -> Nat]
      /\ \A c \in Chats : \/ lastSeen'[c] = lastSeen[c]
                          \/ c = chatOf[m] /\ lastSeen'[c] = stampOf[m]
      /\ \A c \in Chats : lastSeen'[c] >= lastSeen[c]
      /\ chatOf[m] \in Routed => lastSeen'[chatOf[m]] >= stampOf[m]
  <2>1. CASE chatOf[m] \in Routed /\ lastSeen[chatOf[m]] < stampOf[m]
    <3>1. lastSeen' = [lastSeen EXCEPT ![chatOf[m]] = stampOf[m]]
      BY <1>1, <2>1 DEF bumped
    <3> QED  BY <1>2, <1>4, <2>1, <3>1
  <2>2. CASE ~(chatOf[m] \in Routed /\ lastSeen[chatOf[m]] < stampOf[m])
    <3>1. lastSeen' = lastSeen
      BY <1>1, <2>2 DEF bumped
    <3> QED  BY <1>2, <1>4, <2>2, <3>1
  <2> QED  BY <2>1, <2>2
<1>6. BridgeTypeOK'
  BY <1>1, <1>2, <1>3, <1>4, <1>5 DEF BridgeTypeOK, Calls
<1>7. ASSUME NEW c \in Chats PROVE Covered(lastSeen[c], c)'
  <2>1. Covered(lastSeen[c], c)
    BY DEF BridgeInv
  <2>2. CASE lastSeen'[c] = lastSeen[c]
    BY <1>1, <2>1, <2>2 DEF Covered
  <2>3. CASE c = chatOf[m] /\ lastSeen'[c] = stampOf[m]
    BY <1>1, <1>2, <1>4, <2>3 DEF Covered
  <2> QED  BY <1>5, <2>2, <2>3
<1>8. ASSUME NEW n \in handled', chatOf[n] \in Routed
      PROVE  stampOf[n] <= lastSeen'[chatOf[n]]
  <2>1. CASE n = m
    BY <1>2, <1>4, <1>5, <1>8, <2>1
  <2>2. CASE n \in handled
    <3>1. n \in Messages /\ stampOf[n] <= lastSeen[chatOf[n]] /\ chatOf[n] \in Chats
      BY <1>4, <1>8, <2>2 DEF BridgeInv
    <3> QED  BY <1>4, <1>5, <3>1
  <2> QED  BY <1>1, <1>8, <2>1, <2>2
<1>9. ASSUME NEW v \in Upserts PROVE CallAgrees(upsert[v])'
  <2>1. CallAgrees(upsert'[v])
    BY <1>3 DEF BridgeInv
  <2>2. ASSUME NEW c \in Chats, upsert'[v].watermarks[c] > 0
        PROVE  \E n \in handled' : chatOf[n] = c /\ stampOf[n] >= upsert'[v].watermarks[c]
    <3>1. PICK n \in handled : chatOf[n] = c /\ stampOf[n] >= upsert'[v].watermarks[c]
      BY <2>1, <2>2 DEF CallAgrees, Covered
    <3> QED  BY <1>1, <3>1
  <2> QED  BY <2>1, <2>2 DEF CallAgrees, Covered
<1> QED  BY <1>6, <1>7, <1>8, <1>9 DEF BridgeInv

\* A new adapter, with the calls of the old one or without them.
LEMMA NewAdapterKeeps ==
    ASSUME BridgeInv, RestartBridge \/ BridgeCrash
    PROVE  BridgeInv'
<1>1. /\ adapter < MaxAdapters /\ adapter' = adapter + 1
      /\ recvIds' = [recvIds EXCEPT ![adapter] = <<>>]
      /\ upsert' \in {upsert, [v \in Upserts |-> NoUpsert]} /\ UNCHANGED <<lastSeen, handled>>
  BY DEF RestartBridge, BridgeCrash
<1>2. BridgeTypeOK /\ NoUpsert \in Calls
  BY NoUpsertAgrees DEF BridgeInv, CallAgrees
<1>3. adapter' \in 1..MaxAdapters /\ recvIds' \in [1..MaxAdapters -> Seq(Messages)]
  BY <1>1, <1>2, BridgeFacts, BridgeAssumption
<1>4. upsert' \in [Upserts -> Calls]
  BY <1>1, <1>2, BridgeFacts
<1>5. BridgeTypeOK'
  BY <1>1, <1>2, <1>3, <1>4 DEF BridgeTypeOK, Calls
<1>6. ASSUME NEW v \in Upserts PROVE CallAgrees(upsert[v])'
  <2>1. CallAgrees(upsert'[v])
    BY <1>1, NoUpsertAgrees DEF BridgeInv
  <2> QED  BY <1>1, <2>1 DEF CallAgrees, Covered
<1>7. \A c \in Chats : Covered(lastSeen[c], c)'
  BY <1>1 DEF BridgeInv, Covered
<1> QED  BY <1>1, <1>5, <1>6, <1>7 DEF BridgeInv

LEMMA BridgeNextInv == BridgeInv /\ [BridgeNext]_bridgeVars => BridgeInv'
<1> SUFFICES ASSUME BridgeInv, [BridgeNext]_bridgeVars PROVE BridgeInv'
  OBVIOUS
<1>1. CASE UNCHANGED bridgeVars
  BY <1>1 DEF bridgeVars, BridgeInv, BridgeTypeOK, CallAgrees, Covered
<1>2. ASSUME NEW u \in Upserts, Unreadable(u) \/ HandOver(u) \/ HandlerReturns(u)
      PROVE  BridgeInv'
  BY <1>2, UnreadableKeeps, HandOverKeeps, HandlerReturnsKeeps
<1>3. ASSUME NEW u \in Upserts, NEW type \in {"notify", "append"}, NEW n \in 1..MaxBatch[u],
             NEW batch \in [1..n -> Messages], HandleMessageUpsert(u, type, batch)
      PROVE  BridgeInv'
  <2>1. batch \in Seq(Messages)
    BY BridgeAssumption
  <2> QED  BY <1>3, <2>1, HandleMessageUpsertKeeps
<1>4. CASE RestartBridge \/ BridgeCrash
  BY <1>4, NewAdapterKeeps
<1> QED  BY <1>1, <1>2, <1>3, <1>4 DEF BridgeNext

LEMMA BridgeInvImplies == BridgeInv => BridgeTypeOK /\ BacklogIsExact
<1> SUFFICES ASSUME BridgeInv PROVE BacklogIsExact
  BY DEF BridgeInv
<1>1. ASSUME NEW u \in Upserts, NEW c \in Chats, upsert[u].watermarks[c] > 0
      PROVE  \E n \in handled : chatOf[n] = c /\ stampOf[n] >= upsert[u].watermarks[c]
  BY <1>1 DEF BridgeInv, CallAgrees, Covered
<1>2. ASSUME NEW u \in Upserts, upsert[u].step # "none", chatOf[Head(upsert[u].rest)] \in Routed
      PROVE  Head(upsert[u].rest) \notin upsert[u].known
  <2> DEFINE m == Head(upsert[u].rest)
  <2>1. m \in Messages /\ CallAgrees(upsert[u]) /\ upsert[u].watermarks \in [Chats -> Nat]
    BY <1>2, InHands DEF Calls
  <2>2. stampOf[m] \in Nat /\ chatOf[m] \in Chats
    BY <2>1, BridgeFacts DEF BridgeInv
  <2>3. stampOf[m] > upsert[u].watermarks[chatOf[m]]
    BY <1>2, <2>1 DEF CallAgrees
  <2>4. m \in upsert[u].known => stampOf[m] <= upsert[u].watermarks[chatOf[m]]
    BY <1>2, <2>1 DEF CallAgrees
  <2> QED  BY <2>1, <2>2, <2>3, <2>4
<1> QED  BY <1>1, <1>2 DEF BacklogIsExact

\* Adapters, calls and watermarks have their types in every state.
THEOREM BridgeIsTyped == BridgeSpec => []BridgeTypeOK
  BY BridgeInitInv, BridgeNextInv, BridgeInvImplies, PTL DEF BridgeSpec

\* The gate of a backlog stops only what its chat is past, and everything
\* that was handled before it came.
THEOREM BacklogLosesNothing == BridgeSpec => []BacklogIsExact
  BY BridgeInitInv, BridgeNextInv, BridgeInvImplies, PTL DEF BridgeSpec

====
