---- MODULE McpTools ----
(***************************************************************************)
(* lib/mcp/client.ts: the tools of the enabled MCP servers, connected to   *)
(* on first use and cached until somebody edits the servers. getMcpTools   *)
(* shares one connecting run among its callers (`pending`); an edit stores *)
(* the row and calls invalidateMcpTools in one synchronous stretch, also   *)
(* while runs are connecting.                                              *)
(*                                                                         *)
(* Lines 79-83 close an active client before a run connects; the model     *)
(* leaves them out, because by the third part of McpToolsAreCurrent a run  *)
(* never finds one: where a client is active, its tools are cached.        *)
(***************************************************************************)
EXTENDS Integers

CONSTANTS
    ServerSets,       \* what may be configured: enabled servers and their specs
    NoServers,        \* the one of them with nothing enabled
    MaxGenerations,   \* bound of the model: edits
    MaxConnects       \* bound of the model: connecting runs

ASSUME McpAssumption == NoServers \in ServerSets /\ MaxGenerations \in Nat /\ MaxConnects \in Nat

VARIABLES
    enabled,       \* the enabled rows of mcp_servers
    generation,
    cachedTools,   \* the run whose tools are cached, or
    cacheKey,      \* the servers they are of
    connecting,    \* `pending`: a run, or NoConnect
    activeClient,  \* a run, whose clients it closes, or NoConnect
    connects       \* [1..MaxConnects -> the state of a run]

mcpVars == <<enabled, generation, cachedTools, cacheKey, connecting, activeClient, connects>>

Connects == 1..MaxConnects
NoConnect == 0
NoTools == -1   \* cachedTools is null
EmptyTools == 0 \* []

\* `gives` is what the run's promise resolved with, `clients` its subClients.
ConnectRuns == [
    step : {"none", "connects", "resolved", "settled"},
    generation : 0..MaxGenerations,
    key : ServerSets,
    gives : {EmptyTools} \cup Connects,
    clients : {"none", "open", "closed"}]

NotStarted == [step |-> "none", generation |-> 0, key |-> NoServers,
               gives |-> EmptyTools, clients |-> "none"]

McpTypeOK ==
    /\ enabled \in ServerSets
    /\ generation \in 0..MaxGenerations
    /\ cachedTools \in {NoTools, EmptyTools} \cup Connects
    /\ cacheKey \in ServerSets
    /\ {connecting, activeClient} \subseteq {NoConnect} \cup Connects
    /\ connects \in [Connects -> ConnectRuns]

McpInit ==
    /\ enabled \in ServerSets
    /\ generation = 0
    /\ cachedTools = NoTools /\ cacheKey = NoServers
    /\ connecting = NoConnect /\ activeClient = NoConnect
    /\ connects = [r \in Connects |-> NotStarted]

\* `if (cachedTools && cacheKey === key) return cachedTools`
cacheHit == cachedTools # NoTools /\ cacheKey = enabled

\* getMcpTools where nothing is cached and nobody connects; otherwise a
\* caller changes nothing. With no server there is nothing to wait for.
GetMcpTools(r) ==
    /\ ~cacheHit /\ connecting = NoConnect
    /\ \/ /\ enabled = NoServers
          /\ cachedTools' = EmptyTools /\ cacheKey' = enabled
          /\ UNCHANGED <<connecting, connects>>
       \/ /\ enabled # NoServers
          /\ connects[r].step = "none" /\ \A q \in 1..r - 1 : connects[q].step # "none"
          /\ connecting' = r
          /\ connects' = [connects EXCEPT ![r].step = "connects", ![r].key = enabled,
                                          ![r].generation = generation]
          /\ UNCHANGED <<cachedTools, cacheKey>>
    /\ UNCHANGED <<enabled, generation, activeClient>>

\* listTools of a server answers: its client goes to subClients. A server
\* that fails has none.
Connected(r) ==
    /\ connects[r].step = "connects"
    /\ connects' = [connects EXCEPT ![r].clients = "open"]
    /\ UNCHANGED <<enabled, generation, cachedTools, cacheKey, connecting, activeClient>>

\* Mutant of superseded: a run writes whatever happened since it started.
neverSuperseded(r) == FALSE

\* `generation !== myGen`
superseded(r) == generation # connects[r].generation

\* The run has been through its servers.
ConnectEnds(r) ==
    LET cached == IF cachedTools = NoTools THEN EmptyTools ELSE cachedTools IN
    /\ connects[r].step = "connects"
    /\ IF superseded(r) THEN UNCHANGED <<cachedTools, cacheKey, activeClient>>
       ELSE cachedTools' = r /\ cacheKey' = connects[r].key /\ activeClient' = r
    /\ connects' = [connects EXCEPT ![r].step = "resolved",
                                    ![r].gives = IF superseded(r) THEN cached ELSE r]
    /\ UNCHANGED <<enabled, generation, connecting>>

\* The caller that started the run goes on: `finally { pending = null }`,
\* whichever run is pending by now.
CallerSettles(r) ==
    /\ connects[r].step = "resolved"
    /\ connects' = [connects EXCEPT ![r].step = "settled"]
    /\ connecting' = NoConnect
    /\ UNCHANGED <<enabled, generation, cachedTools, cacheKey, activeClient>>

\* A route or an approved proposal stores or deletes a row, then
\* invalidateMcpTools: the active client is closed, in the background.
EditServers(s) ==
    /\ generation < MaxGenerations
    /\ enabled' = s
    /\ generation' = generation + 1
    /\ cachedTools' = NoTools /\ cacheKey' = NoServers
    /\ connecting' = NoConnect
    /\ activeClient' = NoConnect
    /\ connects' = [r \in Connects |->
          IF r = activeClient /\ connects[r].clients = "open"
          THEN [connects[r] EXCEPT !.clients = "closed"] ELSE connects[r]]

McpNext ==
    \/ \E r \in Connects : GetMcpTools(r) \/ Connected(r) \/ ConnectEnds(r) \/ CallerSettles(r)
    \/ \E s \in ServerSets : EditServers(s)

McpSpec == McpInit /\ [][McpNext]_mcpVars

----------------------------------------------------------------------------
(* Properties.                                                             *)

\* What is cached was loaded from the servers as they are now, by a run that
\* started after the last edit and whose clients are the active ones and are
\* not closed: a run that an edit overtook never installs its tools. Callers
\* share a run only if it started after that edit. The client behind the
\* cache is the only active one. And a run answers with nothing only if an
\* edit overtook it.
McpToolsAreCurrent ==
    /\ cachedTools \in Connects =>
         /\ cacheKey = enabled /\ activeClient = cachedTools
         /\ connects[cachedTools].generation = generation
         /\ connects[cachedTools].clients # "closed"
    /\ connecting # NoConnect => connects[connecting].generation = generation
    /\ activeClient # NoConnect => cachedTools = activeClient
    /\ \A r \in Connects : connects[r].step \in {"resolved", "settled"} =>
         IF connects[r].gives = EmptyTools THEN connects[r].generation < generation
         ELSE connects[connects[r].gives].generation >= connects[r].generation

====
