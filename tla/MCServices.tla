---- MODULE MCServices ----
(* Eleven components that share no state here, each in an instance of its own. *)
(* A behaviour is one of one of them: the others stay in an initial state.  *)
EXTENDS ContextBoundary, WorkflowRuns, SkillExecutions, BrowserCommands,
        NotificationBus, ScheduledTriggers, Delegation, BridgeInbound,
        BackgroundResults, McpTools, EmbeddingJobs

CONSTANTS Services,   \* the components to explore
          p1, p2, p3, s1, c1, c2, c3, x1, t1, t2, k1, k2, o1, d1, a1, a2, a3, r1, r2,
          m1, m2, m3, b1, b2, u1, u2, g1, g2, g3, v0, v1, v2, i1, i2, e1, e2

VARIABLE service

vars == <<service, boundaryVars, workflowVars, skillVars, browserVars, busVars, triggerVars, delegationVars,
          bridgeVars, backgroundVars, mcpVars, embeddingVars>>

\* One turn with room for three handoffs, or two turns of agents that may
\* delegate to one another.
limit(n) == [maxCalls |-> n, maxCostUsd |-> n]
MCHome == r1 :> a1 @@ r2 :> a2
MCBudgets == {r1 :> limit(3), r1 :> limit(1) @@ r2 :> limit(1)}

\* A chat with a route, whose older and newer message come in any order, and
\* one with a catch-all.
MCChatOf == m1 :> b1 @@ m2 :> b1 @@ m3 :> b2
MCStampOf == m1 :> 1 @@ m2 :> 2 @@ m3 :> 1
MCBatch == u1 :> 2 @@ u2 :> 1

\* One message and three events, or two messages and no event, that come with
\* a model configured. The first model is as good as the second.
MCEmbedding ==
    /\ msgRows[i1].status = "unborn"
    /\ \/ msgRows[i2].status = "gone" /\ events = 0 /\ active # e2
       \/ msgRows[i2].status = "unborn" /\ events = MaxEvents /\ active = e1 /\ service = "embedding"

MCPlan == <<"write", "choice", "read", "write">>

TypesOK ==
    /\ BoundaryTypeOK /\ WorkflowTypeOK /\ SkillTypeOK
    /\ BrowserTypeOK /\ BusTypeOK /\ TriggerTypeOK /\ DelegationTypeOK
    /\ BridgeTypeOK /\ BackgroundTypeOK /\ McpTypeOK /\ EmbeddingTypeOK

Init ==
    /\ service \in Services
    /\ BoundaryInit /\ BrowserInit /\ BusInit /\ BridgeInit /\ BackgroundInit
    /\ WorkflowInit /\ (service = "workflow" \/ run.owner = p1)
    /\ SkillInit /\ (service = "skill" \/ policy = "ask")
    /\ TriggerInit /\ (service = "trigger" \/ keyLocked)
    /\ DelegationInit /\ (service = "delegation" \/ DOMAIN root = {r1})
    /\ McpInit /\ (service = "mcp" \/ enabled = v0)
    /\ EmbeddingInit /\ MCEmbedding /\ (service = "embedding" \/ active = NoModel)

\* The variables of a component stay unless it is the one to explore.
Stays(s, v) == IF service = s THEN TRUE ELSE UNCHANGED v

OnlyService(s) ==
    /\ service = s /\ UNCHANGED service
    /\ Stays("boundary", boundaryVars) /\ Stays("workflow", workflowVars)
    /\ Stays("skill", skillVars) /\ Stays("browser", browserVars)
    /\ Stays("bus", busVars) /\ Stays("trigger", triggerVars)
    /\ Stays("delegation", delegationVars) /\ Stays("bridge", bridgeVars)
    /\ Stays("background", backgroundVars) /\ Stays("mcp", mcpVars)
    /\ Stays("embedding", embeddingVars)

Next ==
    \/ OnlyService("boundary") /\ BoundaryNext
    \/ OnlyService("workflow") /\ WorkflowNext
    \/ OnlyService("skill") /\ SkillNext
    \/ OnlyService("browser") /\ BrowserNext
    \/ OnlyService("bus") /\ BusNext
    \/ OnlyService("trigger") /\ TriggerNext
    \/ OnlyService("delegation") /\ DelegationNext
    \/ OnlyService("bridge") /\ BridgeNext
    \/ OnlyService("background") /\ BackgroundNext
    \/ OnlyService("mcp") /\ McpNext
    \/ OnlyService("embedding") /\ EmbeddingNext

\* Compactions end by their deadline at the latest, the poll's timer fires and
\* every firing ends, delegated turns end and tools have a clock.
Spec ==
    /\ Init /\ [][Next]_vars
    /\ \A k \in Kinds : WF_boundaryVars(service = "boundary" /\ EndWithoutCommit(k))
    /\ WF_triggerVars(service = "trigger" /\ (Tick \/ GetDueFirings \/ FiringEnds \/ TickEnds))
    /\ WF_delegationVars(service = "delegation" /\ DelegationProgress)

====
