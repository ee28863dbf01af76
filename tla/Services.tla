------------------------------ MODULE Services ------------------------------
(***************************************************************************)
(* The services around a workflow, one of them at work in a behaviour:     *)
(* they share no state with each other.                                    *)
(***************************************************************************)
EXTENDS ApprovalGate, TriggerHandlers, Stores, EngineBridge, McpWiring

VARIABLE
    service      \* the service at work, or "none"

serviceVars ==
    <<service, gateVars, scheduleVars, sseVars, indexVars, stateVars, memoryVars,
      bridgeVars, wiringVars>>

GateAtWork      == service = "approvals"
ScheduleAtWork  == service = "schedule"
SSEAtWork       == service = "sse"
IndexAtWork     == service = "index"
StateAtWork     == service = "state"
MemoryAtWork    == service = "memory"
BridgeAtWork    == service = "engine"
WiringAtWork    == service = "mcp"

ServicesStart(s) ==
    /\ service = s
    /\ IF s = "approvals" THEN \E p \in Policies : GateStart(p) ELSE GateIdle
    /\ ScheduleIdle
    /\ IF s = "sse" THEN \E source \in BOOLEAN : SSEStart(source) ELSE SSEIdle
    /\ IndexIdle
    /\ StateIdle
    /\ IF s = "memory"
       THEN \E provider \in {"in memory", "external"} : MemoryStart(provider)
       ELSE MemoryIdle
    /\ IF s = "engine"
       THEN \E id \in {"none", "given"} : BridgeStart("fetch", id)
       ELSE BridgeIdle
    /\ IF s = "mcp" THEN \E c \in Compositions : WiringStart(c, "compose") ELSE WiringIdle

InitService ==
    \E s \in {"approvals", "schedule", "sse", "index", "state", "memory", "engine", "mcp"} :
        ServicesStart(s)

ServicesIdle == ServicesStart("none")

ServiceNext ==
    \/ /\ GateAtWork /\ GateNext
       /\ UNCHANGED <<service, scheduleVars, sseVars, indexVars, stateVars, memoryVars,
                      bridgeVars, wiringVars>>
    \/ /\ ScheduleAtWork /\ ScheduleNext
       /\ UNCHANGED <<service, gateVars, sseVars, indexVars, stateVars, memoryVars,
                      bridgeVars, wiringVars>>
    \/ /\ SSEAtWork /\ SSENext
       /\ UNCHANGED <<service, gateVars, scheduleVars, indexVars, stateVars, memoryVars,
                      bridgeVars, wiringVars>>
    \/ /\ UNCHANGED <<service, gateVars, scheduleVars, sseVars, bridgeVars, wiringVars>>
       /\ \/ IndexAtWork /\ IndexNext /\ UNCHANGED <<stateVars, memoryVars>>
          \/ StateAtWork /\ StateNext /\ UNCHANGED <<indexVars, memoryVars>>
          \/ MemoryAtWork /\ MemoryNext /\ UNCHANGED <<indexVars, stateVars>>
    \/ /\ BridgeAtWork /\ BridgeNext
       /\ UNCHANGED <<service, gateVars, scheduleVars, sseVars, indexVars, stateVars,
                      memoryVars, wiringVars>>
    \/ /\ WiringAtWork /\ WiringNext
       /\ UNCHANGED <<service, gateVars, scheduleVars, sseVars, indexVars, stateVars,
                      memoryVars, bridgeVars>>

ServicesSpec == InitService /\ [][ServiceNext]_serviceVars

-----------------------------------------------------------------------------
(* A sleeping timer wakes, a background task runs, a thread goes on, a     *)
(* disconnect has a timeout; nobody need ask, toggle, tick or send.        *)
ServiceFairness ==
    /\ \A r \in Approvals : WF_gateVars(TimerFires(r))
    /\ WF_memoryVars(MemoryAtWork /\ Land)
    /\ \A c \in Threads : WF_stateVars(StateAtWork /\ SaveGoesOn(c))
    /\ WF_bridgeVars(BridgeAtWork /\ TalkNext)
    /\ WF_bridgeVars(BridgeAtWork /\ ThreadNext)
    /\ WF_wiringVars(WiringAtWork /\ WiringNext)

=============================================================================
