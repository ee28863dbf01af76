------------------------------ MODULE ToolSteps ------------------------------
(***************************************************************************)
(* The tool primitive (primitives/tool.py): steps of one execution context *)
(* that call, one after the other, functions of the tool registry or tools *)
(* of MCP servers. Time passes in ticks while a step awaits.               *)
(***************************************************************************)
EXTENDS Integers

CONSTANTS
    ToolNames,       \* the tools of the MCP servers
    Registered,      \* the tool registry: names <<namespace, name>>, "" for none
    AllowedTools,    \* the workflow's allowed_tools, if it has any, in that form
    Servers,         \* MCP servers a step may name
    Connected,       \* those in the MCP registry
    ToolRequests,    \* the configurations of the steps
    MaxTime,         \* bound: ticks a step may last
    MaxSteps         \* bound: tool steps of a run

VARIABLES
    request,    \* the configuration of the step that runs
    where,      \* "idle", "start", "discover", "validate", "call", "local" or "over"
    spent,      \* ticks since budget_start
    left,       \* ticks until the armed wait_for fires, or NoTimeout
    schemas,    \* beddel._mcp_tool_schemas: server -> the tools it listed
    steps,      \* tool steps still to run
    result      \* how the last step ended

toolVars == <<request, where, spent, left, schemas, steps, result>>

NoTimeout == -1

ASSUME ToolAssumption ==
    \A r \in ToolRequests : r.kind = "mcp" => r.timeout \in Nat \union {NoTimeout}

Unlisted == {"unlisted"}

ToolIdle ==
    /\ request = [kind |-> "none"]
    /\ where = "idle"
    /\ spent = 0 /\ left = NoTimeout
    /\ schemas = [s \in Servers |-> Unlisted]
    /\ steps = 0
    /\ result = "none"

ToolStart ==
    /\ request \in ToolRequests
    /\ where = "start"
    /\ spent = 0 /\ left = NoTimeout
    /\ schemas = [s \in Servers |-> Unlisted]
    /\ steps = MaxSteps - 1
    /\ result = "none"

Refuse(how) ==
    /\ result' = how
    /\ where' = "over"
    /\ left' = NoTimeout
    /\ UNCHANGED <<request, spent, schemas, steps>>

\* Mutant: every await of the step gets the whole timeout.
RemainingInFull == request.timeout

(* _remaining_budget. *)
Remaining ==
    IF request.timeout = NoTimeout THEN NoTimeout ELSE request.timeout - spent

GoTo(place, limit) ==
    /\ where' = place
    /\ left' = limit
    /\ UNCHANGED <<request, spent, schemas, steps, result>>

-----------------------------------------------------------------------------
StartWithoutTool ==
    /\ where = "start"
    /\ request.kind = "incomplete"
    /\ Refuse("missing config")

(* Functions of the tool registry. A sync function runs in one go, before  *)
(* wait_for can end it; an async one is under the timeout.                 *)
Allowed(tool) ==
    \/ ~request.listed
    \/ tool \in AllowedTools
    \/ tool[1] # "" /\ <<"", tool[2]>> \in AllowedTools

Found(tool) == tool \in Registered

StartLocal ==
    /\ where = "start"
    /\ request.kind = "local"
    /\ IF ~request.registry THEN Refuse("no registry")
       ELSE IF ~Found(request.tool) THEN Refuse("not found")
       ELSE IF ~Allowed(request.tool) THEN Refuse("not allowed")
       ELSE
              \/ Refuse("unresolved")
              \/ GoTo("local", IF request.async THEN request.timeout ELSE NoTimeout)

LocalEnds ==
    /\ where = "local"
    /\ \E how \in {"returned", "tool failed"} : Refuse(how)

(* Tools of MCP servers, admitted by their qualified name only.            *)
AllowedOnServer(server, tool) == request.listed /\ <<server, tool>> \in AllowedTools

StartMcp ==
    /\ where = "start"
    /\ request.kind = "mcp"
    /\ LET listed == schemas[request.server] # Unlisted IN
       IF request.server \notin Connected THEN Refuse("no server")
       ELSE IF ~AllowedOnServer(request.server, request.tool) THEN Refuse("not allowed")
       ELSE
              \/ Refuse("unresolved")
              \/ ~request.validate /\ GoTo("call", Remaining)
              \/ request.validate /\ ~request.validator /\ Refuse("no validator")
              \/ /\ request.validate /\ request.validator
                 /\ IF listed THEN GoTo("validate", NoTimeout)
                              ELSE GoTo("discover", Remaining)

(* list_tools answered, and is kept for the steps after this one. *)
Discovered ==
    /\ where = "discover"
    /\ \E tools \in SUBSET ToolNames : schemas' = [schemas EXCEPT ![request.server] = tools]
    /\ where' = "validate"
    /\ left' = NoTimeout
    /\ UNCHANGED <<request, spent, steps, result>>

(* A TimeoutError of the client's own reads like one of wait_for. *)
DiscoveryFails ==
    /\ where = "discover"
    /\ \E how \in {"beddel error", "discovery failed", "timed out"} : Refuse(how)

(* The validator takes its time, which no wait_for bounds. *)
Validated ==
    /\ where = "validate"
    /\ IF request.tool \notin schemas[request.server]
       THEN Refuse("not listed")
       ELSE \/ Refuse("invalid arguments")
            \/ IF request.timeout # NoTimeout /\ Remaining <= 0
               THEN Refuse("timed out")
               ELSE GoTo("call", Remaining)

CallEnds ==
    /\ where = "call"
    /\ \E how \in {"returned", "beddel error", "call failed", "timed out"} : Refuse(how)

TimesOut ==
    /\ where \in {"discover", "call", "local"}
    /\ left = 0
    /\ Refuse("timed out")

(* The event loop runs what is due before it waits again. *)
Tick ==
    /\ where \in {"discover", "validate", "call", "local"}
    /\ spent < MaxTime
    /\ left # NoTimeout => left > 0
    /\ spent' = spent + 1
    /\ left' = IF left = NoTimeout THEN NoTimeout ELSE left - 1
    /\ UNCHANGED <<request, where, schemas, steps, result>>

NextStep ==
    /\ where = "over"
    /\ steps > 0
    /\ steps' = steps - 1
    /\ request' \in {r \in ToolRequests : r.listed = request.listed}
    /\ where' = "start"
    /\ spent' = 0
    /\ result' = "none"
    /\ UNCHANGED <<left, schemas>>

ToolProgress ==
    \/ StartWithoutTool \/ StartLocal \/ LocalEnds \/ StartMcp \/ Discovered \/ DiscoveryFails
    \/ Validated \/ CallEnds \/ TimesOut \/ NextStep

ToolSpec == ToolStart /\ [][ToolProgress \/ Tick]_toolVars

-----------------------------------------------------------------------------
(***************************************************************************)
(* Discovery and call of one step share one timeout: however long the      *)
(* server took to list its tools and the validator to check the arguments, *)
(* the step never awaits a server longer than its timeout. (A sync local   *)
(* function is not under any timeout: see the README.)                     *)
(***************************************************************************)
StepKeepsItsBudget ==
    (where \in {"discover", "call"} /\ request.timeout # NoTimeout) => spent <= request.timeout
=============================================================================
