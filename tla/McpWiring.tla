------------------------------ MODULE McpWiring ------------------------------
(***************************************************************************)
(* The MCP servers of one run of the command line: a composition that is   *)
(* refused for one of many reasons or builds a client for each server that *)
(* a step names (cli/mcp_composition.py, domain/mcp_composition.py), and   *)
(* the closing of what was built, however the run ends.                    *)
(***************************************************************************)
EXTENDS Integers, Sequences

CONSTANTS
    McpServers,      \* 1 .. n, in the order of mcp_servers
    Compositions     \* workflows with their surroundings, see Refusals

ASSUME CompositionsAssumption ==
    /\ McpServers \subseteq Nat
    /\ \A c \in Compositions : DOMAIN c.transports \subseteq McpServers

VARIABLES
    composition,     \* the one of this run
    wiring,          \* compose, build, run, close or over
    clients,         \* _built: the servers of the clients
    next,            \* the server, or the client to close, that comes next
    closed,          \* how often each client was asked to disconnect
    kitModule,       \* sys.modules[KIT_MODULE]: none, ours or foreign
    schemaValidator,       \* schema_validator was found
    ending,          \* what the run raises or returns
    cancelledLate    \* history: a disconnect was cancelled

wiringVars ==
    <<composition, wiring, clients, next, closed, kitModule, schemaValidator, ending, cancelledLate>>

Reference == 0        \* a server named by a $-reference, not a literal
NoComposition == [loaded |-> "none"]
ZeroClosed == [s \in McpServers |-> 0]

WiringStart(c, place) ==
    /\ composition = c
    /\ wiring = place
    /\ clients = <<>> /\ next = 1 /\ closed = ZeroClosed
    /\ kitModule = c.loaded /\ schemaValidator = FALSE
    /\ ending = "none" /\ cancelledLate = FALSE

WiringIdle == WiringStart(NoComposition, "idle")

-----------------------------------------------------------------------------
(* locate_kit_source and load_kit_module.                                  *)
KitRefusal(c) ==
    IF c.noKits THEN "kits_disabled"
    ELSE IF c.kit \in {"absent", "unreadable", "no source"} THEN "kit_unavailable"
    ELSE IF c.kit = "two" THEN "kit_location_ambiguous"
    ELSE IF c.loaded = "foreign" THEN "kit_location_mismatch"
    ELSE IF c.loaded = "none" /\ c.kit = "raises" THEN "kit_unavailable"
    ELSE "none"

(* A kit that raised is taken out of sys.modules again. *)
Loaded(c) == IF KitRefusal(c) # "none" THEN c.loaded ELSE "ours"

Known(c, s) == c.transports[s] = "streamable" /\ c.kit # "no adapter"

(* validate_mcp_composition, its reasons without their order. A step names *)
(* a server and a tool, by a literal or not; steps of branches count.      *)
StepRefusals(c, s) ==
    IF s.server = Reference \/ s.tool = "reference" THEN {"invalid_name"}
    ELSE IF ~(c.declares /\ s.server \in DOMAIN c.transports) THEN {"undeclared_server"}
    ELSE IF ~Known(c, s.server) THEN {"unknown_transport"}
    ELSE IF ~(c.allowlist /\ s.tool = "allowed") THEN {"tool_not_allowed"}
    ELSE {}

Refusals(c) ==
    IF c.declares /\ \E s \in DOMAIN c.transports :
          c.transports[s] = "streamable" /\ c.kit = "no adapter"
    THEN {"adapter_unavailable"}
    ELSE IF c.declares /\ ~c.allowlist THEN {"missing_allowlist"}
    ELSE IF \E s \in c.steps : StepRefusals(c, s) # {}
    THEN UNION {StepRefusals(c, s) : s \in c.steps}
    ELSE IF ~c.declares THEN {}
    ELSE IF \E s \in DOMAIN c.transports : ~Known(c, s) THEN {"unknown_transport"}
    ELSE IF c.reserved \intersect DOMAIN c.transports # {} THEN {"name_collision"}
    ELSE {}

Uses(c) == c.declares \/ c.steps # {}

Named(c) == {s.server : s \in c.steps}

RefuseComposition(reason) ==
    /\ wiring' = "over"
    /\ ending' = reason
    /\ UNCHANGED <<clients, next, schemaValidator>>

(* compose_mcp up to its first constructor. *)
ComposeMcp ==
    LET c == composition IN
    /\ wiring = "compose"
    /\ UNCHANGED <<composition, closed, cancelledLate>>
    /\ IF ~Uses(c)
       THEN wiring' = "run" /\ UNCHANGED <<clients, next, kitModule, schemaValidator, ending>>
       ELSE /\ kitModule' = Loaded(c)
            /\ IF KitRefusal(c) # "none" THEN RefuseComposition(KitRefusal(c))
               ELSE IF Refusals(c) # {} THEN \E reason \in Refusals(c) : RefuseComposition(reason)
               ELSE /\ wiring' = "build"
                    /\ schemaValidator' = (c.kit # "no validator")
                    /\ UNCHANGED <<clients, next, ending>>

ToBuild == {s \in Named(composition) : s >= next}

(* Constructors run in the order of the declarations; the first that       *)
(* raises ends it, and what was built is closed.                           *)
BuildClient ==
    /\ wiring = "build"
    /\ \E s \in ToBuild :
          /\ \A t \in ToBuild : s <= t
          /\ \/ /\ clients' = Append(clients, s)
                /\ next' = s + 1
                /\ UNCHANGED <<wiring, ending>>
             \/ /\ wiring' = IF clients = <<>> THEN "over" ELSE "close"
                /\ ending' = "adapter_construction_failed"
                /\ next' = 1
                /\ UNCHANGED clients
    /\ UNCHANGED <<composition, closed, kitModule, schemaValidator, cancelledLate>>

AllBuilt ==
    /\ wiring = "build" /\ ToBuild = {}
    /\ wiring' = "run"
    /\ UNCHANGED <<composition, clients, next, closed, kitModule, schemaValidator, ending, cancelledLate>>

(* execute_and_close: the workflow ends, raises or is cancelled. *)
WorkflowEnds ==
    /\ wiring = "run"
    /\ wiring' = "close"
    /\ ending' \in {"result", "error", "cancelled"}
    /\ next' = 1
    /\ UNCHANGED <<composition, clients, closed, kitModule, schemaValidator, cancelledLate>>

\* Mutant: a cancellation leaves the loop at once.
ClosedUnlessCancelled(s, how) ==
    /\ closed' = [closed EXCEPT ![s] = @ + 1]
    /\ cancelledLate' = (cancelledLate \/ how = "cancelled")
    /\ next' = IF how = "cancelled" THEN Len(clients) + 1 ELSE next + 1

ClosedHow(s, how) ==
    /\ closed' = [closed EXCEPT ![s] = @ + 1]
    /\ cancelledLate' = (cancelledLate \/ how = "cancelled")
    /\ next' = next + 1

(* aclose: a disconnect returns, fails, takes too long or is cancelled;    *)
(* the next client is asked all the same.                                  *)
Disconnect ==
    /\ wiring = "close" /\ next <= Len(clients)
    /\ \E how \in {"done", "failed", "timed out", "cancelled"} : ClosedHow(clients[next], how)
    /\ UNCHANGED <<composition, wiring, clients, kitModule, schemaValidator, ending>>

AllClosed ==
    /\ wiring = "close" /\ next > Len(clients)
    /\ wiring' = "over"
    /\ ending' = IF cancelledLate THEN "cancelled" ELSE ending
    /\ UNCHANGED <<composition, clients, next, closed, kitModule, schemaValidator, cancelledLate>>

WiringNext == ComposeMcp \/ BuildClient \/ AllBuilt \/ WorkflowEnds \/ Disconnect \/ AllClosed

-----------------------------------------------------------------------------
(***************************************************************************)
(* However composition, run and disconnects end, each client that was      *)
(* built was asked to disconnect exactly once, and a cancellation that     *)
(* fell into the closing is not lost.                                      *)
(***************************************************************************)
EveryClientIsClosed ==
    wiring = "over" =>
        /\ \A s \in McpServers :
              closed[s] = IF \E n \in DOMAIN clients : clients[n] = s THEN 1 ELSE 0
        /\ cancelledLate => ending = "cancelled"
=============================================================================
