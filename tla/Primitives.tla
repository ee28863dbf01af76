----------------------------- MODULE Primitives -----------------------------
(***************************************************************************)
(* One step of a workflow whose primitive is a model call, a guardrail, a  *)
(* tool, or one of those without a loop: agent-exec, decide and            *)
(* output-generator (primitives/agent_exec.py, decide.py,                  *)
(* output_generator.py). Tools run several steps in one context.           *)
(***************************************************************************)
EXTENDS ModelCalls, Guardrail, ToolSteps

CONSTANTS
    PlainCalls      \* configurations of agent-exec, decide and output-generator steps

VARIABLES
    call,       \* the configuration of the step
    point,      \* "idle", "start", "agent", "sinks" or "over"
    toTell,     \* the sinks of a decision not told yet
    told,       \* history: those that were
    surfaces,   \* how many A2UI surfaces the metadata holds
    outcome     \* what the step returned or raised

plainVars == <<call, point, toTell, told, surfaces, outcome>>

PlainIdle ==
    /\ call = [primitive |-> "none"]
    /\ point = "idle"
    /\ toTell = <<>> /\ told = {}
    /\ surfaces = 0
    /\ outcome = "none"

EndPlain(how) ==
    /\ outcome' = how
    /\ point' = "over"
    /\ UNCHANGED call

Fail(how) == EndPlain(how) /\ UNCHANGED <<toTell, told, surfaces>>

Starts(primitive) == point = "start" /\ call.primitive = primitive

-----------------------------------------------------------------------------
(* agent-exec: the adapter is looked up and awaited; what it raises comes  *)
(* out as an AgentError.                                                   *)
StartAgent ==
    /\ Starts("agent-exec")
    /\ IF call.problem # "none" THEN Fail(call.problem)
       ELSE \/ Fail("unresolved")
            \/ /\ point' = "agent"
               /\ UNCHANGED <<call, toTell, told, surfaces, outcome>>

AgentReturns ==
    /\ point = "agent"
    /\ \E how \in {"returned", "agent error"} : Fail(how)

-----------------------------------------------------------------------------
(* decide: the decision goes to the hook, the tracer and the store, as far *)
(* as the context has them, and is returned. What a sink raises is logged. *)
Sinks == <<"hook", "tracer", "store">>

StartDecision ==
    /\ Starts("decide")
    /\ IF call.problem # "none" THEN Fail(call.problem)
       ELSE /\ point' = "sinks"
            /\ toTell' = SelectSeq(Sinks, LAMBDA s : s \in call.sinks)
            /\ UNCHANGED <<call, told, surfaces, outcome>>

(* The sink takes the decision, or raises. *)
TellSink ==
    /\ point = "sinks"
    /\ toTell # <<>>
    /\ told' = told \union {Head(toTell)}
    /\ toTell' = Tail(toTell)
    /\ UNCHANGED <<call, point, surfaces, outcome>>

DecisionOver ==
    /\ point = "sinks"
    /\ toTell = <<>>
    /\ EndPlain("returned")
    /\ UNCHANGED <<toTell, told, surfaces>>

-----------------------------------------------------------------------------
(* output-generator: the template resolves to a structure or a text, and   *)
(* stays as it is, a text, when a reference in it does not resolve. An     *)
(* A2UI output must be JSON and is kept for the executor to announce.      *)
Resolved == IF call.template = "unresolvable" THEN "text" ELSE call.template

Formats == {"json", "markdown", "text", "a2ui"}

Formatted ==
    CASE Resolved = "unserializable" -> IF call.format = "json" THEN "format failed" ELSE "TypeError"
      [] Resolved = "text"           -> IF call.format = "a2ui" THEN "format failed" ELSE "returned"
      [] OTHER                       -> "returned"

GenerateOutput ==
    /\ Starts("output-generator")
    /\ IF call.template = "missing" THEN Fail("missing template")
       ELSE IF call.format \notin Formats THEN Fail("unsupported format")
       ELSE
              /\ EndPlain(Formatted)
              /\ surfaces' = IF call.format = "a2ui" /\ Formatted = "returned"
                             THEN surfaces + 1 ELSE surfaces
              /\ UNCHANGED <<toTell, told>>

PlainNext ==
    \/ StartAgent \/ AgentReturns \/ StartDecision \/ TellSink \/ DecisionOver
    \/ GenerateOutput

-----------------------------------------------------------------------------
(* One step, or the tool steps of one context.                            *)

primitiveVars == <<modelVars, guardVars, toolVars, plainVars>>

InitModel ==
    /\ ModelStart
    /\ GuardIdle /\ ToolIdle /\ PlainIdle

InitGuardrail ==
    /\ GuardStart
    /\ ModelIdle /\ ToolIdle /\ PlainIdle

InitTool ==
    /\ ToolStart
    /\ ModelIdle /\ GuardIdle /\ PlainIdle

InitPlain ==
    /\ call \in PlainCalls
    /\ point = "start"
    /\ toTell = <<>> /\ told = {}
    /\ surfaces = 0
    /\ outcome = "none"
    /\ ModelIdle /\ GuardIdle /\ ToolIdle

InitPrimitive == InitModel \/ InitGuardrail \/ InitTool \/ InitPlain

PrimitivesIdle == ModelIdle /\ GuardIdle /\ ToolIdle /\ PlainIdle

PrimitiveProgress ==
    \/ ModelNext /\ UNCHANGED <<guardVars, toolVars, plainVars>>
    \/ GuardNext /\ UNCHANGED <<modelVars, toolVars, plainVars>>
    \/ ToolProgress /\ UNCHANGED <<modelVars, guardVars, plainVars>>
    \/ PlainNext /\ UNCHANGED <<modelVars, guardVars, toolVars>>

(* The conversation before the step, and time, are not the step's own. *)
PrimitiveNext ==
    \/ PrimitiveProgress
    \/ Compose /\ UNCHANGED <<guardVars, toolVars, plainVars>>
    \/ Tick /\ UNCHANGED <<modelVars, guardVars, plainVars>>
=============================================================================
