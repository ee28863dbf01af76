------------------------------ MODULE CallAgent ------------------------------
(***************************************************************************)
(* The call-agent primitive (primitives/call_agent.py) and the resolver of *)
(* skills (domain/skill.py): a step runs another workflow, or a workflow   *)
(* of a kit, as a nested sequential run with a context of its own, or lets *)
(* several agents work together. A frame of the stack is one such run.     *)
(*                                                                         *)
(* The child gets a fresh context: its depth, for a skill its governance,  *)
(* and the services the code lists. Kit manifests are among them for a     *)
(* skill only; budget, breaker and event store for neither, which          *)
(* Executor's nested steps have.                                           *)
(***************************************************************************)
EXTENDS Coordination

CONSTANTS
    Flows,         \* the sequence of steps of each workflow
    Calls,         \* each step's configuration
    Tolerant,      \* the steps whose error strategy skips
    KitFlows,      \* the workflows of each kit of the manifests
    Allowed,       \* governance: the kits a strict policy allows,
    Blocked,       \* and those a permissive one blocks
    Scenarios      \* what a host may start: services and root frame

TwoDigits == 0 .. 99
IsVersion(v) == v \in Nat \X TwoDigits \X TwoDigits

ASSUME CallsAssumption ==
    /\ \A f \in DOMAIN Flows : Flows[f] \in Seq(DOMAIN Calls)
    /\ \A k \in DOMAIN KitFlows : KitFlows[k] \subseteq DOMAIN Flows
    /\ \A c \in DOMAIN Calls :
          /\ Calls[c].kind \in {"workflow", "skill"} => Calls[c].maxDepth \in Int
          /\ Calls[c].kind = "coordination" =>
                Calls[c].modes \subseteq Modes /\ \A t \in Calls[c].teams : t \in Seq(ToSet(t))
    /\ \A s \in Scenarios :
          /\ s.flow \in DOMAIN Flows /\ s.kits \in BOOLEAN
          /\ s.governance \in {"free", "strict", "permissive"}
          /\ IsVersion(s.deps.version) /\ IsVersion(s.deps.constraint.version)
    /\ MaxHandoffs \in Nat

VARIABLES
    deps,          \* the services, the kits' version and the one asked for
    stack,         \* the nested runs, the innermost last
    ended          \* "running", or how the root ended

callVars == <<deps, stack, ended>>

-----------------------------------------------------------------------------
(* Version constraints, a version being <<major, minor, patch>>.           *)

AtLeast(v, w) ==
    \/ v[1] > w[1]
    \/ v[1] = w[1] /\ v[2] > w[2]
    \/ v[1] = w[1] /\ v[2] = w[2] /\ v[3] >= w[3]

\* Mutant: a caret lets the minor version of a 0.x kit grow.
CaretOfMajor(v, w) == AtLeast(v, w) /\ ~AtLeast(v, <<w[1] + 1, 0, 0>>)

Caret(v, w) ==
    /\ AtLeast(v, w)
    /\ IF w[1] >= 1
       THEN ~AtLeast(v, <<w[1] + 1, 0, 0>>)
       ELSE ~AtLeast(v, <<0, w[2] + 1, 0>>)

Tilde(v, w) == AtLeast(v, w) /\ ~AtLeast(v, <<w[1], w[2] + 1, 0>>)

Satisfies(v, constraint) ==
    LET w == constraint.version IN
    CASE constraint.op = "any" -> TRUE
      [] constraint.op = ">="  -> AtLeast(v, w)
      [] constraint.op = ">"   -> AtLeast(v, w) /\ v # w
      [] constraint.op = "<="  -> AtLeast(w, v)
      [] constraint.op = "<"   -> AtLeast(w, v) /\ v # w
      [] constraint.op = "!="  -> v # w
      [] constraint.op = "^"   -> Caret(v, w)
      [] constraint.op = "~"   -> Tilde(v, w)
      [] OTHER                 -> v = w

-----------------------------------------------------------------------------
(* The stack.                                                              *)

Top == stack[Len(stack)]
StepsLeft == Top.at <= Len(Flows[Top.flow])
Current == Flows[Top.flow][Top.at]
Call == Calls[Current]

Running(kind) ==
    /\ ended = "running"
    /\ phase = "idle"
    /\ StepsLeft
    /\ ~Top.suspended
    /\ Call.kind = kind

Proceed == [stack EXCEPT ![Len(stack)].at = @ + 1]

(* The step raises: its error strategy skips, or its run fails with it. *)
RaiseStep ==
    IF Current \in Tolerant
    THEN stack' = Proceed /\ UNCHANGED ended
    ELSE LET skips(i) == Flows[stack[i].flow][stack[i].at] \in Tolerant IN
         \/ /\ \A i \in 1 .. Len(stack) : ~skips(i)
            /\ stack' = SubSeq(stack, 1, 1)
            /\ ended' = "raised"
         \/ \E i \in 1 .. Len(stack) :
               /\ skips(i)
               /\ \A j \in i + 1 .. Len(stack) : ~skips(j)
               /\ stack' = [SubSeq(stack, 1, i) EXCEPT ![i].at = @ + 1]
               /\ UNCHANGED ended

Enter(frame) == stack' = Append(stack, frame) /\ UNCHANGED ended

TooDeep == Top.depth >= Call.maxDepth

\* Mutant: a child counts from the depth of the root.
ChildFrameOfRoot(flow, kits, governance) ==
    [flow |-> flow, at |-> 1, depth |-> 1, kits |-> kits,
     governance |-> governance, via |-> Current, suspended |-> FALSE]

ChildFrame(flow, kits, governance) ==
    [flow |-> flow, at |-> 1, depth |-> Top.depth + 1, kits |-> kits,
     governance |-> governance, via |-> Current, suspended |-> FALSE]

(* A step of another primitive: it may suspend its own context. *)
PlainStepReturns ==
    /\ Running("plain")
    /\ \E s \in BOOLEAN : stack' = [Proceed EXCEPT ![Len(stack)].suspended = s]
    /\ UNCHANGED <<deps, ended>>

PlainStepRaises == Running("plain") /\ RaiseStep /\ UNCHANGED deps

CallWorkflow ==
    /\ Running("workflow")
    /\ UNCHANGED deps
    /\ IF ~deps.loader \/ ~deps.registry \/ TooDeep \/ Call.flow \notin DOMAIN Flows
       THEN RaiseStep
       ELSE Enter(ChildFrame(Call.flow, FALSE, "free"))

(***************************************************************************)
(* Governance is read from the metadata of the context: nothing in the     *)
(* program puts it there but this primitive, from parent to child, and the *)
(* host that built the root's context.                                     *)
(***************************************************************************)
Permits(governance, kit) ==
    /\ governance = "strict" => kit \in Allowed
    /\ governance = "permissive" => kit \notin Blocked

Resolves ==
    /\ Top.kits
    /\ Permits(Top.governance, Call.kit)
    /\ Call.kit \in DOMAIN KitFlows
    /\ Call.flow \in KitFlows[Call.kit]
    /\ Satisfies(deps.version, deps.constraint)

CallSkill ==
    /\ Running("skill")
    /\ UNCHANGED deps
    /\ IF ~Resolves \/ ~deps.loader \/ ~deps.registry \/ TooDeep
       THEN RaiseStep
       ELSE Enter(ChildFrame(Call.flow, TRUE, Top.governance))

\* Mutant: the step of the parent is not over when its child returns.
ReturnAndRepeat ==
    /\ ended = "running"
    /\ phase = "idle"
    /\ ~StepsLeft \/ Top.suspended
    /\ IF Len(stack) = 1
       THEN ended' = "returned" /\ UNCHANGED stack
       ELSE stack' = Front(stack) /\ UNCHANGED ended
    /\ UNCHANGED deps

(* The run is over, or suspended: its results are those of the step. *)
ReturnFromRun ==
    /\ ended = "running"
    /\ phase = "idle"
    /\ ~StepsLeft \/ Top.suspended
    /\ IF Len(stack) = 1
       THEN ended' = "returned" /\ UNCHANGED stack
       ELSE stack' = [Front(stack) EXCEPT ![Len(stack) - 1].at = @ + 1] /\ UNCHANGED ended
    /\ UNCHANGED deps

-----------------------------------------------------------------------------
(* Nested workflows whose steps call each other.                           *)

agentVars == <<callVars, coordinationVars>>

NoServices == [agents |-> FALSE]

InitCall ==
    /\ \E s \in Scenarios :
          /\ deps = s.deps
          /\ stack = <<[flow |-> s.flow, at |-> 1, depth |-> 0, kits |-> s.kits,
                        governance |-> s.governance, via |-> "host",
                        suspended |-> FALSE]>>
    /\ ended = "running"
    /\ CoordinationIdle

CallIdle ==
    /\ deps = NoServices
    /\ stack = <<>>
    /\ ended = "running"
    /\ CoordinationIdle

Strategies == {"supervisor", "handoff", "parallel-dispatch"}

(***************************************************************************)
(* A coordination step: its strategy must be known and all its agents be   *)
(* registered. parallel-dispatch takes its mode from its configuration.    *)
(* A kit may register further strategies, whose code is not here.          *)
(***************************************************************************)
CallCoordination ==
    /\ Running("coordination")
    /\ UNCHANGED deps
    /\ \/ /\ ~deps.agents \/ Call.strategy \notin Strategies
          /\ RaiseStep
          /\ UNCHANGED coordinationVars
       \/ /\ deps.agents
          /\ Call.strategy \in Strategies
          /\ \E mode \in Call.modes, team \in Call.teams, first \in Call.first :
                IF ToSet(team) \subseteq Agents
                THEN Coordinate(mode, team, first) /\ UNCHANGED <<stack, ended>>
                ELSE RaiseStep /\ UNCHANGED coordinationVars

(* coordinate returned or raised: so does the step. *)
CoordinationOver ==
    /\ phase = "over"
    /\ IF verdict.how = "answer"
       THEN stack' = Proceed /\ UNCHANGED ended
       ELSE RaiseStep
    /\ task' = Idle
    /\ phase' = "idle"
    /\ turn' = [a \in Agents |-> "idle"]
    /\ said' = [a \in Agents |-> Nothing]
    /\ seen' = {}
    /\ chain' = <<>>
    /\ current' = Nothing
    /\ plan' = {}
    /\ verdict' = Undecided
    /\ UNCHANGED deps

Run ==
    /\ PlainStepReturns \/ PlainStepRaises \/ CallWorkflow \/ CallSkill \/ ReturnFromRun
    /\ UNCHANGED coordinationVars

CallProgress ==
    \/ Run
    \/ CallCoordination
    \/ CoordinationOver
    \/ ((AgentStep \/ CoordinationStep) /\ UNCHANGED callVars)

-----------------------------------------------------------------------------
(***************************************************************************)
(* Workflows that call each other, or themselves, nest no deeper than the  *)
(* max_depth of each call on the way allows: the depth a context carries   *)
(* is its real one, through workflows and skills alike.                    *)
(***************************************************************************)
NestingIsBounded ==
    \A i \in 2 .. Len(stack) : i - 1 <= Calls[stack[i].via].maxDepth

(***************************************************************************)
(* Whatever skill is run below the host's workflow, through any chain of   *)
(* skills and workflows: the host's governance permits its kit, and the    *)
(* kit's version is one the constraint means: ^ keeps the first number     *)
(* that is not zero, ~ the first two, and neither goes back.               *)
(***************************************************************************)
Rank(v) == 10000 * v[1] + 100 * v[2] + v[3]

Means(constraint, v) ==
    LET w == constraint.version IN
    CASE constraint.op = "any" -> TRUE
      [] constraint.op = ">="  -> Rank(v) >= Rank(w)
      [] constraint.op = ">"   -> Rank(v) > Rank(w)
      [] constraint.op = "<="  -> Rank(v) <= Rank(w)
      [] constraint.op = "<"   -> Rank(v) < Rank(w)
      [] constraint.op = "!="  -> Rank(v) # Rank(w)
      [] constraint.op = "^"   -> /\ v[1] = w[1]
                                  /\ w[1] = 0 => v[2] = w[2]
                                  /\ Rank(v) >= Rank(w)
      [] constraint.op = "~"   -> v[1] = w[1] /\ v[2] = w[2] /\ v[3] >= w[3]
      [] OTHER                 -> v = w

SkillsArePermitted ==
    \A i \in 2 .. Len(stack) :
        Calls[stack[i].via].kind = "skill" =>
            /\ Permits(stack[1].governance, Calls[stack[i].via].kit)
            /\ Means(deps.constraint, deps.version)
=============================================================================
