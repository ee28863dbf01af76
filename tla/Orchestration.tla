---------------------------- MODULE Orchestration ----------------------------
(***************************************************************************)
(* One execution of a strategy, or one run of workflows that call others,  *)
(* skills and agents. A strategy sees the calls of its steps only as       *)
(* results, errors and suspensions, and a call runs its workflow step by   *)
(* step: the two share no state.                                           *)
(***************************************************************************)
EXTENDS GoalOriented, Reflection, EventDriven, AgentDelegation, CallAgent

CONSTANT MaxRounds     \* bound on max_attempts and max_iterations

ASSUME RoundsAssumption == MaxRounds \in Nat

executionVars == <<strategyVars, previous, told>>

Configs ==
    [kind : {"goal"}, max : 0 .. MaxRounds, backoff : BackoffTypes]
    \union [kind : {"reflection"}, max : 0 .. MaxRounds,
            algorithm : Algorithms,
            tags : [Steps -> SUBSET {"generate", "evaluate"}]]
    \union [kind : {"event-driven"}, max : {1}, trigger : BOOLEAN]
    \union [kind : {"agent-delegation"}, max : {1}, policy : Policies,
            adapter : Adapters, registry : BOOLEAN]

InitStrategy == StartIn(Configs) /\ previous = None /\ told = <<>>

StrategyIdle ==
    /\ StartIn({[kind |-> "none", max |-> 0]}) /\ ~suspended /\ results[TriggerKey] = Absent
    /\ previous = None /\ told = <<>>

(* Suspended from outside, at an await. *)
Suspend ==
    /\ pc \in {"steps", "sleep", "generate", "evaluate", "sequence", "delegated"}
    /\ ~suspended
    /\ suspended' = TRUE
    /\ UNCHANGED <<config, pc, todo, round, begun, results, stamp, record, outcome,
                   previous, told>>

StrategyProgress ==
    \/ GoalNext /\ UNCHANGED <<previous, told>>
    \/ ReflectionNext /\ UNCHANGED told
    \/ EventDrivenNext /\ UNCHANGED <<previous, told>>
    \/ AgentDelegationNext /\ UNCHANGED previous

-----------------------------------------------------------------------------
vars == <<executionVars, agentVars>>

Init ==
    \/ InitStrategy /\ CallIdle
    \/ InitCall /\ StrategyIdle

Progress ==
    \/ StrategyProgress /\ UNCHANGED agentVars
    \/ stack # <<>> /\ CallProgress /\ UNCHANGED executionVars

Next ==
    \/ Progress
    \/ Suspend /\ UNCHANGED agentVars
    \/ stack # <<>> /\ CancelCoordination /\ UNCHANGED callVars /\ UNCHANGED executionVars

Spec == Init /\ [][Next]_vars

(* Steps, agents and sleeps all return or raise in the end, and the loop   *)
(* that awaits them goes on.                                               *)
FairSpec == Spec /\ WF_vars(Progress)

-----------------------------------------------------------------------------
(***************************************************************************)
(* A goal is declared met, and a reflection converged, on results of the   *)
(* round just run: every step the verdict rests on was run in that round,  *)
(* and nothing of an earlier one, or of a restored context, decides it.    *)
(***************************************************************************)
VerdictIsOfTheLastRound ==
    (outcome = "returned" /\ record.verdict) =>
        /\ record.rounds = begun
        /\ IsGoal =>
              /\ results[GoalStep] \in Truthy
              /\ \A s \in Steps : stamp[s] = begun
        /\ IsReflection =>
              /\ \A s \in Steps : config.tags[s] # {} => stamp[s] = begun
              /\ LET final == results[Workflow[Max(Tagged("evaluate"))]] IN
                 IF config.algorithm = "threshold"
                 THEN Score[final] >= Threshold
                 ELSE Text[final] = Text[previous]

(***************************************************************************)
(* The loops are bounded: as many rounds as max_attempts or max_iterations *)
(* allow, satisfied only after a round, given up only after all of them.   *)
(* A sequence of steps and a delegation are loops of one round.            *)
(***************************************************************************)
IsLoop == IsGoal \/ IsReflection

LoopSatisfied == (IsLoop => record.verdict) /\ begun > 0

LoopEnded ==
    CASE outcome = "running"                                       -> "no"
      [] outcome = "returned" /\ LoopSatisfied                     -> "satisfied"
      [] outcome = "returned" /\ ~LoopSatisfied /\ suspended       -> "interrupted"
      [] \/ outcome = "returned" /\ ~LoopSatisfied /\ ~suspended
         \/ outcome = "goal attempts exhausted"                    -> "exhausted"
      [] OTHER                                                     -> "failed"

Rounds == INSTANCE RoundLoop WITH
    Ways <- {"satisfied", "exhausted", "interrupted", "failed"},
    limit <- config.max, rounds <- begun, ended <- LoopEnded

LoopsAreBounded == Rounds!Spec

(***************************************************************************)
(* Every execution of a strategy ends, whatever its steps return and       *)
(* whoever suspends it, and so does every run of the root workflow,        *)
(* however its workflows and agents call each other.                       *)
(***************************************************************************)
EveryOrchestrationEnds ==
    /\ config.kind # "none" => <>(outcome # "running")
    /\ stack # <<>> => <>(ended # "running")
=============================================================================
