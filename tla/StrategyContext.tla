--------------------------- MODULE StrategyContext ---------------------------
(***************************************************************************)
(* What the execution strategies of domain/strategies share: the           *)
(* ExecutionContext they are handed (step_results, metadata, suspended)    *)
(* and the step_runner callback of the executor. One execution of one      *)
(* strategy; config says which strategy and how it is configured.          *)
(*                                                                         *)
(* The callback runs one step with its whole lifecycle (module Executor):  *)
(* it stores a result and returns, or raises. A primitive, or whoever else *)
(* holds the context, may suspend the workflow meanwhile.                  *)
(***************************************************************************)
EXTENDS Integers, Sequences, SequencesExt, FiniteSetsExt

CONSTANTS
    Workflow,      \* the sequence of steps
    Values,        \* results of steps
    None,          \* the Python value None, a member of Values
    Suspending     \* the steps whose primitive may suspend the workflow

VARIABLES
    config,        \* the strategy and its configuration
    pc,            \* the await at which execute stands
    todo,          \* the positions of the steps left in the current for loop
    round,         \* the loop variable: attempt, or iteration
    begun,         \* history: the rounds that ran a step
    results,       \* context.step_results
    stamp,         \* history: the round that wrote each step's result
    suspended,     \* context.suspended
    record,        \* metadata["_goal"] or metadata["_reflection"]
    outcome        \* "running", "returned" or what execute raised

context == <<results, stamp, suspended>>
strategyVars == <<config, pc, todo, round, begun, context, record, outcome>>

Steps == ToSet(Workflow)

ASSUME WorkflowAssumption == Workflow \in Seq(Steps)

TriggerKey == "_trigger"
FeedbackKey == "_reflection_feedback"
DelegationKey == "agent-delegation"
Keys == Steps \union {TriggerKey, FeedbackKey, DelegationKey}
Absent == "absent"
NoRecord == [rounds |-> -1, verdict |-> FALSE]

(***************************************************************************)
(* A context is fresh, or restored from a checkpoint that was suspended;   *)
(* a trigger handler may have put its event there.                         *)
(***************************************************************************)
StartIn(configs) ==
    /\ config \in configs
    /\ pc = "start"
    /\ todo = {}
    /\ round = 0
    /\ begun = 0
    /\ \E t \in {Absent, "handler"} :
          results = [k \in Keys |-> IF k = TriggerKey THEN t ELSE Absent]
    /\ stamp = [s \in Steps |-> 0]
    /\ suspended \in BOOLEAN
    /\ record = NoRecord
    /\ outcome = "running"

End(how) ==
    /\ pc' = "ended"
    /\ outcome' = how
    /\ UNCHANGED <<config, todo, round, begun, context>>

Raise(error) == End(error) /\ UNCHANGED record

Return(rounds, verdict) ==
    End("returned") /\ record' = [rounds |-> rounds, verdict |-> verdict]

(* Enter a for loop over the steps at some positions, in their order. *)
Loop(where, positions) ==
    /\ pc' = where
    /\ todo' = positions
    /\ UNCHANGED <<config, context, record, outcome>>

(* await step_runner(step, context), which stores a result or raises. *)
NextStep == Workflow[Min(todo)]

StepReturns ==
    /\ todo # {}
    /\ \E v \in Values : results' = [results EXCEPT ![NextStep] = v]
    /\ stamp' = [stamp EXCEPT ![NextStep] = begun]
    /\ suspended' \in {suspended, suspended \/ NextStep \in Suspending}
    /\ todo' = todo \ {Min(todo)}
    /\ UNCHANGED <<config, pc, round, begun, record, outcome>>

StepRaises == todo # {} /\ Raise("step error")
=============================================================================
