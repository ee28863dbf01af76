---------------------------- MODULE GoalOriented ----------------------------
(***************************************************************************)
(* GoalOrientedStrategy.execute (domain/strategies/goal_oriented.py): run  *)
(* all steps, evaluate goal_condition, sleep, and again, until the goal is *)
(* met or max_attempts is reached. The condition reads the result of       *)
(* GoalStep; a value is resolved to true or false, or cannot be resolved.  *)
(***************************************************************************)
EXTENDS StrategyContext

CONSTANTS
    GoalStep,         \* the step whose result goal_condition refers to
    Truthy,           \* the values the condition coerces to True
    Unresolvable,     \* the values the condition raises on
    BackoffBase,      \* backoff_base, in seconds
    BackoffMax        \* backoff_max, in seconds

BackoffTypes == {"fixed", "exponential", "adaptive"}

IsGoal == config.kind = "goal"

GoalMet == results[GoalStep] \in Truthy

(***************************************************************************)
(* The delay after an attempt, in units of 1 / max_attempts seconds, in    *)
(* which the adaptive formula has no fraction.                             *)
(***************************************************************************)
Backoff(attempt) ==
    CASE config.backoff = "fixed" -> BackoffBase * config.max
      [] config.backoff = "exponential" ->
            LET doubled == BackoffBase * 2^(attempt - 1)
            IN (IF doubled < BackoffMax THEN doubled ELSE BackoffMax) * config.max
      [] config.backoff = "adaptive" -> BackoffBase * attempt * BackoffMax

\* Mutant: a suspension is not looked for after the loop.
GoalLoopOverWhenSuspended(attempt, met) ==
    IF ~met THEN Raise("goal attempts exhausted") ELSE Return(attempt, met)

(* After the loop: raise if the goal was never met, unless suspended. *)
GoalLoopOver(attempt, met) ==
    IF ~met /\ ~suspended
    THEN Raise("goal attempts exhausted")
    ELSE Return(attempt, met)

(* The head of the for loop: the next attempt, a suspension, or no more. *)
NextAttempt ==
    /\ IsGoal
    /\ pc \in {"start", "sleep"}
    /\ \/ /\ round < config.max
          /\ ~suspended
          /\ round' = round + 1
          /\ begun' = begun + 1
          /\ Loop("steps", DOMAIN Workflow)
       \/ /\ round < config.max
          /\ suspended
          /\ GoalLoopOver(round + 1, FALSE)
       \/ /\ round = config.max
          /\ GoalLoopOver(round, FALSE)

GoalStepReturns == IsGoal /\ pc = "steps" /\ StepReturns
GoalStepRaises == IsGoal /\ pc = "steps" /\ StepRaises

(* The round is over: evaluate the condition and announce the decision. *)
EvaluateGoal ==
    /\ IsGoal
    /\ pc = "steps"
    /\ todo = {}
    /\ IF results[GoalStep] \in Unresolvable
       THEN Raise("goal condition failed")
       ELSE /\ pc' = "decided"
            /\ UNCHANGED <<config, todo, round, begun, context, record, outcome>>

(* Back from the on_decision hook, whose errors are only logged. *)
GoalDecided ==
    /\ IsGoal
    /\ pc = "decided"
    /\ \/ GoalMet /\ GoalLoopOver(round, TRUE)
       \/ ~GoalMet /\ round = config.max /\ GoalLoopOver(round, FALSE)
       \/ ~GoalMet /\ round < config.max /\ round' = round /\ begun' = begun
          /\ Loop("sleep", {})

GoalNext ==
    NextAttempt \/ GoalStepReturns \/ GoalStepRaises \/ EvaluateGoal \/ GoalDecided
=============================================================================
