----------------------------- MODULE Reflection -----------------------------
(***************************************************************************)
(* ReflectionStrategy.execute (domain/strategies/reflection.py): run the   *)
(* steps tagged "generate", then those tagged "evaluate", until the last   *)
(* evaluate result converges or max_iterations is reached.                 *)
(***************************************************************************)
EXTENDS StrategyContext

CONSTANTS
    Text,          \* str(value)
    Score,         \* float(value), or NotANumber
    NotANumber,
    Threshold      \* convergence_threshold

VARIABLE previous  \* previous_eval

Algorithms == {"exact-match", "threshold"}

IsReflection == config.kind = "reflection"

(* Where the steps of a tag stand in the workflow. *)
Tagged(tag) == {i \in DOMAIN Workflow : tag \in config.tags[Workflow[i]]}

\* Mutant: the first evaluate step is looked at instead of the last.
FirstEval == results[Workflow[Min(Tagged("evaluate"))]]

CurrentEval == results[Workflow[Max(Tagged("evaluate"))]]

Converged ==
    IF config.algorithm = "threshold"
    THEN Score[CurrentEval] >= Threshold
    ELSE Text[CurrentEval] = Text[previous]

(* Partition the steps by tag; both parts must have a step. *)
Partition ==
    /\ IsReflection
    /\ pc = "start"
    /\ UNCHANGED previous
    /\ \/ Tagged("generate") = {} /\ Raise("no generate step")
       \/ /\ Tagged("generate") # {}
          /\ Tagged("evaluate") = {}
          /\ Raise("no evaluate step")
       \/ /\ Tagged("generate") # {}
          /\ Tagged("evaluate") # {}
          /\ UNCHANGED <<round, begun>>
          /\ Loop("again", {})

\* Mutant: the iterations are not counted against their limit.
NextIterationAlways ==
    /\ IsReflection
    /\ pc = "again"
    /\ UNCHANGED previous
    /\ \/ /\ ~suspended
          /\ round' = (round + 1) % (config.max + 2)
          /\ begun' = round'
          /\ Loop("generate", Tagged("generate"))
       \/ /\ suspended
          /\ Return(round + 1, FALSE)

(* The head of the for loop. *)
NextIteration ==
    /\ IsReflection
    /\ pc = "again"
    /\ UNCHANGED previous
    /\ \/ /\ round < config.max
          /\ ~suspended
          /\ round' = round + 1
          /\ begun' = begun + 1
          /\ Loop("generate", Tagged("generate"))
       \/ /\ round < config.max
          /\ suspended
          /\ Return(round + 1, FALSE)
       \/ /\ round = config.max
          /\ Return(round, FALSE)

ReflectionStepReturns ==
    IsReflection /\ pc \in {"generate", "evaluate"} /\ StepReturns /\ UNCHANGED previous
ReflectionStepRaises ==
    IsReflection /\ pc \in {"generate", "evaluate"} /\ StepRaises /\ UNCHANGED previous

(* Between the two phases a suspension is looked for once more. *)
Generated ==
    /\ IsReflection
    /\ pc = "generate"
    /\ todo = {}
    /\ UNCHANGED previous
    /\ IF suspended
       THEN Return(round, FALSE)
       ELSE UNCHANGED <<round, begun>> /\ Loop("evaluate", Tagged("evaluate"))

(* Check convergence, announce the decision, or feed the result back. *)
Evaluated ==
    /\ IsReflection
    /\ pc = "evaluate"
    /\ todo = {}
    /\ \/ /\ config.algorithm = "threshold"
          /\ Score[CurrentEval] = NotANumber
          /\ Raise("threshold needs a number")
          /\ UNCHANGED previous
       \/ /\ config.algorithm = "threshold" => Score[CurrentEval] # NotANumber
          /\ Converged
          /\ Return(round, TRUE)
          /\ UNCHANGED previous
       \/ /\ config.algorithm = "threshold" => Score[CurrentEval] # NotANumber
          /\ ~Converged
          /\ previous' = CurrentEval
          /\ results' = [results EXCEPT ![FeedbackKey] = CurrentEval]
          /\ pc' = "again"
          /\ UNCHANGED <<config, todo, round, begun, stamp, suspended, record, outcome>>

ReflectionNext ==
    \/ Partition \/ NextIteration \/ ReflectionStepReturns \/ ReflectionStepRaises
    \/ Generated \/ Evaluated
=============================================================================
