----------------------------- MODULE EventDriven -----------------------------
(***************************************************************************)
(* EventDrivenExecutionStrategy.execute (domain/strategies/event_driven.py)*)
(* puts a default TriggerEvent where no handler has put its own, and then  *)
(* runs the steps in order until one of them suspends the workflow.        *)
(***************************************************************************)
EXTENDS StrategyContext

IsEventDriven == config.kind = "event-driven"

Triggered ==
    IF config.trigger /\ results[TriggerKey] = Absent
    THEN [results EXCEPT ![TriggerKey] = "default"]
    ELSE results

InjectTrigger ==
    /\ IsEventDriven
    /\ pc = "start"
    /\ results' = Triggered
    /\ pc' = "sequence"
    /\ todo' = DOMAIN Workflow
    /\ begun' = 1
    /\ UNCHANGED <<config, round, stamp, suspended, record, outcome>>

SequenceStepReturns ==
    IsEventDriven /\ pc = "sequence" /\ ~suspended /\ StepReturns
SequenceStepRaises ==
    IsEventDriven /\ pc = "sequence" /\ ~suspended /\ StepRaises

SequenceOver ==
    /\ IsEventDriven
    /\ pc = "sequence"
    /\ suspended \/ todo = {}
    /\ End("returned")
    /\ UNCHANGED record

EventDrivenNext ==
    InjectTrigger \/ SequenceStepReturns \/ SequenceStepRaises \/ SequenceOver
=============================================================================
