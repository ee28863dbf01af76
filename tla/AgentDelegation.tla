--------------------------- MODULE AgentDelegation ---------------------------
(***************************************************************************)
(* AgentDelegationStrategy.execute (domain/strategies/agent_delegation.py) *)
(* hands the whole workflow to one adapter of the agent registry. config   *)
(* is the constructor's configuration with the workflow's metadata merged  *)
(* over it; the prompt is not modelled. The hooks around the call are told *)
(* and their errors only logged.                                           *)
(***************************************************************************)
EXTENDS StrategyContext

VARIABLE told     \* history: the hooks called, in order

IsDelegation == config.kind = "agent-delegation"

Policies == {"auto", "manual", "supervised"}
Adapters == {"unnamed", "unknown", "registered"}

Refusal ==
    IF config.policy # "auto" THEN "approval not implemented"
    ELSE IF config.adapter = "unnamed" THEN "adapter not found"
    ELSE IF ~config.registry THEN "agents not configured"
    ELSE IF config.adapter = "unknown" THEN "adapter not found"
    ELSE "none"

Validate ==
    /\ IsDelegation
    /\ pc = "start"
    /\ \/ Refusal # "none" /\ Raise(Refusal) /\ UNCHANGED told
       \/ Refusal = "none" /\ suspended /\ End("returned") /\ UNCHANGED <<record, told>>
       \/ /\ Refusal = "none"
          /\ ~suspended
          /\ told' = <<"start">>
          /\ begun' = 1
          /\ pc' = "delegated"
          /\ UNCHANGED <<config, todo, round, context, record, outcome>>

(* await adapter.execute: a result. *)
DelegateAnswers ==
    /\ IsDelegation
    /\ pc = "delegated"
    /\ results' = [results EXCEPT ![DelegationKey] = "agent result"]
    /\ told' = Append(told, "end")
    /\ pc' = "answered"
    /\ UNCHANGED <<config, todo, round, begun, stamp, suspended, record, outcome>>

(* Back from the on_step_end hook. *)
DelegationOver ==
    /\ IsDelegation
    /\ pc = "answered"
    /\ End("returned")
    /\ UNCHANGED <<record, told>>

(* An AgentError of the adapter goes through as it is. *)
AgentRaisesAgentError ==
    /\ IsDelegation
    /\ pc = "delegated"
    /\ Raise("agent error")
    /\ UNCHANGED told

(* Any other error is announced and wrapped. *)
AgentRaises ==
    /\ IsDelegation
    /\ pc = "delegated"
    /\ told' = Append(told, "error")
    /\ Raise("delegation failed")

AgentDelegationNext ==
    \/ Validate \/ DelegateAnswers \/ DelegationOver
    \/ AgentRaisesAgentError \/ AgentRaises
=============================================================================
