------------------------------ MODULE MCDurable ------------------------------
(***************************************************************************)
(* Plans small enough for TLC: a workflow of two steps, and the same two   *)
(* steps in a loop of two iterations.                                      *)
(***************************************************************************)
EXTENDS Durable, TLC

CONSTANTS a, b

SequentialPlan == <<a, b>>

LoopPlan == <<a, b, a, b>>

ExecutionSymmetry == Permutations(Executions)
=============================================================================
