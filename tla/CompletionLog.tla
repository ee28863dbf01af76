---------------------------- MODULE CompletionLog ----------------------------
(***************************************************************************)
(* What the idempotency key of SQLiteEventStore promises: for each step of *)
(* a workflow one completion, which later appends leave alone until the    *)
(* workflow's events are truncated.                                        *)
(***************************************************************************)
CONSTANTS Steps, Completions, NoCompletion

VARIABLE log    \* the completion recorded for each step

Init == log = [s \in Steps |-> NoCompletion]

Complete(s) ==
    /\ log[s] = NoCompletion
    /\ log'[s] \in Completions
    /\ log' = [log EXCEPT ![s] = log'[s]]

Truncate == log' = [s \in Steps |-> NoCompletion]

Next ==
    \/ \E s \in Steps : Complete(s)
    \/ Truncate

vars == log

Spec == Init /\ [][Next]_vars
=============================================================================
