----------------------------- MODULE MCExecutor -----------------------------
(***************************************************************************)
(* Workflows small enough for TLC.  Each has the steps of one question:    *)
(* which strategies, branches and providers meet in it.                    *)
(***************************************************************************)
EXTENDS Executor, TLC

CONSTANTS a, b, c, d, vendor

\* Step structure shared by the definitions below: every step a leaf, then
\* the exceptions.
Leaves(S) == [s \in S |-> <<>>]

\* Runs of the same workflow are interchangeable.
RunSymmetry == Permutations(Runs)

\* Branching: a conditional LLM step whose failures are retried, with an LLM
\* step in its then branch and a tool step in its else branch.
BranchWorkflow == <<a>>
BranchThen == (a :> <<b>>) @@ Leaves(Steps)
BranchElse == (a :> <<c>>) @@ Leaves(Steps)
BranchStrategy == (a :> "retry") @@ (b :> "skip") @@ (c :> "fail")
BranchFallback == [s \in Steps |-> NoStep]
BranchAttempts == [s \in Steps |-> 2]
BranchProvider == (a :> vendor) @@ (b :> vendor) @@ (c :> NoProvider)

\* Recovery: a delegate whose choices include a fallback, a fallback step
\* with a fallback of its own, a retry without attempts, a tool step that is
\* skipped when it fails.
RecoveryWorkflow == <<a, b>>
RecoveryThen == Leaves(Steps)
RecoveryStrategy ==
    (a :> "delegate") @@ (b :> "retry") @@ (c :> "fallback") @@ (d :> "skip")
RecoveryFallback ==
    (a :> c) @@ (c :> d) @@ [s \in Steps |-> NoStep]
RecoveryAttempts == [s \in Steps |-> 0]
RecoveryProvider ==
    (a :> vendor) @@ (c :> vendor) @@ [s \in Steps |-> NoProvider]

=============================================================================
