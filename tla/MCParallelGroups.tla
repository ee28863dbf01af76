-------------------------- MODULE MCParallelGroups --------------------------
(***************************************************************************)
(* Three steps, two of which may share a write key.                        *)
(***************************************************************************)
EXTENDS ParallelGroups

CONSTANTS a, b, c, ka, kb, kc, out

\* a and b both write out; c has only its id.
ThreeSteps == <<a, b, c>>
ThreeIds == (a :> ka) @@ (b :> kb) @@ (c :> kc)
SharedOutput == (a :> out) @@ (b :> out) @@ (c :> NoKey)

\* The output key of b is the id of a.
OutputIsId == (a :> NoKey) @@ (b :> ka) @@ (c :> NoKey)
=============================================================================
