--------------------------- MODULE MCStreamSession ---------------------------
(***************************************************************************)
(* A stream of a step and a chunk beside a short one, and a hook that may  *)
(* be removed and added again registered before one that stays.            *)
(***************************************************************************)
EXTENDS StreamSession

CONSTANTS long, short, loyal, fickle

FickleFirst == <<fickle, loyal>>

\* The first notice is on_workflow_start.
TwoNotices == (long :> 2) @@ (short :> 1)

OneChunk == (long :> 1) @@ (short :> 0)
=============================================================================
