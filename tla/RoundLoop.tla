------------------------------ MODULE RoundLoop ------------------------------
(***************************************************************************)
(* What a loop strategy promises: it works in rounds, never more than its  *)
(* limit, and ends in exactly one way. It is satisfied only after a round, *)
(* and gives up only when all its rounds are used; a step that fails, or a *)
(* suspension, may end it at any time.                                     *)
(***************************************************************************)
EXTENDS Naturals

CONSTANT Ways     \* "satisfied", "exhausted", "interrupted", "failed"

VARIABLES limit, rounds, ended

loopVars == <<limit, rounds, ended>>

Init == limit \in Nat /\ rounds = 0 /\ ended = "no"

Round ==
    /\ ended = "no"
    /\ rounds < limit
    /\ rounds' = rounds + 1
    /\ UNCHANGED <<limit, ended>>

Finish ==
    /\ ended = "no"
    /\ ended' \in Ways
    /\ ended' = "satisfied" => rounds > 0
    /\ ended' = "exhausted" => rounds = limit
    /\ UNCHANGED <<limit, rounds>>

Next == Round \/ Finish

Spec == Init /\ [][Next]_loopVars
=============================================================================
