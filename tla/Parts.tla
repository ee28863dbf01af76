-------------------------------- MODULE Parts --------------------------------
(***************************************************************************)
(* A step of one primitive, or one of the services around a workflow, at   *)
(* work by itself.                                                         *)
(***************************************************************************)
EXTENDS Primitives, Services

vars == <<primitiveVars, serviceVars>>

Init ==
    \/ InitPrimitive /\ ServicesIdle
    \/ InitService /\ PrimitivesIdle

Next ==
    \/ service = "none" /\ PrimitiveNext /\ UNCHANGED serviceVars
    \/ ServiceNext /\ UNCHANGED primitiveVars

Spec == Init /\ [][Next]_vars

(* Providers, agents, tools, servers and sinks answer or raise. *)
FairSpec ==
    /\ Spec
    /\ WF_primitiveVars(service = "none" /\ PrimitiveProgress)
    /\ ServiceFairness

-----------------------------------------------------------------------------
(***************************************************************************)
(* What was begun ends. A step of any primitive ends, whatever the model   *)
(* answers. A request for approval is decided; once values set in memory   *)
(* have landed, the memory is the last that was set; every save ends;      *)
(* a run with MCP clients closes them; and a chat with the engine ends,    *)
(* unless the sentinel fell between the test of the empty queue and the    *)
(* registration of the getter, the one wake-up the two loops can lose.     *)
(***************************************************************************)
PrimitiveOver ==
    \/ done # "running" \/ verdict.how # "none" \/ outcome # "none"
    \/ where = "over" /\ steps = 0

MemoryIsCurrent == pending = <<>> /\ (structured = "in memory" => memory = latest)

EveryPartEnds ==
    /\ service = "none" => <>PrimitiveOver
    /\ EveryRequestIsDecided
    /\ MemoryAtWork => []<>MemoryIsCurrent
    /\ StateAtWork => \A c \in Threads : []<>(saves[c] = NoSave)
    /\ BridgeAtWork => <>(TalkOver \/ missed)
    /\ WiringAtWork => <>(wiring = "over")
=============================================================================
