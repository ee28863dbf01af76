--------------------------- MODULE MCOrchestration ---------------------------
(***************************************************************************)
(* Strategies over two steps whose results are None, the text "None" and   *)
(* two numbers. The goal condition reads the second step, is met by one of *)
(* the numbers and cannot be resolved in None.                             *)
(*                                                                         *)
(* Calls: a workflow that calls itself, a skill and a coordination; a      *)
(* workflow of a kit that calls a skill of another kit and the first one   *)
(* again; one coordination of each kind; and a workflow that only asks for *)
(* a skill, to try version constraints.                                    *)
(***************************************************************************)
EXTENDS Orchestration

CONSTANTS draft, review

MCWorkflow == <<draft, review>>
MCValues == {"none", "text none", "low", "high"}
MCText == [v \in MCValues |-> IF v \in {"none", "text none"} THEN "None" ELSE v]
MCScore == [v \in MCValues |-> CASE v = "low" -> 1 [] v = "high" -> 3 [] OTHER -> 0]

MCFlows ==
    [main |-> <<"again", "borrow", "meet">>,
     lent |-> <<"deeper", "back">>,
     leaf |-> <<"work">>,
     trial |-> <<"borrow">>]

MCCalls ==
    [again  |-> [kind |-> "workflow", flow |-> "main", maxDepth |-> 2],
     back   |-> [kind |-> "workflow", flow |-> "main", maxDepth |-> 2],
     borrow |-> [kind |-> "skill", kit |-> "first kit", flow |-> "lent", maxDepth |-> 3],
     deeper |-> [kind |-> "skill", kit |-> "second kit", flow |-> "leaf", maxDepth |-> 3],
     work   |-> [kind |-> "plain"],
     meet   |-> [kind |-> "coordination", strategy |-> "parallel-dispatch",
                 modes |-> {"first"}, teams |-> {<<"ann", "bob">>}, first |-> {"nothing"}],
     debate |-> [kind |-> "coordination", strategy |-> "parallel-dispatch",
                 modes |-> {"merge", "vote", "first"},
                 teams |-> {<<"bob", "supervisor", "ann">>, <<"ann", "nobody">>, <<>>},
                 first |-> {"nothing"}],
     relay  |-> [kind |-> "coordination", strategy |-> "handoff",
                 modes |-> {"handoff"}, teams |-> {<<"ann", "bob">>},
                 first |-> {"nothing", "bob", "supervisor"}],
     manage |-> [kind |-> "coordination", strategy |-> "supervisor",
                 modes |-> {"supervisor"},
                 teams |-> {<<"bob", "supervisor", "ann">>, <<"ann", "bob">>},
                 first |-> {"nothing"}],
     chat   |-> [kind |-> "coordination", strategy |-> "unheard of",
                 modes |-> {}, teams |-> {}, first |-> {}]]

Coordinations ==
    [d \in {"debate", "relay", "manage", "chat"} |-> <<d>>]

AllFlows == [f \in DOMAIN MCFlows \union DOMAIN Coordinations |->
               IF f \in DOMAIN MCFlows THEN MCFlows[f] ELSE Coordinations[f]]

MCKitFlows == [k \in {"first kit", "second kit"} |->
                 IF k = "first kit" THEN {"lent"} ELSE {"leaf"}]

Versions == {0, 1} \X {1, 2} \X {0, 1}
Operators == {">=", ">", "<=", "<", "!=", "^", "~", "==", "any"}

Services(loader, registry, agents, version, constraint) ==
    [loader |-> loader, registry |-> registry, agents |-> agents,
     version |-> version, constraint |-> constraint]

AnyVersion == [op |-> "any", version |-> <<0, 1, 0>>]

MCScenarios ==
    [flow : {"main"}, kits : BOOLEAN, governance : {"free", "strict", "permissive"},
     deps : {Services(l, r, a, <<1, 1, 0>>, AnyVersion) : l, r, a \in BOOLEAN}]
    \union
    [flow : DOMAIN Coordinations, kits : {FALSE}, governance : {"free"},
     deps : {Services(TRUE, TRUE, TRUE, <<1, 1, 0>>, AnyVersion)}]
    \union
    [flow : {"trial"}, kits : {TRUE}, governance : {"free"},
     deps : {Services(TRUE, TRUE, TRUE, v, [op |-> o, version |-> w]) :
               v \in Versions, w \in Versions, o \in Operators}]
=============================================================================
