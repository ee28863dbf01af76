-------------------------------- MODULE Kits --------------------------------
(***************************************************************************)
(* The discovery of solution kits below the kit paths, and the loading of  *)
(* their tools and adapters (tools/kits.py, domain/kit.py). A directory is *)
(* a record: is there a kit.yaml and is it valid; the kit's name and what  *)
(* it declares, for Python and at the top level.                           *)
(***************************************************************************)
EXTENDS Integers, Sequences, FiniteSets, SequencesExt

(* parse_kit_manifest and the target gate: what becomes of a directory.    *)
Outcome(dir) ==
    IF dir.yaml = "none" THEN "ignored"
    ELSE IF dir.yaml = "invalid" \/ dir.python = "invalid" THEN "error"
    ELSE IF dir.python = "implemented" THEN "manifest"
    ELSE "skipped"

(* A directory path holds its kits in order; a path that is no directory   *)
(* holds none. The later of two manifests with one name counts.            *)
Found(paths) == SelectSeq(FlattenSeq(paths), LAMBDA dir : Outcome(dir) = "manifest")

Manifests(paths) ==
    LET found == Found(paths)
        Index(name) == CHOOSE n \in DOMAIN found :
                           /\ found[n].name = name
                           /\ \A m \in DOMAIN found : found[m].name = name => m <= n
    IN [name \in {found[n].name : n \in DOMAIN found} |-> found[Index(name)]]

(* targets.python where it declares any, the top level where it does not.  *)
ToolsOf(kit) == IF kit.pythonTools # <<>> THEN kit.pythonTools ELSE kit.tools
DependenciesOf(kit) ==
    IF kit.pythonDependencies # {} THEN kit.pythonDependencies ELSE kit.dependencies

(* The names that are declared more than once, a kit's own repetition too. *)
Declarations(manifests, tool) ==
    UNION {{<<name, n>> : n \in {m \in DOMAIN ToolsOf(manifests[name]) :
                                     ToolsOf(manifests[name])[m].name = tool}} :
           name \in DOMAIN manifests}

Collisions(paths) ==
    LET manifests == Manifests(paths) IN
    {tool \in UNION {{t.name : t \in ToSet(ToolsOf(manifests[k]))} : k \in DOMAIN manifests} :
        Cardinality(Declarations(manifests, tool)) > 1}

-----------------------------------------------------------------------------
Failure(code) == [loaded |-> <<>>, error |-> code]

(* load_kit: dependencies first, then tool by tool; the first that is not  *)
(* module:function, or cannot be imported, fails the kit.                  *)
LoadTool(state, tool) ==
    IF state.error # "none" THEN state
    ELSE IF tool.target # "callable" THEN Failure("KIT_LOAD_FAILED")
    ELSE [state EXCEPT !.loaded = [name \in DOMAIN @ \union {tool.name} |->
                                      IF name = tool.name THEN tool ELSE @[name]]]

LoadKit(kit, installed) ==
    IF ~(DependenciesOf(kit) \subseteq installed) THEN Failure("KIT_DEPENDENCY_MISSING")
    ELSE FoldLeft(LoadTool, [loaded |-> <<>>, error |-> "none"], ToolsOf(kit))

(* load_kit_adapters: each needs a name and a target, and is constructed   *)
(* as it is found; its own dependencies only. Under one port and name the  *)
(* last one stays.                                                         *)
LoadAdapter(state, adapter) ==
    IF state.error # "none" THEN state
    ELSE IF adapter.name = "none" \/ adapter.target # "callable" THEN Failure("KIT_LOAD_FAILED")
    ELSE [state EXCEPT !.loaded = [key \in DOMAIN @ \union {<<adapter.port, adapter.name>>} |->
                       IF key = <<adapter.port, adapter.name>> THEN adapter ELSE @[key]]]

LoadAdapters(kit, installed) ==
    IF kit.adapters = <<>> THEN [loaded |-> <<>>, error |-> "none"]
    ELSE IF ~(kit.pythonDependencies \subseteq installed) THEN Failure("KIT_DEPENDENCY_MISSING")
    ELSE FoldLeft(LoadAdapter, [loaded |-> <<>>, error |-> "none"], kit.adapters)

-----------------------------------------------------------------------------
ToolsIn  == {[name |-> t, target |-> g] : t \in {"read", "write"}, g \in {"callable", "no module"}}
SomeKit  == [yaml |-> "valid", name |-> "k", python |-> "implemented", pythonTools |-> <<>>,
             tools |-> <<>>, pythonDependencies |-> {}, dependencies |-> {}, adapters |-> <<>>]

AdaptersIn == {[port |-> "IMemoryProvider", name |-> n, target |-> g] :
                  n \in {"none", "disk", "cloud"}, g \in {"callable", "no colon"}}

Good(t)    == [name |-> t, target |-> "callable"]
Kit(name, python, tools) == [SomeKit EXCEPT !.name = name, !.python = python, !.tools = tools]

Dirs == {Kit(name, python, tools) :
            name \in {"k", "l"}, python \in {"none", "invalid", "planned", "implemented"},
            tools \in {<<>>, <<Good("read")>>, <<Good("read"), Good("write")>>}}
        \union {[SomeKit EXCEPT !.yaml = y] : y \in {"none", "invalid"}}

(* Of the kits of one name that can be used the last counts, also when a   *)
(* later one cannot be used; and what collides is what loading two kits    *)
(* would find under one name.                                              *)
DiscoveryIsRight ==
    \A a, b, c \in Dirs :
        LET paths == <<<<a, b>>, <<>>, <<c>>>>
            manifests == Manifests(paths)
            Usable(dir) == Outcome(dir) = "manifest"
            ToolNamesOf(k) == DOMAIN LoadKit(manifests[k], {}).loaded
        IN /\ Usable(c) => manifests[c.name] = c
           /\ (Usable(b) /\ ~(Usable(c) /\ c.name = b.name)) => manifests[b.name] = b
           /\ DOMAIN manifests = {d.name : d \in {e \in {a, b, c} : Usable(e)}}
           /\ Collisions(paths) =
                 {t \in {"read", "write"} :
                     \E k, l \in DOMAIN manifests : k # l /\ t \in ToolNamesOf(k) \intersect ToolNamesOf(l)}

(* A kit is loaded whole, under the names it declares, or not at all.      *)
LoadingIsWhole ==
    \A own, python \in {<<>>} \union {<<t>> : t \in ToolsIn} \union (ToolsIn \X ToolsIn),
       needs \in SUBSET {"p"}, installed \in SUBSET {"p"} :
        LET kit == [SomeKit EXCEPT !.tools = own, !.pythonTools = python, !.dependencies = needs]
            load == LoadKit(kit, installed)
            wanted == ToSet(IF python = <<>> THEN own ELSE python)
        IN IF needs \subseteq installed /\ \A t \in wanted : t.target = "callable"
           THEN load.error = "none" /\ DOMAIN load.loaded = {t.name : t \in wanted}
           ELSE load.error # "none" /\ load.loaded = <<>>

(* Adapters too: all of them, or an error; of two under one port and name  *)
(* the last is found.                                                      *)
AdaptersAreWhole ==
    \A first, second \in AdaptersIn, needs, own, installed \in SUBSET {"p"} :
        LET load == LoadAdapters([SomeKit EXCEPT !.adapters = <<first, second>>, !.dependencies = needs,
                                                 !.pythonDependencies = own], installed)
            Usable(adapter) == adapter.name # "none" /\ adapter.target = "callable"
        IN IF own \subseteq installed /\ Usable(first) /\ Usable(second)
           THEN /\ load.error = "none"
                /\ DOMAIN load.loaded = {<<a.port, a.name>> : a \in {first, second}}
                /\ load.loaded[<<second.port, second.name>>] = second
           ELSE load.error # "none" /\ load.loaded = <<>>
=============================================================================
