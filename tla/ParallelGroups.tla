---------------------------- MODULE ParallelGroups ----------------------------
(***************************************************************************)
(* ParallelExecutionStrategy: a workflow is cut into groups, and the steps *)
(* of a parallel group run as tasks of one event loop.  The model starts   *)
(* from any marking of the steps as parallel and any ParallelConfig.       *)
(*                                                                         *)
(* The result of a step is the step itself, so step_results maps a key to  *)
(* the step whose result it holds.  A task stands before the semaphore     *)
(* (waiting), in its primitive (running), or between the write of its      *)
(* result to the context and its return (wrote).                           *)
(*                                                                         *)
(* VersionedState takes an asyncio.Lock that no task ever holds across an  *)
(* await, so acquiring it never suspends: read, compare-and-swap and the   *)
(* copy to step_results are one step of the event loop, in the model too.  *)
(***************************************************************************)
EXTENDS SequencesExt

CONSTANTS
    Steps,
    Workflow,       \* workflow.steps
    Keys,           \* step ids and output keys
    Id,             \* step.id
    OutputKey,      \* step.output_key, or NoKey
    NoKey,
    Suspending,     \* steps whose primitive may suspend the context it is given
    Limits,         \* values of concurrency_limit to start from
    Parent,         \* the context of the workflow
    Absent          \* no entry in step_results

ASSUME ParallelAssumption ==
    /\ Workflow \in Seq(Steps)
    /\ Steps = {Workflow[i] : i \in DOMAIN Workflow}
    /\ Len(Workflow) = Cardinality(Steps)
    /\ Id \in [Steps -> Keys] /\ IsInjective(Id)
    /\ OutputKey \in [Steps -> Keys \cup {NoKey}]
    /\ NoKey \notin Keys
    /\ Limits \subseteq Nat
    /\ Parent \notin Steps
    /\ Absent \notin Steps

VARIABLES
    parallel,   \* the steps with parallel=True
    config,     \* ParallelConfig
    group,      \* the position in the workflow of the current group's first step
    phase,      \* between groups, or running one
    outcome,    \* how the strategy ended: none, completed, failed, cancelled
    branch,     \* the state of each step
    results,    \* step_results of every context
    suspended,  \* the flag of every context
    winner      \* VersionedState of the group: the value of a contended key

setup == <<parallel, config>>

vars == <<setup, group, phase, outcome, branch, results, suspended, winner>>

Configs == [limit : Limits, failFast : BOOLEAN, isolate : BOOLEAN]

Contexts == Steps \cup {Parent}

Entries == [Keys -> Steps \cup {Absent}]

Empty == [k \in Keys |-> Absent]

-----------------------------------------------------------------------------
\* _group_steps: the positions of the group that starts at i.  A run of
\* parallel steps is a group, any other step is one.
GroupFrom(i) ==
    {j \in i .. Len(Workflow) : j = i \/ \A k \in i .. j : Workflow[k] \in parallel}

InGroups == group \in DOMAIN Workflow

\* The steps of the current group.
Group == {Workflow[j] : j \in GroupFrom(group)}

IsParallel == Group \subseteq parallel

WriteKey(s) == IF OutputKey[s] = NoKey THEN Id[s] ELSE OutputKey[s]

\* _detect_contention
Contended ==
    {k \in Keys : \E s, t \in Group : s # t /\ WriteKey(s) = k /\ WriteKey(t) = k}

\* The context a step of the current group is given.
Context(s) == IF IsParallel /\ config.isolate THEN s ELSE Parent

Working == {"running", "wrote"}

Alive == {"waiting"} \cup Working

\* Mutant: only the tasks before the semaphore are cancelled and awaited.
InFlightWaiting == {s \in Group : branch[s] = "waiting"}

InFlight == {s \in Group : branch[s] \in Alive}

Put(c, ks, s) ==
    results' = [results EXCEPT ![c] =
                   [k \in Keys |-> IF k \in ks THEN s ELSE results[c][k]]]

Init ==
    /\ parallel \in SUBSET Steps
    /\ config \in Configs
    /\ group = 1
    /\ phase = "between"
    /\ outcome = "none"
    /\ branch = [s \in Steps |-> "idle"]
    /\ results = [c \in Contexts |-> Empty]
    /\ suspended = [c \in Contexts |-> FALSE]
    /\ winner = Empty

-----------------------------------------------------------------------------
\* A sequential group passes by the semaphore; a parallel one clones the
\* context if branches are isolated.
StartGroup ==
    /\ outcome = "none" /\ phase = "between"
    /\ InGroups /\ ~ suspended[Parent]
    /\ phase' = "running"
    /\ branch' = [s \in Steps |->
                     IF s \notin Group THEN branch[s]
                     ELSE IF IsParallel THEN "waiting" ELSE "running"]
    /\ results' = [c \in Contexts |->
                     IF c \in Group THEN results[Parent] ELSE results[c]]
    /\ winner' = Empty
    /\ UNCHANGED <<setup, group, outcome, suspended>>

\* Mutant: one task too many.
EnterOneMore(s) ==
    /\ branch[s] = "waiting"
    /\ \A i, j \in DOMAIN Workflow :
          i < j /\ Workflow[j] = s => branch[Workflow[i]] # "waiting"
    /\ config.limit > 0 =>
          Cardinality({t \in Group : branch[t] \in Working}) <= config.limit
    /\ branch' = [branch EXCEPT ![s] = "running"]
    /\ UNCHANGED <<setup, group, phase, outcome, results, suspended,
                   winner>>

\* Mutant: the semaphore is not released.
EnterUnreleased(s) ==
    /\ branch[s] = "waiting"
    /\ \A i, j \in DOMAIN Workflow :
          i < j /\ Workflow[j] = s => branch[Workflow[i]] # "waiting"
    /\ config.limit > 0 =>
          Cardinality({t \in Group : branch[t] # "waiting"}) < config.limit
    /\ branch' = [branch EXCEPT ![s] = "running"]
    /\ UNCHANGED <<setup, group, phase, outcome, results, suspended,
                   winner>>

\* Tasks take the semaphore in the order they were created.
Enter(s) ==
    /\ branch[s] = "waiting"
    /\ \A i, j \in DOMAIN Workflow :
          i < j /\ Workflow[j] = s => branch[Workflow[i]] # "waiting"
    /\ config.limit > 0 =>
          Cardinality({t \in Group : branch[t] \in Working}) < config.limit
    /\ branch' = [branch EXCEPT ![s] = "running"]
    /\ UNCHANGED <<setup, group, phase, outcome, results, suspended,
                   winner>>

MaySuspend(s) ==
    \/ suspended' = suspended
    \/ s \in Suspending /\ suspended' = [suspended EXCEPT ![Context(s)] = TRUE]

\* The primitive stores its result, or a recovery does, which leaves the
\* output key alone.
Write(s) ==
    /\ branch[s] = "running"
    /\ branch' = [branch EXCEPT ![s] = "wrote"]
    /\ \/ Put(Context(s), {Id[s], OutputKey[s]}, s) /\ MaySuspend(s)
       \/ Put(Context(s), {Id[s]}, s) /\ UNCHANGED suspended
    /\ UNCHANGED <<setup, group, phase, outcome, winner>>

Contends(s) == IsParallel /\ WriteKey(s) \in Contended

\* limited_runner after the step: the compare-and-swap of a contended key.
Return(s) ==
    /\ branch[s] = "wrote"
    /\ branch' = [branch EXCEPT ![s] = "done"]
    /\ IF Contends(s)
       THEN /\ winner' = [winner EXCEPT ![WriteKey(s)] = s]
            /\ Put(Context(s), {WriteKey(s)}, s)
       ELSE UNCHANGED <<winner, results>>
    /\ UNCHANGED <<setup, group, phase, outcome, suspended>>

\* The step raises, before or after it stored a result.
Raise(s) ==
    /\ branch[s] \in Working
    /\ branch' = [branch EXCEPT ![s] = "failed"]
    /\ UNCHANGED <<setup, group, phase, outcome, results, suspended,
                   winner>>

-----------------------------------------------------------------------------
Failed == {s \in Group : branch[s] = "failed"}

\* Mutant: the siblings are cancelled in collect-all too.
CancelSiblingsAlways ==
    /\ phase = "running"
    /\ IsParallel
    /\ Failed # {} /\ InFlight # {}
    /\ branch' = [s \in Steps |-> IF s \in InFlight THEN "cancelled" ELSE branch[s]]
    /\ UNCHANGED <<setup, group, phase, outcome, results, suspended,
                   winner>>

\* gather raises the first error, the siblings are cancelled and awaited.
CancelSiblings ==
    /\ phase = "running"
    /\ IsParallel /\ config.failFast
    /\ Failed # {} /\ InFlight # {}
    /\ branch' = [s \in Steps |-> IF s \in InFlight THEN "cancelled" ELSE branch[s]]
    /\ UNCHANGED <<setup, group, phase, outcome, results, suspended,
                   winner>>

\* What the first branch, in declaration order, has to say of key k.
FirstEntry(rs, k) ==
    LET told == {j \in GroupFrom(group) : rs[Workflow[j]][k] # Absent}
    IN  IF told = {} THEN Absent ELSE rs[Workflow[Min(told)]][k]

\* Mutant: the branches' results stay in their clones.
Unmerged(rs) == rs

\* The finally clause: entries the parent has not are merged into it.
Merged(rs) ==
    IF IsParallel /\ config.isolate
    THEN [rs EXCEPT ![Parent] =
             [k \in Keys |-> IF rs[Parent][k] # Absent THEN rs[Parent][k]
                             ELSE FirstEntry(rs, k)]]
    ELSE rs

\* Mutant: the loop stores contended results once more, too.
CollectedContended ==
    [c \in Contexts |-> [k \in Keys |->
        IF \E s \in Group : branch[s] = "done" /\ Context(s) = c /\ WriteKey(s) = k
        THEN CHOOSE s \in Group :
                 branch[s] = "done" /\ Context(s) = c /\ WriteKey(s) = k
        ELSE results[c][k]]]

\* The collect-all loop stores once more the results of uncontended steps.
Collected ==
    [c \in Contexts |-> [k \in Keys |->
        IF \E s \in Group :
              branch[s] = "done" /\ ~ Contends(s) /\ Context(s) = c /\ Id[s] = k
        THEN CHOOSE s \in Group :
              branch[s] = "done" /\ ~ Contends(s) /\ Context(s) = c /\ Id[s] = k
        ELSE results[c][k]]]

EndGroup ==
    /\ phase = "running"
    /\ InFlight = {}
    /\ results' = Merged(IF IsParallel /\ ~ config.failFast THEN Collected
                         ELSE results)
    /\ phase' = "between"
    /\ IF Failed = {}
       THEN group' = group + Cardinality(GroupFrom(group)) /\ UNCHANGED outcome
       ELSE outcome' = "failed" /\ UNCHANGED group
    /\ UNCHANGED <<setup, branch, suspended, winner>>

Complete ==
    /\ outcome = "none" /\ phase = "between"
    /\ ~ InGroups \/ suspended[Parent]
    /\ outcome' = "completed"
    /\ UNCHANGED <<setup, group, phase, branch, results, suspended,
                   winner>>

\* The task that runs the strategy is cancelled: gather cancels its tasks,
\* no handler catches CancelledError, the finally clause runs.  A task is
\* cancelled from the moment CancelledError is thrown into it: what may be
\* left of it is the cleanup of its primitive.
Cancel ==
    /\ outcome = "none"
    /\ outcome' = "cancelled"
    /\ phase' = "between"
    /\ branch' = [s \in Steps |->
                     IF branch[s] \in Alive THEN "cancelled" ELSE branch[s]]
    /\ results' = IF phase = "running" THEN Merged(results) ELSE results
    /\ UNCHANGED <<setup, group, suspended, winner>>

Ended == outcome # "none" /\ UNCHANGED vars

Progress ==
    \/ StartGroup \/ CancelSiblings \/ EndGroup \/ Complete
    \/ \E s \in Group : Enter(s) \/ Write(s) \/ Return(s) \/ Raise(s)

Next == Progress \/ Cancel \/ Ended

Spec == Init /\ [][Next]_vars

\* The event loop runs every ready task, and every primitive ends.
FairSpec == Spec /\ WF_vars(Progress)

-----------------------------------------------------------------------------
(***************************************************************************)
(* Properties                                                              *)
(***************************************************************************)

\* Never more steps than concurrency_limit run at once, in the groups the
\* limit is for: those of parallel steps.
LimitRespected ==
    config.limit > 0 =>
        Cardinality({s \in parallel : branch[s] \in Working}) <= config.limit

\* When a group is over, by success, error or cancellation, none of its tasks
\* goes on: each has ended or been thrown a CancelledError, and nothing writes
\* to a context behind the back of what follows (the cancel loop of
\* _run_fail_fast and the gathers).
NoStragglers ==
    phase = "between" => \A s \in Steps : branch[s] \notin Alive

\* Collect-all lets every step of the group end by itself, and neither mode
\* loses an error.
ErrorsCollected ==
    /\ outcome = "failed" =>
           /\ \E s \in Steps : branch[s] = "failed"
           /\ ~ config.failFast => \A s \in Group : branch[s] \in {"done", "failed"}
    /\ outcome = "completed" => \A s \in Steps : branch[s] \in {"idle", "done"}

\* Isolated or not, a step that is done has its result in the context of the
\* workflow under its id, once its group is over, unless another step is
\* bound to write there.
ResultsReachParent ==
    phase = "between" =>
        \A s \in Steps :
            branch[s] = "done" /\ (\A t \in Steps : OutputKey[t] # Id[s]) =>
                results[Parent][Id[s]] = s

\* The strategy ends: no task waits for the semaphore for ever.
StrategyEnds == <>(outcome # "none")

-----------------------------------------------------------------------------
(***************************************************************************)
(* What the documentation says of the program, and the code does not do    *)
(***************************************************************************)

\* The group that starts at g has just ended well.
JustEnded(g) ==
    /\ phase = "between" /\ outcome = "none"
    /\ g = 1 \/ GroupFrom(g - 1) = {g - 1}
    /\ group = g + Cardinality(GroupFrom(g))

StepsFrom(g) == {Workflow[j] : j \in GroupFrom(g)}

\* After a group whose branches share the context ended well, a contended key
\* holds the value that won the compare-and-swap: neither the plain writes of
\* the primitives nor the collect-all loop take it back.  A step whose id is
\* the key, but which writes to another, does.
WinnerStays ==
    phase = "between" /\ outcome = "none" /\ ~ config.isolate =>
        \A k \in Keys :
            winner[k] # Absent /\ (\A t \in Steps : Id[t] = k => WriteKey(t) = k) =>
                results[Parent][k] = winner[k]

\* parallel.py: the compare-and-swap loop prevents "a last-writer-wins race
\* that would otherwise silently drop one branch's result".
NoResultDropped ==
    \A g \in DOMAIN Workflow : JustEnded(g) /\ ~ config.isolate =>
        \A s \in StepsFrom(g) : \E k \in Keys : results[Parent][k] = s

\* parallel.py: with isolate_context, "Results are merged back to the parent
\* after all branches complete".
MergeBringsResults ==
    \A g \in DOMAIN Workflow : JustEnded(g) /\ config.isolate =>
        \A s \in StepsFrom(g) \cap parallel : \A k \in Keys :
            results[s][k] = s =>
                results[Parent][k] \in StepsFrom(g)

\* ExecutionContext.suspended: "When True the executor skips remaining steps".
SuspensionStopsWorkflow ==
    [][\A s \in Steps : branch[s] = "idle" /\ branch'[s] # "idle" =>
          \A c \in Contexts : ~ suspended[c]]_vars
=============================================================================
