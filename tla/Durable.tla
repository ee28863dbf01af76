------------------------------- MODULE Durable -------------------------------
(***************************************************************************)
(* DurableExecutionStrategy around a strategy that visits the steps of     *)
(* Plan in order, and the event store it records completions in.  A plan   *)
(* may visit a step again, as the loops of goal-oriented and reflection    *)
(* strategies do.  Executions of the same workflow share its id, and with  *)
(* it their events.                                                        *)
(*                                                                         *)
(* An execution stands in a step (running), between the end of its         *)
(* primitive and the end of append (recording), or between steps (ready).  *)
(* It may be interrupted anywhere: the step or the store raises, its task  *)
(* is cancelled, or the process dies.  It is then down and may be executed *)
(* again, with a new context and the same events.                          *)
(***************************************************************************)
EXTENDS Sequences, FiniteSets, Naturals

CONSTANTS
    Executions,         \* calls of execute for the workflow, and their resumptions
    Steps,
    Plan,               \* the steps the wrapped strategy asks for
    Persistent,         \* SQLiteEventStore rather than InMemoryEventStore
    Skippable,          \* steps with an if_condition
    Nesting,            \* steps that leave more than their own entry in step_results
    Skipped,            \* the SKIPPED sentinel
    NoEvent,
    MaxInterruptions    \* bound on failures, cancellations and crashes

ASSUME DurableAssumption ==
    /\ IsFiniteSet(Executions)
    /\ Plan \in Seq(Steps)
    /\ Persistent \in BOOLEAN
    /\ Skippable \subseteq Steps
    /\ Nesting \subseteq Steps
    /\ Skipped \notin Nat
    /\ MaxInterruptions \in Nat

VARIABLES
    store,          \* the events of the workflow, in insertion order
    late,           \* writes whose task was cancelled and whose thread goes on
    pc,             \* where an execution stands
    pos,            \* its place in Plan
    known,          \* the event loaded for each step, or NoEvent
    results,        \* step_results of its context, for the steps of the plan
    beside,         \* steps whose further entries are in step_results
    ran,            \* history: how often the primitive of a step has run
    lost,           \* history: runs of it an interruption left without an event
    failed,         \* history: the execution ended in an error of a step
    interruptions,
    truncated       \* history: events have been lost, by truncation or a crash

vars == <<store, late, pc, pos, known, results, beside, ran, lost, failed,
          interruptions, truncated>>

\* The n-th run of a step's primitive returns n; 0 stands for no entry.
Absent == 0

Values == Nat \cup {Skipped}

Events == [step : Steps, result : Values, by : Executions]

ASSUME NoEventAssumption == NoEvent \notin Events

PCs == {"new", "ready", "running", "recording", "done", "down"}

Active(e) == pc[e] \in {"ready", "running", "recording"}

Current(e) == Plan[pos[e]]

InPlan(e) == pos[e] \in DOMAIN Plan

Places(s) == {i \in DOMAIN store : store[i].step = s}

LastPlaces(s) == {i \in Places(s) : \A j \in Places(s) : j <= i}

\* event_map: of several events of one step the last is kept.
LoadedEvent(s) ==
    IF LastPlaces(s) = {} THEN NoEvent
    ELSE store[CHOOSE i \in LastPlaces(s) : TRUE]

\* Mutant: INSERT without IGNORE and without the unique key.
WrittenAlways(ev) == Append(store, ev)

\* INSERT OR IGNORE with one key per step; InMemoryEventStore just appends.
Written(ev) ==
    IF Persistent /\ Places(ev.step) # {} THEN store ELSE Append(store, ev)

Pending(e) ==
    [step |-> Current(e), result |-> results[e][Current(e)], by |-> e]

Init ==
    /\ store = <<>>
    /\ late = {}
    /\ pc = [e \in Executions |-> "new"]
    /\ pos = [e \in Executions |-> 1]
    /\ known = [e \in Executions |-> [s \in Steps |-> NoEvent]]
    /\ results = [e \in Executions |-> [s \in Steps |-> Absent]]
    /\ beside = [e \in Executions |-> {}]
    /\ ran = [s \in Steps |-> 0]
    /\ lost = [s \in Steps |-> 0]
    /\ failed = [e \in Executions |-> FALSE]
    /\ interruptions = 0
    /\ truncated = FALSE

-----------------------------------------------------------------------------
\* execute: a new context, and the events as they are now.
Load(e) ==
    /\ pc[e] \in {"new", "down"}
    /\ pc' = [pc EXCEPT ![e] = "ready"]
    /\ pos' = [pos EXCEPT ![e] = 1]
    /\ known' = [known EXCEPT ![e] = [s \in Steps |-> LoadedEvent(s)]]
    /\ results' = [results EXCEPT ![e] = [s \in Steps |-> Absent]]
    /\ beside' = [beside EXCEPT ![e] = {}]
    /\ failed' = [failed EXCEPT ![e] = FALSE]
    /\ UNCHANGED <<store, late, ran, lost, interruptions, truncated>>

\* durable_runner, for a step with an event: its own entry is restored.
Replay(e) ==
    /\ pc[e] = "ready" /\ InPlan(e)
    /\ known[e][Current(e)] # NoEvent
    /\ results' = [results EXCEPT ![e][Current(e)] = known[e][Current(e)].result]
    /\ pos' = [pos EXCEPT ![e] = @ + 1]
    /\ UNCHANGED <<store, late, pc, known, beside, ran, lost, failed,
                   interruptions, truncated>>

\* Mutant: the step runs whether it has an event or not.
BeginAnyway(e) ==
    /\ pc[e] = "ready" /\ InPlan(e)
    /\ pc' = [pc EXCEPT ![e] = "running"]
    /\ UNCHANGED <<store, late, pos, known, results, beside, ran, lost, failed,
                   interruptions, truncated>>

Begin(e) ==
    /\ pc[e] = "ready" /\ InPlan(e)
    /\ known[e][Current(e)] = NoEvent
    /\ pc' = [pc EXCEPT ![e] = "running"]
    /\ UNCHANGED <<store, late, pos, known, results, beside, ran, lost, failed,
                   interruptions, truncated>>

\* The primitive has run; its result is in the context, not in the store.
Run(e) ==
    LET s == Current(e)
    IN  /\ pc[e] = "running"
        /\ pc' = [pc EXCEPT ![e] = "recording"]
        /\ ran' = [ran EXCEPT ![s] = @ + 1]
        /\ results' = [results EXCEPT ![e][s] = ran[s] + 1]
        /\ beside' = [beside EXCEPT ![e] = @ \cup ({s} \cap Nesting)]
        /\ UNCHANGED <<store, late, pos, known, lost, failed, interruptions,
                       truncated>>

Skip(e) ==
    LET s == Current(e)
    IN  /\ pc[e] = "running"
        /\ s \in Skippable
        /\ pc' = [pc EXCEPT ![e] = "recording"]
        /\ results' = [results EXCEPT ![e][s] = Skipped]
        /\ UNCHANGED <<store, late, pos, known, beside, ran, lost, failed,
                       interruptions, truncated>>

\* json.dumps cannot encode SKIPPED; the in-memory store keeps any object.
Recordable(e) == Persistent => results[e][Current(e)] # Skipped

Record(e) ==
    /\ pc[e] = "recording"
    /\ Recordable(e)
    /\ store' = Written(Pending(e))
    /\ pc' = [pc EXCEPT ![e] = "ready"]
    /\ pos' = [pos EXCEPT ![e] = @ + 1]
    /\ UNCHANGED <<late, known, results, beside, ran, lost, failed,
                   interruptions, truncated>>

Finish(e) ==
    /\ pc[e] = "ready" /\ ~ InPlan(e)
    /\ pc' = [pc EXCEPT ![e] = "done"]
    /\ UNCHANGED <<store, late, pos, known, results, beside, ran, lost, failed,
                   interruptions, truncated>>

-----------------------------------------------------------------------------
\* A run of the primitive that left no event behind.
Unrecorded(e) ==
    IF pc[e] = "recording" /\ results[e][Current(e)] # Skipped
    THEN {Current(e)} ELSE {}

Interrupted == interruptions < MaxInterruptions /\ interruptions' = interruptions + 1

Drop(e) ==
    /\ pc' = [pc EXCEPT ![e] = "down"]
    /\ lost' = [s \in Steps |->
                    IF s \in Unrecorded(e) THEN lost[s] + 1 ELSE lost[s]]

\* The step raises: before its primitive returns, or after it (a nested step,
\* the budget).
StepRaises(e) ==
    /\ pc[e] \in {"running", "recording"}
    /\ Interrupted
    /\ Drop(e)
    /\ failed' = [failed EXCEPT ![e] = TRUE]
    /\ UNCHANGED <<store, late, pos, known, results, beside, ran, truncated>>

\* Mutant: an error of the store is logged and the strategy goes on.
RecordFailsSilently(e) ==
    /\ pc[e] = "recording"
    /\ Persistent
    /\ Interrupted
    /\ pc' = [pc EXCEPT ![e] = "ready"]
    /\ pos' = [pos EXCEPT ![e] = @ + 1]
    /\ UNCHANGED <<store, late, known, results, beside, ran, lost, failed,
                   truncated>>

\* append raises: the database, or the encoding of the result.
RecordFails(e) ==
    /\ pc[e] = "recording"
    /\ Persistent
    /\ Interrupted
    /\ Drop(e)
    /\ UNCHANGED <<store, late, pos, known, results, beside, ran, failed,
                   truncated>>

\* The task is cancelled.  Once append has handed its write to a thread,
\* cancelling the task does not stop the thread.
Cancel(e) ==
    /\ Active(e)
    /\ Interrupted
    /\ Drop(e)
    /\ \/ late' = late
       \/ /\ pc[e] = "recording" /\ Persistent /\ Recordable(e)
          /\ late' = late \cup {Pending(e)}
    /\ UNCHANGED <<store, pos, known, results, beside, ran, failed, truncated>>

WriteLate(ev) ==
    /\ ev \in late
    /\ late' = late \ {ev}
    /\ store' = Written(ev)
    /\ UNCHANGED <<pc, pos, known, results, beside, ran, lost, failed,
                   interruptions, truncated>>

UnrecordedRuns(s) == Cardinality({e \in Executions : s \in Unrecorded(e)})

\* The process dies.  Only a database outlives it.
Crash ==
    /\ \E e \in Executions : Active(e)
    /\ Interrupted
    /\ pc' = [e \in Executions |-> IF Active(e) THEN "down" ELSE pc[e]]
    /\ late' = {}
    /\ store' = IF Persistent THEN store ELSE <<>>
    /\ truncated' = (truncated \/ ~ Persistent)
    /\ lost' = [s \in Steps |-> lost[s] + UnrecordedRuns(s)]
    /\ UNCHANGED <<pos, known, results, beside, ran, failed>>

\* truncate, called by whoever owns the store while nothing executes.
Truncate ==
    /\ \A e \in Executions : ~ Active(e)
    /\ store # <<>>
    /\ Interrupted
    /\ store' = <<>>
    /\ truncated' = TRUE
    /\ UNCHANGED <<late, pc, pos, known, results, beside, ran, lost, failed>>

Next ==
    \/ \E e \in Executions :
        \/ Load(e) \/ Replay(e) \/ Begin(e) \/ Run(e) \/ Skip(e)
        \/ Record(e) \/ Finish(e)
        \/ StepRaises(e) \/ RecordFails(e) \/ Cancel(e)
    \/ \E ev \in late : WriteLate(ev)
    \/ Crash \/ Truncate

Spec == Init /\ [][Next]_vars

-----------------------------------------------------------------------------
(***************************************************************************)
(* Properties                                                              *)
(***************************************************************************)

\* Every variable keeps its type.
TypeOK ==
    /\ store \in Seq(Events)
    /\ late \in SUBSET Events
    /\ pc \in [Executions -> PCs]
    /\ pos \in [Executions -> Nat \ {0}]
    /\ known \in [Executions -> [Steps -> Events \cup {NoEvent}]]
    /\ results \in [Executions -> [Steps -> Values]]
    /\ beside \in [Executions -> SUBSET Steps]
    /\ ran \in [Steps -> Nat]
    /\ lost \in [Steps -> Nat]
    /\ failed \in [Executions -> BOOLEAN]
    /\ interruptions \in 0 .. MaxInterruptions
    /\ truncated \in BOOLEAN

\* SQLiteEventStore keeps the first completion of a step, whatever is appended
\* later, by whichever execution, and by writes that outlived their task.
Log == INSTANCE CompletionLog WITH
    Completions <- Events, NoCompletion <- NoEvent,
    log <- [s \in Steps |-> LoadedEvent(s)]

RecordsOnce == Log!Spec

Visits(s) == Cardinality({i \in DOMAIN Plan : Plan[i] = s})

\* Replay spares work: beyond the visits of its plan each execution runs a
\* step again only for a run that an interruption kept out of the store.
RunsAccountedFor ==
    ~ truncated =>
        \A s \in Steps : ran[s] <= Visits(s) * Cardinality(Executions) + lost[s]

\* Completions are recorded in the order of the plan: what a resumption finds
\* is a beginning of it, so no step is replayed whose predecessor has to run.
RecordedPrefix ==
    ~ truncated =>
        \E n \in 0 .. Len(Plan) :
            {s \in Steps : Places(s) # {}} = {Plan[i] : i \in 1 .. n}

-----------------------------------------------------------------------------
(***************************************************************************)
(* What the documentation says of the program, and the code does not do    *)
(***************************************************************************)

\* README: "durable execution with SQLite exactly-once semantics".
ExactlyOnce == \A s \in Steps : ran[s] <= 1

\* durable.py: "previously completed steps are skipped and their results
\* restored"; the entries of nested steps and of an output_key are not.
RestoresAllResults ==
    \A e \in Executions : Active(e) =>
        \A i \in 1 .. pos[e] - 1 :
            /\ Plan[i] \in Nesting
            /\ results[e][Plan[i]] # Skipped
            => Plan[i] \in beside[e]

\* durable.py: "record a completion event ... after each successful
\* execution"; a step that was skipped cannot be recorded in the database.
CompletionsAreRecorded ==
    \A e \in Executions : pc[e] = "recording" => Recordable(e)

\* durable.py: the completion event contains the result of the execution just
\* recorded, also when the wrapped strategy is goal-oriented.
RecordsLastResult ==
    [][\A e \in Executions :
          pc[e] = "recording" /\ pc'[e] = "ready" =>
              \A s \in {Current(e)} : LoadedEvent(s)'.result = results[e][s]]_vars
=============================================================================
