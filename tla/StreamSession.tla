---------------------------- MODULE StreamSession ----------------------------
(***************************************************************************)
(* WorkflowExecutor.execute_stream: several streams of one executor, each  *)
(* a background task that runs the strategy and a generator its consumer   *)
(* iterates over, with a queue between them.  The lifecycle notices of a   *)
(* stream go to its own collector, which queues an event, and then to the  *)
(* hooks of the LifecycleHookManager all streams share.                    *)
(*                                                                         *)
(* A task is new until the generator first runs, then working in the       *)
(* strategy, streaming the chunks of step results, and ending in the       *)
(* on_workflow_end notice; done, failed and cancelled tasks are over.  A   *)
(* task with hooks still to call awaits one of them.                       *)
(*                                                                         *)
(* A consumer is fresh before its first iteration; reading stands for      *)
(* queue.get(), holding for the yield, closing for the await of the        *)
(* cancelled task; finished, raised and closed ones are over.              *)
(***************************************************************************)
EXTENDS SequencesExt

CONSTANTS
    Streams,
    Loyal,          \* hooks registered from the beginning and never removed
    Fickle,         \* hooks added and removed while streams run
    Registered,     \* the hooks the manager is constructed with
    Surfacing,      \* streams whose run leaves an A2UI surface in its metadata
    MaxNotices,     \* bound on the notices of the run of a stream
    MaxChunks,      \* bound on the text chunks of a stream
    MaxHooks,       \* bound on the registered hooks
    Sentinel        \* the None that ends the queue

ASSUME StreamAssumption ==
    /\ Loyal \cap Fickle = {}
    /\ Registered \in Seq(Loyal \cup Fickle)
    /\ \A h \in Loyal : \E i \in DOMAIN Registered :
          \A j \in DOMAIN Registered : Registered[j] = h <=> j = i
    /\ Surfacing \subseteq Streams
    /\ MaxNotices \in [Streams -> Nat]
    /\ MaxChunks \in [Streams -> Nat]
    /\ MaxHooks \in Nat

VARIABLES
    task,       \* where the background task of a stream stands
    queue,      \* its asyncio.Queue
    consumer,   \* where the consumer of its generator stands
    hooks,      \* LifecycleHookManager._hooks
    calls,      \* the hooks a task has still to call for its current notice
    cancelled,  \* task.cancel() was called
    notices,    \* how many notices the task has dispatched
    chunks,     \* how many chunks it has queued
    sent,       \* history: the events of a stream
    received,   \* history: the events its generator has yielded
    heard       \* history: how many notices of a stream a loyal hook got

vars == <<task, queue, consumer, hooks, calls, cancelled, notices, chunks,
          sent, received, heard>>

Hooks == Loyal \cup Fickle

Kinds == {"start", "step", "chunk", "surface", "end"}

\* An event, told apart by its stream and its place in it.
Events == [stream : Streams, kind : Kinds, place : Nat]

ASSUME SentinelAssumption == Sentinel \notin Events

Running == {"starting", "working", "streaming", "ending"}

TaskOver == {"done", "failed", "cancelled"}

ConsumerOver == {"finished", "raised", "closed"}

Init ==
    /\ task = [s \in Streams |-> "new"]
    /\ queue = [s \in Streams |-> <<>>]
    /\ consumer = [s \in Streams |-> "fresh"]
    /\ hooks = Registered
    /\ calls = [s \in Streams |-> <<>>]
    /\ cancelled = [s \in Streams |-> FALSE]
    /\ notices = [s \in Streams |-> 0]
    /\ chunks = [s \in Streams |-> 0]
    /\ sent = [s \in Streams |-> <<>>]
    /\ received = [s \in Streams |-> <<>>]
    /\ heard = [h \in Loyal |-> [s \in Streams |-> 0]]

-----------------------------------------------------------------------------
(***************************************************************************)
(* The background task                                                     *)
(***************************************************************************)

\* Not waiting for a hook, and not about to be thrown a CancelledError.
Free(s) == calls[s] = <<>> /\ ~ cancelled[s]

Event(s, k, i) == [stream |-> s, kind |-> k, place |-> i]

\* The next events of stream s, with the given kinds.
NewEvents(s, ks) ==
    [i \in 1 .. Len(ks) |-> Event(s, ks[i], Len(sent[s]) + i)]

\* Mutant: the collector hangs on the manager all streams share.
PutInAll(s, es, last) ==
    queue' = [t \in Streams |->
                 IF t = s THEN queue[s] \o es \o last
                 ELSE IF task[t] \in Running THEN queue[t] \o es ELSE queue[t]]

\* Events, and what ends the queue after them, go to the stream's own queue.
Put(s, es, last) == queue' = [queue EXCEPT ![s] = @ \o es \o last]

\* Mutant: the sentinel is put at the end of the body, not in its finally.
CloseQueueOnSuccess(how) == IF how = "done" THEN <<Sentinel>> ELSE <<>>

\* _run_strategy ends, one way or another, and puts the sentinel.
CloseQueue(how) == <<Sentinel>>

Emit(s, ks) ==
    /\ sent' = [sent EXCEPT ![s] = @ \o NewEvents(s, ks)]
    /\ Put(s, NewEvents(s, ks), <<>>)

\* A notice reaches the collector and then the hooks registered by now.
Notice(s, ks) ==
    /\ Emit(s, ks)
    /\ notices' = [notices EXCEPT ![s] = @ + 1]
    /\ calls' = [calls EXCEPT ![s] = hooks]

Start(s) ==
    /\ task[s] = "starting" /\ Free(s)
    /\ Notice(s, <<"start">>)
    /\ task' = [task EXCEPT ![s] = "working"]
    /\ UNCHANGED <<consumer, hooks, cancelled, chunks, received, heard>>

\* Budget, decision and approval notices are no events of the stream.
StepNotice(s) ==
    /\ task[s] = "working" /\ Free(s)
    /\ notices[s] < MaxNotices[s]
    /\ \E ks \in {<<"step">>, <<>>} : Notice(s, ks)
    /\ UNCHANGED <<task, consumer, hooks, cancelled, chunks, received, heard>>

\* Mutant: a hook that raises keeps the notice from those after it.
CallHookUnguarded(s) ==
    /\ calls[s] # <<>> /\ ~ cancelled[s]
    /\ calls' = [calls EXCEPT ![s] = <<>>]
    /\ heard' = [h \in Loyal |->
           [heard[h] EXCEPT ![s] = IF h = Head(calls[s]) THEN @ + 1 ELSE @]]
    /\ UNCHANGED <<task, queue, consumer, hooks, cancelled, notices, chunks,
                   sent, received>>

\* The hook returns or raises: either way it is the next one's turn.
CallHook(s) ==
    /\ calls[s] # <<>> /\ ~ cancelled[s]
    /\ calls' = [calls EXCEPT ![s] = Tail(@)]
    /\ heard' = [h \in Loyal |->
           [heard[h] EXCEPT ![s] = IF h = Head(calls[s]) THEN @ + 1 ELSE @]]
    /\ UNCHANGED <<task, queue, consumer, hooks, cancelled, notices, chunks,
                   sent, received>>

StrategyReturns(s) ==
    /\ task[s] = "working" /\ Free(s)
    /\ task' = [task EXCEPT ![s] = "streaming"]
    /\ UNCHANGED <<queue, consumer, hooks, calls, cancelled, notices, chunks,
                   sent, received, heard>>

Chunk(s) ==
    /\ task[s] = "streaming" /\ Free(s)
    /\ chunks[s] < MaxChunks[s]
    /\ Emit(s, <<"chunk">>)
    /\ chunks' = [chunks EXCEPT ![s] = @ + 1]
    /\ UNCHANGED <<task, consumer, hooks, calls, cancelled, notices, received,
                   heard>>

\* The last chunk is followed, without an await, by the surfaces left in the
\* metadata and by the end of the workflow.
End(s) ==
    /\ task[s] = "streaming" /\ Free(s)
    /\ Notice(s, IF s \in Surfacing THEN <<"surface", "end">> ELSE <<"end">>)
    /\ task' = [task EXCEPT ![s] = "ending"]
    /\ UNCHANGED <<consumer, hooks, cancelled, chunks, received, heard>>

Over(s, how) ==
    /\ task' = [task EXCEPT ![s] = how]
    /\ Put(s, <<>>, CloseQueue(how))
    /\ calls' = [calls EXCEPT ![s] = <<>>]
    /\ UNCHANGED <<consumer, hooks, cancelled, notices, chunks, sent, received,
                   heard>>

Done(s) == task[s] = "ending" /\ Free(s) /\ Over(s, "done")

\* A step, or the stream of a step's result, raises.
Fail(s) == task[s] \in {"working", "streaming"} /\ Free(s) /\ Over(s, "failed")

\* The CancelledError stops the task at its await, or is turned into another
\* error by a step's cleanup.  A task stopped before it first ran leaves no
\* sentinel, but nobody is left to read it either.
Stop(s) ==
    /\ task[s] \in Running /\ cancelled[s]
    /\ \E how \in {"cancelled", "failed"} : Over(s, how)

-----------------------------------------------------------------------------
(***************************************************************************)
(* The generator and its consumer                                          *)
(***************************************************************************)

Open(s) ==
    /\ consumer[s] = "fresh"
    /\ consumer' = [consumer EXCEPT ![s] = "reading"]
    /\ task' = [task EXCEPT ![s] = "starting"]
    /\ UNCHANGED <<queue, hooks, calls, cancelled, notices, chunks, sent,
                   received, heard>>

Get(s) ==
    /\ consumer[s] = "reading"
    /\ queue[s] # <<>>
    /\ Head(queue[s]) # Sentinel
    /\ queue' = [queue EXCEPT ![s] = Tail(@)]
    /\ received' = [received EXCEPT ![s] = Append(@, Head(queue[s]))]
    /\ consumer' = [consumer EXCEPT ![s] = "holding"]
    /\ UNCHANGED <<task, hooks, calls, cancelled, notices, chunks, sent, heard>>

Resume(s) ==
    /\ consumer[s] = "holding"
    /\ consumer' = [consumer EXCEPT ![s] = "reading"]
    /\ UNCHANGED <<task, queue, hooks, calls, cancelled, notices, chunks, sent,
                   received, heard>>

\* The sentinel: the task is over, and awaiting it raises its error if any.
Join(s) ==
    /\ consumer[s] = "reading"
    /\ queue[s] # <<>> /\ Head(queue[s]) = Sentinel
    /\ consumer' = [consumer EXCEPT ![s] =
                       IF task[s] = "done" THEN "finished" ELSE "raised"]
    /\ UNCHANGED <<task, queue, hooks, calls, cancelled, notices, chunks, sent,
                   received, heard>>

\* A generator that never ran has nothing to close.
Drop(s) ==
    /\ consumer[s] = "fresh"
    /\ consumer' = [consumer EXCEPT ![s] = "closed"]
    /\ UNCHANGED <<task, queue, hooks, calls, cancelled, notices, chunks, sent,
                   received, heard>>

\* aclose() at the yield, or the consumer cancelled at queue.get().
Close(s) ==
    /\ consumer[s] \in {"reading", "holding"}
    /\ consumer' = [consumer EXCEPT ![s] = "closing"]
    /\ cancelled' = [cancelled EXCEPT ![s] = task[s] \in Running]
    /\ UNCHANGED <<task, queue, hooks, calls, notices, chunks, sent, received,
                   heard>>

\* Mutant: the cancelled task is not awaited.
ClosedAtOnce(s) ==
    /\ consumer[s] = "closing"
    /\ consumer' = [consumer EXCEPT ![s] = "closed"]
    /\ UNCHANGED <<task, queue, hooks, calls, cancelled, notices, chunks, sent,
                   received, heard>>

Closed(s) ==
    /\ consumer[s] = "closing"
    /\ task[s] \in TaskOver
    /\ consumer' = [consumer EXCEPT ![s] = "closed"]
    /\ UNCHANGED <<task, queue, hooks, calls, cancelled, notices, chunks, sent,
                   received, heard>>

-----------------------------------------------------------------------------
\* add_hook: a list, so a hook added twice is called twice.
AddHook(h) ==
    /\ Len(hooks) < MaxHooks
    /\ hooks' = Append(hooks, h)
    /\ UNCHANGED <<task, queue, consumer, calls, cancelled, notices, chunks,
                   sent, received, heard>>

RemoveHook(h) ==
    /\ Contains(hooks, h)
    /\ hooks' = RemoveFirst(hooks, h)
    /\ UNCHANGED <<task, queue, consumer, calls, cancelled, notices, chunks,
                   sent, received, heard>>

TaskStep(s) ==
    \/ Start(s) \/ StepNotice(s) \/ CallHook(s) \/ StrategyReturns(s)
    \/ Chunk(s) \/ End(s) \/ Done(s) \/ Fail(s) \/ Stop(s)

Iterate(s) == Open(s) \/ Get(s) \/ Resume(s) \/ Join(s) \/ Closed(s)

Terminated ==
    /\ \A s \in Streams : consumer[s] \in ConsumerOver
    /\ UNCHANGED vars

Next ==
    \/ \E s \in Streams : TaskStep(s) \/ Iterate(s) \/ Drop(s) \/ Close(s)
    \/ \E h \in Fickle : AddHook(h) \/ RemoveHook(h)
    \/ Terminated

Spec == Init /\ [][Next]_vars

\* The event loop runs every task that can go on, steps and hooks end, and
\* consumers go on iterating unless they leave.
FairSpec ==
    Spec /\ \A s \in Streams : WF_vars(TaskStep(s)) /\ WF_vars(Iterate(s))

-----------------------------------------------------------------------------
(***************************************************************************)
(* Properties                                                              *)
(***************************************************************************)

\* Each stream is a channel of its own: its consumer gets exactly the events
\* of its own run, in order, none of another stream's, the end only after the
\* last of them, and the error of the run if there was one.
Ending(s) ==
    CASE task[s] = "done" -> "done"
      [] task[s] \in {"failed", "cancelled"} -> "failed"
      [] OTHER -> "no"

Iteration(s) ==
    CASE consumer[s] = "finished" -> "done"
      [] consumer[s] = "raised" -> "failed"
      [] consumer[s] \in {"closing", "closed"} -> "left"
      [] OTHER -> "no"

Channel == INSTANCE EventChannel WITH
    got <- received,
    shut <- [s \in Streams |-> Ending(s)],
    ended <- [s \in Streams |-> Iteration(s)]

StreamsAreChannels == Channel!Spec

\* Whichever way a generator is left, its background task is over: nothing
\* goes on spending, writing results or calling hooks behind it.
NoOrphanTask ==
    \A s \in Streams : consumer[s] \in ConsumerOver => task[s] \notin Running

\* A stream that ran to its end told every hook that was there all along of
\* every notice, once, whatever other hooks raised, came or went meanwhile.
LoyalHooksHearAll ==
    \A s \in Streams : task[s] = "done" =>
        \A h \in Loyal : heard[h][s] = notices[s]

\* A consumer that is not left waiting: every generator that was opened ends.
EveryStreamEnds ==
    \A s \in Streams : consumer[s] = "reading" ~> consumer[s] \in ConsumerOver
=============================================================================
