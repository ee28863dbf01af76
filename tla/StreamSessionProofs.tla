------------------------- MODULE StreamSessionProofs -------------------------
(***************************************************************************)
(* Proofs about streaming (StreamSession): no task outlives its generator, *)
(* every stream is a channel of its own (EventChannel), and hooks that are *)
(* there all along hear every notice, for any number of streams, hooks,    *)
(* notices and chunks.                                                     *)
(***************************************************************************)
EXTENDS StreamSession, SequenceTheorems, WellFoundedInduction, TLAPS

-----------------------------------------------------------------------------
(***************************************************************************)
(* A queue that holds the rest of what was put into it: r was taken, q is  *)
(* left, p was put, and e is what ends the queue, if it has ended.         *)
(***************************************************************************)

IsRest(r, q, p, e) == r \o q = p \o e

Items == Events \cup {Sentinel}

LEMMA HeadAndTail ==
    ASSUME NEW T, NEW q \in Seq(T), q # <<>>
    PROVE  /\ Head(q) \in T /\ Tail(q) \in Seq(T)
           /\ Len(q) \in Nat \ {0} /\ Head(q) = q[1]
           /\ <<Head(q)>> \o Tail(q) = q
  <1>1. Len(q) \in Nat \ {0} /\ Head(q) = q[1]
    BY EmptySeq
  <1>2. Head(q) \in T /\ Tail(q) \in Seq(T) /\ Tail(q) = SubSeq(q, 2, Len(q))
    BY HeadTailProperties, TailIsSubSeq
  <1>3. SubSeq(q, 1, Len(q)) = <<q[1]>> \o SubSeq(q, 1 + 1, Len(q))
    <2>1. 1 \in 1 .. Len(q) /\ Len(q) \in 1 .. Len(q)
      BY <1>1
    <2> QED BY <2>1, SubSeqRecursiveFirst
  <1>4. SubSeq(q, 1, Len(q)) = q
    BY SubSeqFull
  <1> QED BY <1>1, <1>2, <1>3, <1>4

(* What is taken next is the mark, and then everything was taken, or the   *)
(* next that was put.                                                      *)
LEMMA HeadOfRest ==
    ASSUME NEW r \in Seq(Events), NEW p \in Seq(Events), NEW q \in Seq(Items),
           NEW e \in {<<>>, <<Sentinel>>}, IsRest(r, q, p, e), q # <<>>
    PROVE  /\ Head(q) = Sentinel => e # <<>> /\ r = p
           /\ Head(q) # Sentinel => /\ Head(q) \in Events
                                /\ Len(r) < Len(p) /\ Head(q) = p[Len(r) + 1]
           /\ IsRest(Append(r, Head(q)), Tail(q), p, e)
  <1> USE DEF IsRest
  <1> DEFINE n == Len(r) + 1
  <1>1. r \in Seq(Items) /\ p \in Seq(Items)
    BY SeqMonotonic DEF Items
  <1>2. e \in Seq(Items) /\ Len(e) \in {0, 1} /\ (e # <<>> => Len(e) = 1 /\ e[1] = Sentinel)
        /\ (e = <<>> => Len(e) = 0)
    <2>1. <<>> \in Seq(Items) /\ Len(<<>>) = 0
      BY EmptySeq
    <2>2. <<Sentinel>> \in Seq(Items) /\ Len(<<Sentinel>>) = 1 /\ <<Sentinel>>[1] = Sentinel
      BY DEF Items
    <2> QED BY <2>1, <2>2
  <1>3. /\ Head(q) \in Items /\ Tail(q) \in Seq(Items) /\ Len(q) \in Nat \ {0}
        /\ Head(q) = q[1] /\ <<Head(q)>> \o Tail(q) = q
    BY HeadAndTail
  <1>4. Len(r) \in Nat /\ Len(p) \in Nat
    BY LenProperties
  <1>5. /\ Len(r \o q) = Len(r) + Len(q)
        /\ \A i \in 1 .. Len(r) + Len(q) :
              (r \o q)[i] = IF i <= Len(r) THEN r[i] ELSE q[i - Len(r)]
    BY <1>1, ConcatProperties
  <1>6. /\ Len(p \o e) = Len(p) + Len(e)
        /\ \A i \in 1 .. Len(p) + Len(e) :
              (p \o e)[i] = IF i <= Len(p) THEN p[i] ELSE e[i - Len(p)]
    BY <1>1, <1>2, ConcatProperties
  <1>7. Len(r) + Len(q) = Len(p) + Len(e)
    BY <1>5, <1>6
  <1>8. Head(q) = IF n <= Len(p) THEN p[n] ELSE e[n - Len(p)]
    <2>1. n \in 1 .. Len(r) + Len(q) /\ n \in 1 .. Len(p) + Len(e)
      BY <1>3, <1>4, <1>7
    <2>2. (r \o q)[n] = q[n - Len(r)] /\ n - Len(r) = 1
      BY <1>4, <1>5, <2>1
    <2>3. (p \o e)[n] = IF n <= Len(p) THEN p[n] ELSE e[n - Len(p)]
      BY <1>6, <2>1
    <2> QED BY <1>3, <2>2, <2>3
  <1>9. CASE n <= Len(p)
    <2>1. Head(q) = p[n] /\ p[n] \in Events
      BY <1>4, <1>8, <1>9, LenProperties, ElementOfSeq
    <2>2. Head(q) # Sentinel /\ Len(r) < Len(p)
      BY <1>4, <1>9, <2>1, SentinelAssumption
    <2>3. Append(r, Head(q)) \o Tail(q) = p \o e
      <3>1. Append(r, Head(q)) = r \o <<Head(q)>> /\ <<Head(q)>> \in Seq(Items)
        BY <1>1, <1>3, AppendIsConcat
      <3>2. (r \o <<Head(q)>>) \o Tail(q) = r \o (<<Head(q)>> \o Tail(q))
        BY <1>1, <1>3, <3>1, ConcatAssociative
      <3> QED BY <1>3, <3>1, <3>2
    <2> QED BY <2>1, <2>2, <2>3
  <1>10. CASE ~ (n <= Len(p))
    <2>1. Len(e) = 1 /\ Len(q) = 1 /\ Len(r) = Len(p) /\ n - Len(p) = 1
      BY <1>2, <1>3, <1>4, <1>7, <1>10
    <2>2. e # <<>> /\ Head(q) = Sentinel
      BY <1>2, <1>8, <1>10, <2>1
    <2>3. \A i \in 1 .. Len(r) : r[i] = p[i]
      BY <1>4, <1>5, <1>6, <2>1
    <2>4. r = p
      BY <2>1, <2>3, SeqEqual
    <2>5. Append(r, Head(q)) \o Tail(q) = p \o e
      <3>1. Append(r, Head(q)) = r \o <<Head(q)>> /\ <<Head(q)>> \in Seq(Items)
        BY <1>1, <1>3, AppendIsConcat
      <3>2. (r \o <<Head(q)>>) \o Tail(q) = r \o (<<Head(q)>> \o Tail(q))
        BY <1>1, <1>3, <3>1, ConcatAssociative
      <3> QED BY <1>3, <3>1, <3>2
    <2> QED BY <2>2, <2>4, <2>5
  <1> QED BY <1>9, <1>10

(* What is put after p comes after what is left of p. *)
LEMMA PutOnRest ==
    ASSUME NEW T, NEW r \in Seq(T), NEW p \in Seq(T), NEW q \in Seq(T),
           NEW es \in Seq(T), NEW last \in Seq(T)
    PROVE  /\ (q \o es) \o last \in Seq(T)
           /\ IsRest(r, q, p, <<>>) => IsRest(r, (q \o es) \o last, p \o es, last)
  <1>1. q \o es \in Seq(T) /\ (q \o es) \o last \in Seq(T)
    BY ConcatProperties
  <1>2. p \o <<>> = p
    BY ConcatEmptySeq
  <1>3. r \o ((q \o es) \o last) = (r \o (q \o es)) \o last
    BY <1>1
  <1>4. r \o (q \o es) = (r \o q) \o es
    OBVIOUS
  <1> QED BY <1>1, <1>2, <1>3, <1>4 DEF IsRest

-----------------------------------------------------------------------------
(***************************************************************************)
(* The inductive invariant                                                 *)
(***************************************************************************)

StreamTyped ==
    /\ task \in [Streams -> {"new"} \cup Running \cup TaskOver]
    /\ queue \in [Streams -> Seq(Items)]
    /\ consumer \in [Streams -> {"fresh", "reading", "holding", "closing"}
                                   \cup ConsumerOver]
    /\ hooks \in Seq(Hooks)
    /\ calls \in [Streams -> Seq(Hooks)]
    /\ cancelled \in [Streams -> BOOLEAN]
    /\ notices \in [Streams -> Nat]
    /\ chunks \in [Streams -> Nat]
    /\ sent \in [Streams -> Seq(Events)]
    /\ received \in [Streams -> Seq(Events)]
    /\ heard \in [Loyal -> [Streams -> Nat]]

\* What ends the queue of a stream.
EndMark(s) == IF task[s] \in TaskOver THEN <<Sentinel>> ELSE <<>>

\* The queue holds what was sent and not yet received, and its end.
QueueIsRest ==
    \A s \in Streams : IsRest(received[s], queue[s], sent[s], EndMark(s))

\* A task runs only for a generator that is still there.
TaskIsWatched ==
    \A s \in Streams :
        /\ consumer[s] = "fresh" => task[s] = "new"
        /\ task[s] \in Running => consumer[s] \in {"reading", "holding", "closing"}

Once(q, h) == \E i \in DOMAIN q : \A j \in DOMAIN q : q[j] = h <=> j = i

LoyalStay == \A h \in Loyal : Once(hooks, h)

\* A hook still to be called for the current notice.
Owed(s, h) == IF \E i \in DOMAIN calls[s] : calls[s][i] = h THEN 1 ELSE 0

NoticesAreOwed ==
    \A s \in Streams :
        /\ task[s] \in TaskOver => calls[s] = <<>>
        /\ \A h \in Loyal :
              /\ \A i, j \in DOMAIN calls[s] :
                    calls[s][i] = h /\ calls[s][j] = h => i = j
              /\ task[s] \notin {"failed", "cancelled"} =>
                    heard[h][s] + Owed(s, h) = notices[s]

StreamSound ==
    /\ StreamTyped
    /\ QueueIsRest
    /\ TaskIsWatched
    /\ LoyalStay
    /\ NoticesAreOwed

LEMMA StreamsStartSound == Init => StreamSound
  <1> SUFFICES ASSUME Init PROVE StreamSound
    OBVIOUS
  <1> USE DEF Init
  <1>1. \A T : <<>> \in Seq(T) /\ DOMAIN <<>> = {}
    BY EmptySeq
  <1>2. StreamTyped
    BY <1>1, StreamAssumption DEF StreamTyped, Hooks
  <1>3. QueueIsRest
    <2> SUFFICES ASSUME NEW s \in Streams
                 PROVE  IsRest(received[s], queue[s], sent[s], EndMark(s))
      BY DEF QueueIsRest
    <2>1. EndMark(s) = <<>> /\ received[s] = <<>> /\ queue[s] = <<>> /\ sent[s] = <<>>
      BY DEF EndMark, TaskOver
    <2> QED BY <2>1 DEF IsRest
  <1>4. TaskIsWatched
    BY DEF TaskIsWatched, Running
  <1>5. LoyalStay
    BY StreamAssumption DEF LoyalStay, Once
  <1>6. NoticesAreOwed
    BY <1>1 DEF NoticesAreOwed, Owed, TaskOver
  <1> QED BY <1>2, <1>3, <1>4, <1>5, <1>6 DEF StreamSound

-----------------------------------------------------------------------------
(***************************************************************************)
(* The steps of the task                                                   *)
(***************************************************************************)

LEMMA NewEventsAreEvents ==
    ASSUME StreamTyped, NEW s \in Streams, NEW ks \in Seq(Kinds)
    PROVE  NewEvents(s, ks) \in Seq(Events)
  <1>1. Len(sent[s]) \in Nat /\ Len(ks) \in Nat /\ \A i \in 1 .. Len(ks) : ks[i] \in Kinds
    BY DEF StreamTyped
  <1>2. \A i \in 1 .. Len(ks) : Event(s, ks[i], Len(sent[s]) + i) \in Events
    BY <1>1 DEF Event, Events
  <1>3. NewEvents(s, ks) \in [1 .. Len(ks) -> Events]
    BY <1>2 DEF NewEvents
  <1> QED BY <1>1, <1>3, SeqDef

(* The events a running task emits are put after the rest. *)
LEMMA EmitSound ==
    ASSUME StreamTyped, QueueIsRest, NEW s \in Streams, NEW ks \in Seq(Kinds), Emit(s, ks),
           task[s] \in Running, NEW state \in Running, task' = [task EXCEPT ![s] = state],
           UNCHANGED received
    PROVE  /\ queue' \in [Streams -> Seq(Items)] /\ sent' \in [Streams -> Seq(Events)]
           /\ task' \in [Streams -> {"new"} \cup Running \cup TaskOver]
           /\ QueueIsRest'
  <1> PICK es : es = NewEvents(s, ks)
    OBVIOUS
  <1>1. /\ es \in Seq(Events) /\ es \in Seq(Items) /\ <<>> \in Seq(Items)
        /\ \A t \in Streams : /\ sent[t] \in Seq(Items) /\ sent[t] \in Seq(Events)
                              /\ received[t] \in Seq(Items) /\ queue[t] \in Seq(Items)
    <2>1. es \in Seq(Events)
      BY NewEventsAreEvents
    <2>2. \A q \in Seq(Events) : q \in Seq(Items)
      BY SeqMonotonic DEF Items
    <2> QED BY <2>1, <2>2 DEF StreamTyped
  <1>2. /\ sent' = [sent EXCEPT ![s] = @ \o es]
        /\ queue' = [queue EXCEPT ![s] = @ \o es \o <<>>]
    BY DEF Emit, Put
  <1>3. \A t \in Streams : t # s => sent'[t] = sent[t] /\ queue'[t] = queue[t]
    BY <1>2 DEF StreamTyped
  <1>4. sent'[s] = sent[s] \o es /\ queue'[s] = (queue[s] \o es) \o <<>>
    BY <1>2 DEF StreamTyped
  <1>5. sent[s] \o es \in Seq(Events)
    BY <1>1, ConcatProperties
  <1>6. (queue[s] \o es) \o <<>> \in Seq(Items)
    BY <1>1, PutOnRest
  <1>7. queue' \in [Streams -> Seq(Items)] /\ sent' \in [Streams -> Seq(Events)]
    BY <1>1, <1>2, <1>3, <1>4, <1>5, <1>6 DEF StreamTyped
  <1>8. task' \in [Streams -> {"new"} \cup Running \cup TaskOver]
    BY DEF StreamTyped
  <1>9. EndMark(s) = <<>> /\ EndMark(s)' = <<>>
    BY DEF EndMark, Running, TaskOver, StreamTyped
  <1>10. \A t \in Streams : t # s => EndMark(t)' = EndMark(t)
    BY DEF EndMark, StreamTyped
  <1>11. IsRest(received[s], queue[s], sent[s], <<>>)
    BY <1>9 DEF QueueIsRest
  <1>12. IsRest(received[s], (queue[s] \o es) \o <<>>, sent[s] \o es, <<>>)
    BY <1>1, <1>11, PutOnRest
  <1>13. QueueIsRest'
    <2> SUFFICES ASSUME NEW t \in Streams
                 PROVE  IsRest(received[t], queue'[t], sent'[t], EndMark(t)')
      BY DEF QueueIsRest
    <2>1. CASE t = s
      BY <1>4, <1>9, <1>12, <2>1
    <2>2. CASE t # s
      BY <1>3, <1>10, <2>2 DEF QueueIsRest
    <2> QED BY <2>1, <2>2
  <1> QED BY <1>7, <1>8, <1>13

(* While a task runs, it is watched as before. *)
LEMMA StaysWatched ==
    ASSUME StreamTyped, TaskIsWatched, NEW s \in Streams, task[s] \in Running,
           NEW state \in Running \cup TaskOver, task' = [task EXCEPT ![s] = state],
           UNCHANGED consumer
    PROVE  TaskIsWatched'
  <1> SUFFICES ASSUME NEW t \in Streams
               PROVE  /\ consumer[t] = "fresh" => task'[t] = "new"
                      /\ task'[t] \in Running =>
                            consumer[t] \in {"reading", "holding", "closing"}
    BY DEF TaskIsWatched
  <1>1. CASE t = s
    BY <1>1 DEF TaskIsWatched, Running
  <1>2. CASE t # s
    BY <1>2 DEF TaskIsWatched, StreamTyped
  <1> QED BY <1>1, <1>2

(* A notice is owed to every hook registered by now. *)
LEMMA NoticeSound ==
    ASSUME StreamSound, NEW s \in Streams, NEW ks \in Seq(Kinds), Notice(s, ks), Free(s),
           task[s] \in Running, NEW state \in Running, task' = [task EXCEPT ![s] = state],
           UNCHANGED <<consumer, hooks, cancelled, chunks, received, heard>>
    PROVE  StreamSound'
  <1>1. /\ StreamTyped /\ Emit(s, ks) /\ calls[s] = <<>>
        /\ notices' = [notices EXCEPT ![s] = @ + 1]
        /\ calls' = [calls EXCEPT ![s] = hooks]
    BY DEF StreamSound, Notice, Free
  <1>2. /\ queue' \in [Streams -> Seq(Items)] /\ sent' \in [Streams -> Seq(Events)]
        /\ task' \in [Streams -> {"new"} \cup Running \cup TaskOver]
        /\ QueueIsRest'
    BY <1>1, EmitSound DEF StreamSound
  <1>3. notices' \in [Streams -> Nat] /\ calls' \in [Streams -> Seq(Hooks)]
    BY <1>1 DEF StreamTyped
  <1>4. StreamTyped'
    BY <1>1, <1>2, <1>3 DEF StreamTyped
  <1>5. TaskIsWatched'
    BY <1>1, StaysWatched DEF StreamSound
  <1>6. LoyalStay'
    BY DEF StreamSound, LoyalStay
  <1>7. NoticesAreOwed'
    <2> SUFFICES ASSUME NEW t \in Streams
                 PROVE  /\ task'[t] \in TaskOver => calls'[t] = <<>>
                        /\ \A h \in Loyal :
                              /\ \A i, j \in DOMAIN calls'[t] :
                                    calls'[t][i] = h /\ calls'[t][j] = h => i = j
                              /\ task'[t] \notin {"failed", "cancelled"} =>
                                    heard'[h][t] + Owed(t, h)' = notices'[t]
      BY DEF NoticesAreOwed
    <2>1. CASE t # s
      <3>1. calls'[t] = calls[t] /\ notices'[t] = notices[t] /\ task'[t] = task[t]
            /\ heard' = heard
        BY <1>1, <2>1 DEF StreamTyped
      <3>2. \A h \in Loyal : Owed(t, h)' = Owed(t, h)
        BY <3>1 DEF Owed
      <3> QED BY <3>1, <3>2 DEF StreamSound, NoticesAreOwed
    <2>2. CASE t = s
      <3>1. /\ calls'[s] = hooks /\ notices'[s] = notices[s] + 1 /\ heard' = heard
            /\ task'[s] = state /\ task[s] \notin TaskOver /\ state \notin TaskOver
        BY <1>1 DEF StreamTyped, Running, TaskOver
      <3>2. ASSUME NEW h \in Loyal
            PROVE  /\ \A i, j \in DOMAIN calls'[s] :
                         calls'[s][i] = h /\ calls'[s][j] = h => i = j
                   /\ Owed(s, h) = 0 /\ Owed(s, h)' = 1
        <4>1. DOMAIN calls[s] = {}
          BY <1>1, EmptySeq
        <4>2. Owed(s, h) = 0
          BY <4>1 DEF Owed
        <4>3. PICK i \in DOMAIN hooks : \A j \in DOMAIN hooks : hooks[j] = h <=> j = i
          BY DEF StreamSound, LoyalStay, Once
        <4>4. Owed(s, h)' = 1
          BY <3>1, <4>3 DEF Owed
        <4> QED BY <3>1, <4>2, <4>3, <4>4
      <3>3. \A h \in Loyal : heard[h][s] \in Nat /\ notices[s] \in Nat
        BY <1>1 DEF StreamTyped
      <3>4. \A h \in Loyal : heard[h][s] + 0 = notices[s]
        BY <3>1, <3>2 DEF StreamSound, NoticesAreOwed, TaskOver
      <3>5. \A h \in Loyal : heard'[h][s] + Owed(s, h)' = notices'[s]
        BY <3>1, <3>2, <3>3, <3>4
      <3> QED BY <2>2, <3>1, <3>2, <3>5
    <2> QED BY <2>1, <2>2
  <1> QED BY <1>2, <1>4, <1>5, <1>6, <1>7 DEF StreamSound

(* A task that is over has put the end on its queue, and calls no hook.    *)
(* It ends well only with no hook left to call.                            *)
LEMMA OverSound ==
    ASSUME StreamSound, NEW s \in Streams, NEW how \in TaskOver, Over(s, how),
           task[s] \in Running, how = "done" => calls[s] = <<>>
    PROVE  StreamSound'
  <1>1. /\ StreamTyped /\ task' = [task EXCEPT ![s] = how]
        /\ queue' = [queue EXCEPT ![s] = @ \o <<>> \o <<Sentinel>>]
        /\ calls' = [calls EXCEPT ![s] = <<>>]
        /\ UNCHANGED <<consumer, hooks, cancelled, notices, chunks, sent, received, heard>>
    BY DEF StreamSound, Over, Put, CloseQueue
  <1>2. /\ <<>> \in Seq(Items) /\ <<Sentinel>> \in Seq(Items) /\ <<>> \in Seq(Hooks)
        /\ \A t \in Streams : /\ sent[t] \in Seq(Items) /\ received[t] \in Seq(Items)
                              /\ queue[t] \in Seq(Items)
    <2>1. \A q \in Seq(Events) : q \in Seq(Items)
      BY SeqMonotonic DEF Items
    <2>2. Sentinel \in Items
      BY DEF Items
    <2> QED BY <1>1, <2>1, <2>2 DEF StreamTyped
  <1>3. EndMark(s) = <<>> /\ EndMark(s)' = <<Sentinel>>
    BY <1>1 DEF EndMark, Running, TaskOver, StreamTyped
  <1>4. \A t \in Streams : t # s => EndMark(t)' = EndMark(t) /\ queue'[t] = queue[t]
    BY <1>1 DEF EndMark, StreamTyped
  <1>5. queue'[s] = (queue[s] \o <<>>) \o <<Sentinel>>
    BY <1>1 DEF StreamTyped
  <1>6. IsRest(received[s], queue[s], sent[s], <<>>)
    BY <1>3 DEF StreamSound, QueueIsRest
  <1>7. (queue[s] \o <<>>) \o <<Sentinel>> \in Seq(Items)
        /\ IsRest(received[s], (queue[s] \o <<>>) \o <<Sentinel>>, sent[s] \o <<>>, <<Sentinel>>)
    BY <1>2, <1>6, PutOnRest
  <1>8. sent[s] \o <<>> = sent[s]
    BY <1>2, ConcatEmptySeq
  <1>9. QueueIsRest'
    <2> SUFFICES ASSUME NEW t \in Streams
                 PROVE  IsRest(received[t], queue'[t], sent[t], EndMark(t)')
      BY <1>1 DEF QueueIsRest
    <2>1. CASE t = s
      BY <1>3, <1>5, <1>7, <1>8, <2>1
    <2>2. CASE t # s
      BY <1>4, <2>2 DEF StreamSound, QueueIsRest
    <2> QED BY <2>1, <2>2
  <1>10. queue' \in [Streams -> Seq(Items)] /\ calls' \in [Streams -> Seq(Hooks)]
         /\ task' \in [Streams -> {"new"} \cup Running \cup TaskOver]
    BY <1>1, <1>2, <1>4, <1>5, <1>7 DEF StreamTyped
  <1>11. StreamTyped'
    BY <1>1, <1>10 DEF StreamTyped
  <1>12. TaskIsWatched'
    BY <1>1, StaysWatched DEF StreamSound
  <1>13. LoyalStay'
    BY <1>1 DEF StreamSound, LoyalStay
  <1>14. NoticesAreOwed'
    <2> SUFFICES ASSUME NEW t \in Streams
                 PROVE  /\ task'[t] \in TaskOver => calls'[t] = <<>>
                        /\ \A h \in Loyal :
                              /\ \A i, j \in DOMAIN calls'[t] :
                                    calls'[t][i] = h /\ calls'[t][j] = h => i = j
                              /\ task'[t] \notin {"failed", "cancelled"} =>
                                    heard'[h][t] + Owed(t, h)' = notices'[t]
      BY DEF NoticesAreOwed
    <2>1. CASE t # s
      <3>1. calls'[t] = calls[t] /\ notices'[t] = notices[t] /\ task'[t] = task[t]
            /\ heard' = heard
        BY <1>1, <2>1 DEF StreamTyped
      <3>2. \A h \in Loyal : Owed(t, h)' = Owed(t, h)
        BY <3>1 DEF Owed
      <3> QED BY <3>1, <3>2 DEF StreamSound, NoticesAreOwed
    <2>2. CASE t = s
      <3>1. /\ calls'[s] = <<>> /\ notices' = notices /\ heard' = heard
            /\ task'[s] = how /\ task[s] \notin TaskOver
        BY <1>1 DEF StreamTyped, Running, TaskOver
      <3>2. DOMAIN calls'[s] = {}
        BY <3>1, EmptySeq
      <3>3. \A h \in Loyal : Owed(s, h)' = 0
        BY <3>2 DEF Owed
      <3>4. how = "done" => \A h \in Loyal : Owed(s, h) = 0
        BY EmptySeq DEF Owed
      <3>5. \A h \in Loyal : heard[h][s] + Owed(s, h) = notices[s]
        BY <3>1 DEF StreamSound, NoticesAreOwed, TaskOver
      <3>6. how = "done" => \A h \in Loyal : heard'[h][s] + Owed(s, h)' = notices'[s]
        BY <3>1, <3>3, <3>4, <3>5
      <3> QED BY <2>2, <3>1, <3>2, <3>6 DEF TaskOver
    <2> QED BY <2>1, <2>2
  <1> QED BY <1>9, <1>11, <1>12, <1>13, <1>14 DEF StreamSound

(* What a step that leaves hooks, calls and notices alone does to them. *)
LEMMA OwedAsBefore ==
    ASSUME LoyalStay, NoticesAreOwed, UNCHANGED <<hooks, calls, notices, heard>>,
           \A s \in Streams : /\ task'[s] \in TaskOver => task[s] \in TaskOver
                              /\ task[s] \in {"failed", "cancelled"} => task'[s] = task[s]
    PROVE  LoyalStay' /\ NoticesAreOwed'
  <1>1. \A s, h : Owed(s, h)' = Owed(s, h)
    BY DEF Owed
  <1>2. NoticesAreOwed'
    <2> SUFFICES ASSUME NEW s \in Streams
                 PROVE  /\ task'[s] \in TaskOver => calls[s] = <<>>
                        /\ \A h \in Loyal :
                              /\ \A i, j \in DOMAIN calls[s] :
                                    calls[s][i] = h /\ calls[s][j] = h => i = j
                              /\ task'[s] \notin {"failed", "cancelled"} =>
                                    heard[h][s] + Owed(s, h)' = notices[s]
      BY DEF NoticesAreOwed
    <2> QED BY <1>1 DEF NoticesAreOwed
  <1>3. LoyalStay'
    BY DEF LoyalStay
  <1> QED BY <1>2, <1>3

LEMMA ChunkSound ==
    ASSUME StreamSound, NEW s \in Streams, Chunk(s)
    PROVE  StreamSound'
  <1>1. /\ StreamTyped /\ Emit(s, <<"chunk">>) /\ task[s] = "streaming"
        /\ chunks' = [chunks EXCEPT ![s] = @ + 1]
        /\ UNCHANGED <<task, consumer, hooks, calls, cancelled, notices, received, heard>>
    BY DEF StreamSound, Chunk
  <1>2. task' = [task EXCEPT ![s] = "streaming"]
    BY <1>1 DEF StreamTyped
  <1>3. "streaming" \in Running /\ <<"chunk">> \in Seq(Kinds)
    BY DEF Running, Kinds
  <1>4. /\ queue' \in [Streams -> Seq(Items)] /\ sent' \in [Streams -> Seq(Events)]
        /\ QueueIsRest'
    BY <1>1, <1>2, <1>3, EmitSound DEF StreamSound
  <1>5. chunks' \in [Streams -> Nat]
    BY <1>1 DEF StreamTyped
  <1>6. StreamTyped'
    BY <1>1, <1>4, <1>5 DEF StreamTyped
  <1>7. TaskIsWatched'
    BY <1>1 DEF StreamSound, TaskIsWatched
  <1>8. LoyalStay' /\ NoticesAreOwed'
    BY <1>1, OwedAsBefore DEF StreamSound
  <1> QED BY <1>4, <1>6, <1>7, <1>8 DEF StreamSound

(* A hook that was called is not called again for this notice. *)
LEMMA CallHookSound ==
    ASSUME StreamSound, NEW s \in Streams, CallHook(s)
    PROVE  StreamSound'
  <1> DEFINE q == calls[s]
  <1>1. /\ StreamTyped /\ q \in Seq(Hooks) /\ q # <<>>
        /\ calls' = [calls EXCEPT ![s] = Tail(@)]
        /\ heard' = [h \in Loyal |->
               [heard[h] EXCEPT ![s] = IF h = Head(q) THEN @ + 1 ELSE @]]
        /\ UNCHANGED <<task, queue, consumer, hooks, cancelled, notices, chunks, sent, received>>
    BY DEF StreamSound, StreamTyped, CallHook
  <1>2. /\ Tail(q) \in Seq(Hooks) /\ Head(q) = q[1] /\ Len(q) \in Nat \ {0}
        /\ DOMAIN q = 1 .. Len(q) /\ DOMAIN Tail(q) = 1 .. Len(q) - 1
        /\ \A i \in DOMAIN Tail(q) : Tail(q)[i] = q[i + 1]
    <2>1. Tail(q) \in Seq(Hooks) /\ Head(q) = q[1] /\ Len(q) \in Nat \ {0}
      BY <1>1, HeadAndTail
    <2>2. Len(Tail(q)) = Len(q) - 1 /\ \A i \in 1 .. Len(Tail(q)) : Tail(q)[i] = q[i + 1]
      BY <1>1, HeadTailProperties
    <2>3. DOMAIN q = 1 .. Len(q) /\ DOMAIN Tail(q) = 1 .. Len(Tail(q))
      BY <1>1, <2>1, LenProperties
    <2> QED BY <2>1, <2>2, <2>3
  <1>3. calls'[s] = Tail(q) /\ \A t \in Streams : t # s => calls'[t] = calls[t]
    BY <1>1 DEF StreamTyped
  <1>4. \A h \in Loyal : /\ heard'[h][s] = IF h = Head(q) THEN heard[h][s] + 1 ELSE heard[h][s]
                         /\ \A t \in Streams : t # s => heard'[h][t] = heard[h][t]
                         /\ heard[h][s] \in Nat
    BY <1>1 DEF StreamTyped
  <1>5. calls' \in [Streams -> Seq(Hooks)]
    BY <1>1, <1>2 DEF StreamTyped
  <1>6. heard' \in [Loyal -> [Streams -> Nat]]
    BY <1>1, <1>4 DEF StreamTyped
  <1>7. StreamTyped'
    BY <1>1, <1>5, <1>6 DEF StreamTyped
  <1>8. QueueIsRest' /\ TaskIsWatched' /\ LoyalStay'
    <2>1. QueueIsRest'
      BY <1>1 DEF StreamSound, QueueIsRest, EndMark
    <2>2. TaskIsWatched' /\ LoyalStay'
      BY <1>1 DEF StreamSound, TaskIsWatched, LoyalStay
    <2> QED BY <2>1, <2>2
  <1> HIDE DEF q
  <1>9. NoticesAreOwed'
    <2> SUFFICES ASSUME NEW t \in Streams
                 PROVE  /\ task'[t] \in TaskOver => calls'[t] = <<>>
                        /\ \A h \in Loyal :
                              /\ \A i, j \in DOMAIN calls'[t] :
                                    calls'[t][i] = h /\ calls'[t][j] = h => i = j
                              /\ task'[t] \notin {"failed", "cancelled"} =>
                                    heard'[h][t] + Owed(t, h)' = notices'[t]
      BY DEF NoticesAreOwed
    <2>1. CASE t # s
      <3>1. calls'[t] = calls[t] /\ notices' = notices /\ task' = task
            /\ \A h \in Loyal : heard'[h][t] = heard[h][t]
        BY <1>1, <1>3, <1>4, <2>1
      <3>2. \A h \in Loyal : Owed(t, h)' = Owed(t, h)
        BY <3>1 DEF Owed
      <3> QED BY <3>1, <3>2 DEF StreamSound, NoticesAreOwed
    <2>2. CASE t = s
      <3>1. task[s] \notin TaskOver
        BY <1>1 DEF StreamSound, NoticesAreOwed, q
      <3>2. ASSUME NEW h \in Loyal
            PROVE  /\ \A i, j \in DOMAIN Tail(q) : Tail(q)[i] = h /\ Tail(q)[j] = h => i = j
                   /\ heard'[h][s] + Owed(s, h)' = notices[s]
        <4>1. /\ \A i, j \in DOMAIN q : q[i] = h /\ q[j] = h => i = j
              /\ heard[h][s] + Owed(s, h) = notices[s]
          BY <3>1 DEF StreamSound, NoticesAreOwed, TaskOver, q
        <4>2. \A i \in DOMAIN Tail(q) : i + 1 \in DOMAIN q /\ i \in Nat /\ i + 1 # 1
          BY <1>2
        <4>3. 1 \in DOMAIN q
          BY <1>2
        <4>4. \A i, j \in DOMAIN Tail(q) : Tail(q)[i] = h /\ Tail(q)[j] = h => i = j
          <5> TAKE i, j \in DOMAIN Tail(q)
          <5> HAVE Tail(q)[i] = h /\ Tail(q)[j] = h
          <5>1. q[i + 1] = h /\ q[j + 1] = h
            BY <1>2
          <5>2. i + 1 = j + 1
            BY <4>1, <4>2, <5>1
          <5> QED BY <4>2, <5>2
        <4>5. CASE h = Head(q)
          <5>1. Owed(s, h) = 1
            BY <1>2, <4>3, <4>5 DEF Owed, q
          <5>2. \A i \in DOMAIN Tail(q) : Tail(q)[i] # h
            BY <1>2, <4>1, <4>2, <4>3, <4>5
          <5>3. Owed(s, h)' = 0
            BY <1>3, <5>2 DEF Owed
          <5> QED BY <1>4, <4>1, <4>4, <4>5, <5>1, <5>3
        <4>6. CASE h # Head(q)
          <5>1. (\E i \in DOMAIN q : q[i] = h) <=> (\E i \in DOMAIN Tail(q) : Tail(q)[i] = h)
            <6>1. ASSUME NEW i \in DOMAIN q, q[i] = h
                  PROVE  \E j \in DOMAIN Tail(q) : Tail(q)[j] = h
              <7>1. i - 1 \in DOMAIN Tail(q) /\ (i - 1) + 1 = i
                BY <1>2, <4>6, <6>1
              <7> QED BY <1>2, <6>1, <7>1
            <6> QED BY <1>2, <4>2, <6>1
          <5>2. Owed(s, h)' = Owed(s, h)
            BY <1>3, <5>1 DEF Owed, q
          <5> QED BY <1>4, <4>1, <4>4, <4>6, <5>2
        <4> QED BY <4>5, <4>6
      <3>3. task'[s] \notin TaskOver
        BY <1>1, <3>1
      <3>4. \A h \in Loyal : \A i, j \in DOMAIN calls'[s] :
               calls'[s][i] = h /\ calls'[s][j] = h => i = j
        BY <1>3, <3>2
      <3>5. \A h \in Loyal : heard'[h][s] + Owed(s, h)' = notices'[s]
        BY <1>1, <3>2
      <3> QED BY <2>2, <3>3, <3>4, <3>5
    <2> QED BY <2>1, <2>2
  <1> QED BY <1>7, <1>8, <1>9 DEF StreamSound

LEMMA TaskStepSound ==
    ASSUME StreamSound, NEW s \in Streams, TaskStep(s)
    PROVE  StreamSound'
  <1>1. ASSUME Start(s) PROVE StreamSound'
    <2>1. "starting" \in Running /\ "working" \in Running /\ <<"start">> \in Seq(Kinds)
      BY DEF Running, Kinds
    <2> QED BY <1>1, <2>1, NoticeSound DEF Start
  <1>2. ASSUME StepNotice(s) PROVE StreamSound'
    <2>1. PICK ks \in {<<"step">>, <<>>} : Notice(s, ks)
      BY <1>2 DEF StepNotice
    <2>2. <<"step">> \in Seq(Kinds) /\ <<>> \in Seq(Kinds)
      BY DEF Kinds
    <2>3. "working" \in Running /\ task' = [task EXCEPT ![s] = "working"]
      BY <1>2 DEF Running, StepNotice, StreamSound, StreamTyped
    <2> QED BY <1>2, <2>1, <2>2, <2>3, NoticeSound DEF StepNotice
  <1>3. ASSUME StrategyReturns(s) PROVE StreamSound'
    <2>1. /\ task[s] = "working" /\ task' = [task EXCEPT ![s] = "streaming"]
          /\ UNCHANGED <<queue, consumer, hooks, calls, cancelled, notices, chunks,
                         sent, received, heard>>
      BY <1>3 DEF StrategyReturns
    <2>2. \A t \in Streams : /\ EndMark(t)' = EndMark(t)
                             /\ task'[t] \in TaskOver <=> task[t] \in TaskOver
                             /\ task[t] \in {"failed", "cancelled"} => task'[t] = task[t]
      BY <2>1 DEF EndMark, TaskOver, StreamSound, StreamTyped
    <2>3. StreamTyped'
      BY <2>1 DEF StreamSound, StreamTyped, Running
    <2>4. QueueIsRest'
      BY <2>1, <2>2 DEF StreamSound, QueueIsRest
    <2>5. TaskIsWatched'
      BY <2>1, StaysWatched DEF StreamSound, Running
    <2>6. LoyalStay' /\ NoticesAreOwed'
      BY <2>1, <2>2, OwedAsBefore DEF StreamSound
    <2> QED BY <2>3, <2>4, <2>5, <2>6 DEF StreamSound
  <1>4. ASSUME End(s) PROVE StreamSound'
    <2>1. PICK ks \in {<<"surface", "end">>, <<"end">>} : Notice(s, ks)
      BY <1>4 DEF End
    <2>2. <<"surface", "end">> \in Seq(Kinds) /\ <<"end">> \in Seq(Kinds)
      BY DEF Kinds
    <2>3. "streaming" \in Running /\ "ending" \in Running
      BY DEF Running
    <2> QED BY <1>4, <2>1, <2>2, <2>3, NoticeSound DEF End
  <1>5. ASSUME Done(s) PROVE StreamSound'
    BY <1>5, OverSound DEF Done, Free, Running, TaskOver
  <1>6. ASSUME Fail(s) PROVE StreamSound'
    <2>1. "failed" \in TaskOver /\ task[s] \in Running /\ Over(s, "failed")
      BY <1>6 DEF Fail, Running, TaskOver
    <2> QED BY <2>1, OverSound
  <1>7. ASSUME Stop(s) PROVE StreamSound'
    <2>1. PICK how \in {"cancelled", "failed"} : Over(s, how)
      BY <1>7 DEF Stop
    <2>2. how \in TaskOver /\ how # "done"
      BY DEF TaskOver
    <2> QED BY <1>7, <2>1, <2>2, OverSound DEF Stop
  <1> QED BY <1>1, <1>2, <1>3, <1>4, <1>5, <1>6, <1>7, ChunkSound, CallHookSound DEF TaskStep

-----------------------------------------------------------------------------
(***************************************************************************)
(* The steps of the generator, its consumer and the hook manager           *)
(***************************************************************************)

(* A step of the consumer alone. *)
LEMMA ConsumerSound ==
    ASSUME StreamSound, NEW s \in Streams,
           NEW place \in {"reading", "holding", "closing"} \cup ConsumerOver,
           consumer' = [consumer EXCEPT ![s] = place],
           task[s] \in Running => place \notin ConsumerOver,
           cancelled' \in [Streams -> BOOLEAN],
           UNCHANGED <<task, queue, hooks, calls, notices, chunks, sent, received, heard>>
    PROVE  StreamSound'
  <1>1. StreamTyped'
    BY DEF StreamSound, StreamTyped
  <1>2. QueueIsRest'
    BY DEF StreamSound, QueueIsRest, EndMark
  <1>3. TaskIsWatched'
    <2> SUFFICES ASSUME NEW t \in Streams
                 PROVE  /\ consumer'[t] = "fresh" => task[t] = "new"
                        /\ task[t] \in Running =>
                              consumer'[t] \in {"reading", "holding", "closing"}
      BY DEF TaskIsWatched
    <2>1. CASE t = s
      BY <2>1 DEF StreamSound, StreamTyped, ConsumerOver
    <2>2. CASE t # s
      BY <2>2 DEF StreamSound, StreamTyped, TaskIsWatched
    <2> QED BY <2>1, <2>2
  <1>4. LoyalStay' /\ NoticesAreOwed'
    BY OwedAsBefore DEF StreamSound
  <1> QED BY <1>1, <1>2, <1>3, <1>4 DEF StreamSound

LEMMA OpenSound ==
    ASSUME StreamSound, NEW s \in Streams, Open(s)
    PROVE  StreamSound'
  <1>1. /\ StreamTyped /\ task[s] = "new"
        /\ consumer' = [consumer EXCEPT ![s] = "reading"]
        /\ task' = [task EXCEPT ![s] = "starting"]
        /\ UNCHANGED <<queue, hooks, calls, cancelled, notices, chunks, sent, received, heard>>
    BY DEF StreamSound, TaskIsWatched, Open
  <1>2. \A t \in Streams : /\ EndMark(t)' = EndMark(t)
                           /\ task'[t] \in TaskOver <=> task[t] \in TaskOver
                           /\ task[t] \in {"failed", "cancelled"} => task'[t] = task[t]
    BY <1>1 DEF EndMark, TaskOver, StreamTyped
  <1>3. StreamTyped'
    BY <1>1 DEF StreamTyped, Running
  <1>4. QueueIsRest'
    BY <1>1, <1>2 DEF StreamSound, QueueIsRest
  <1>5. TaskIsWatched'
    BY <1>1 DEF StreamSound, TaskIsWatched, StreamTyped
  <1>6. LoyalStay' /\ NoticesAreOwed'
    BY <1>1, <1>2, OwedAsBefore DEF StreamSound
  <1> QED BY <1>3, <1>4, <1>5, <1>6 DEF StreamSound

(* What the head of a queue says. *)
LEMMA HeadOfQueue ==
    ASSUME StreamSound, NEW s \in Streams, queue[s] # <<>>
    PROVE  /\ Head(queue[s]) = Sentinel => task[s] \in TaskOver /\ received[s] = sent[s]
           /\ Head(queue[s]) # Sentinel =>
                 /\ Head(queue[s]) \in Events
                 /\ Len(received[s]) < Len(sent[s])
                 /\ Head(queue[s]) = sent[s][Len(received[s]) + 1]
           /\ IsRest(Append(received[s], Head(queue[s])), Tail(queue[s]), sent[s], EndMark(s))
           /\ Tail(queue[s]) \in Seq(Items)
  <1>1. /\ received[s] \in Seq(Events) /\ sent[s] \in Seq(Events)
        /\ queue[s] \in Seq(Items)
        /\ IsRest(received[s], queue[s], sent[s], EndMark(s))
    BY DEF StreamSound, StreamTyped, QueueIsRest
  <1>2. EndMark(s) \in {<<>>, <<Sentinel>>} /\ (EndMark(s) # <<>> => task[s] \in TaskOver)
    BY DEF EndMark
  <1> HIDE DEF EndMark
  <1>3. Head(queue[s]) = Sentinel => EndMark(s) # <<>> /\ received[s] = sent[s]
    BY <1>1, <1>2, HeadOfRest
  <1>5. Head(queue[s]) # Sentinel =>
              /\ Head(queue[s]) \in Events
              /\ Len(received[s]) < Len(sent[s])
              /\ Head(queue[s]) = sent[s][Len(received[s]) + 1]
    BY <1>1, <1>2, HeadOfRest
  <1>6. IsRest(Append(received[s], Head(queue[s])), Tail(queue[s]), sent[s], EndMark(s))
    BY <1>1, <1>2, HeadOfRest
  <1>4. Tail(queue[s]) \in Seq(Items)
    BY <1>1, HeadTailProperties
  <1> QED BY <1>2, <1>3, <1>4, <1>5, <1>6

LEMMA GetSound ==
    ASSUME StreamSound, NEW s \in Streams, Get(s)
    PROVE  StreamSound'
  <1>1. /\ StreamTyped /\ consumer[s] = "reading"
        /\ queue[s] # <<>> /\ Head(queue[s]) # Sentinel
        /\ queue' = [queue EXCEPT ![s] = Tail(@)]
        /\ received' = [received EXCEPT ![s] = Append(@, Head(queue[s]))]
        /\ consumer' = [consumer EXCEPT ![s] = "holding"]
        /\ UNCHANGED <<task, hooks, calls, cancelled, notices, chunks, sent, heard>>
    BY DEF StreamSound, Get
  <1>2. /\ Head(queue[s]) \in Events /\ Tail(queue[s]) \in Seq(Items)
        /\ IsRest(Append(received[s], Head(queue[s])), Tail(queue[s]), sent[s], EndMark(s))
    BY <1>1, HeadOfQueue
  <1>3. Append(received[s], Head(queue[s])) \in Seq(Events)
    BY <1>1, <1>2, AppendProperties DEF StreamTyped
  <1>4. /\ queue'[s] = Tail(queue[s]) /\ received'[s] = Append(received[s], Head(queue[s]))
        /\ \A t \in Streams : t # s => queue'[t] = queue[t] /\ received'[t] = received[t]
    BY <1>1 DEF StreamTyped
  <1>5. queue' \in [Streams -> Seq(Items)] /\ received' \in [Streams -> Seq(Events)]
    BY <1>1, <1>2, <1>3 DEF StreamTyped
  <1>6. StreamTyped'
    BY <1>1, <1>5 DEF StreamTyped
  <1>7. QueueIsRest'
    <2> SUFFICES ASSUME NEW t \in Streams
                 PROVE  IsRest(received'[t], queue'[t], sent[t], EndMark(t))
      BY <1>1 DEF QueueIsRest, EndMark
    <2>1. CASE t = s
      BY <1>2, <1>4, <2>1
    <2>2. CASE t # s
      BY <1>4, <2>2 DEF StreamSound, QueueIsRest
    <2> QED BY <2>1, <2>2
  <1>8. TaskIsWatched'
    BY <1>1 DEF StreamSound, StreamTyped, TaskIsWatched
  <1>9. LoyalStay' /\ NoticesAreOwed'
    BY <1>1, OwedAsBefore DEF StreamSound
  <1> QED BY <1>6, <1>7, <1>8, <1>9 DEF StreamSound

LEMMA IterateSound ==
    ASSUME StreamSound, NEW s \in Streams, Iterate(s) \/ Drop(s) \/ Close(s)
    PROVE  StreamSound'
  <1>1. cancelled \in [Streams -> BOOLEAN]
        /\ [cancelled EXCEPT ![s] = task[s] \in Running] \in [Streams -> BOOLEAN]
    BY DEF StreamSound, StreamTyped
  <1>2. ASSUME Resume(s) PROVE StreamSound'
    BY <1>1, <1>2, ConsumerSound DEF Resume, ConsumerOver
  <1>3. ASSUME Join(s) PROVE StreamSound'
    <2>1. task[s] \notin Running
      BY <1>3, HeadOfQueue DEF Join, Running, TaskOver
    <2>2. PICK place \in ConsumerOver : consumer' = [consumer EXCEPT ![s] = place]
      BY <1>3 DEF Join, ConsumerOver
    <2> QED BY <1>1, <1>3, <2>1, <2>2, ConsumerSound DEF Join
  <1>4. ASSUME Closed(s) PROVE StreamSound'
    BY <1>1, <1>4, ConsumerSound DEF Closed, ConsumerOver, Running, TaskOver
  <1>5. ASSUME Drop(s) PROVE StreamSound'
    BY <1>1, <1>5, ConsumerSound DEF Drop, ConsumerOver, Running, StreamSound, TaskIsWatched
  <1>6. ASSUME Close(s) PROVE StreamSound'
    BY <1>1, <1>6, ConsumerSound DEF Close, ConsumerOver
  <1> QED BY <1>2, <1>3, <1>4, <1>5, <1>6, OpenSound, GetSound DEF Iterate

(* Hooks come and go around those that stay. *)
LEMMA HooksMoveSound ==
    ASSUME StreamSound, hooks' \in Seq(Hooks), \A h \in Loyal : Once(hooks', h),
           UNCHANGED <<task, queue, consumer, calls, cancelled, notices, chunks, sent,
                       received, heard>>
    PROVE  StreamSound'
  <1>1. StreamTyped'
    BY DEF StreamSound, StreamTyped
  <1>2. QueueIsRest'
    BY DEF StreamSound, QueueIsRest, EndMark
  <1>3. TaskIsWatched' /\ LoyalStay'
    BY DEF StreamSound, TaskIsWatched, LoyalStay
  <1>4. NoticesAreOwed'
    BY DEF StreamSound, NoticesAreOwed, Owed
  <1> QED BY <1>1, <1>2, <1>3, <1>4 DEF StreamSound

LEMMA AddHookSound ==
    ASSUME StreamSound, NEW f \in Fickle, AddHook(f)
    PROVE  StreamSound'
  <1>1. hooks \in Seq(Hooks) /\ f \in Hooks /\ f \notin Loyal /\ hooks' = Append(hooks, f)
    BY StreamAssumption DEF StreamSound, StreamTyped, AddHook, Hooks
  <1>2. /\ hooks' \in Seq(Hooks) /\ Len(hooks) \in Nat
        /\ DOMAIN hooks = 1 .. Len(hooks) /\ DOMAIN hooks' = 1 .. Len(hooks) + 1
        /\ \A i \in DOMAIN hooks : hooks'[i] = hooks[i]
        /\ hooks'[Len(hooks) + 1] = f
    BY <1>1
  <1>3. ASSUME NEW h \in Loyal PROVE Once(hooks', h)
    <2>1. PICK i \in DOMAIN hooks : \A j \in DOMAIN hooks : hooks[j] = h <=> j = i
      BY DEF StreamSound, LoyalStay, Once
    <2>2. \A j \in DOMAIN hooks' : hooks'[j] = h <=> j = i
      BY <1>1, <1>2, <2>1
    <2>3. i \in DOMAIN hooks'
      BY <1>2, <2>1
    <2> QED BY <2>2, <2>3 DEF Once
  <1> QED BY <1>2, <1>3, HooksMoveSound DEF AddHook

LEMMA LeastNumber ==
    ASSUME NEW T, T \subseteq Nat, T # {}
    PROVE  Min(T) \in T /\ \A x \in T : Min(T) <= x
  <1>1. PICK x \in T : \A y \in T : ~(<<y, x>> \in OpToRel(<, Nat))
    BY NatLessThanWellFounded, WFMin
  <1>2. \A y \in T : ~(y < x)
    BY <1>1 DEF OpToRel
  <1>3. \A y \in T : x <= y
    BY <1>2
  <1> QED BY <1>3 DEF Min

(* Removing a hook removes one of its places, and keeps the others in order. *)
LEMMA RemovedOnce ==
    ASSUME NEW T, NEW q \in Seq(T), NEW f, Contains(q, f)
    PROVE  \E k \in 1 .. Len(q) :
              /\ q[k] = f
              /\ RemoveFirst(q, f) \in Seq(T)
              /\ Len(RemoveFirst(q, f)) = Len(q) - 1
              /\ \A i \in 1 .. Len(q) - 1 :
                    RemoveFirst(q, f)[i] = IF i < k THEN q[i] ELSE q[i + 1]
  <1> DEFINE I == {i \in 1 .. Len(q) : q[i] = f}
  <1>1. I \subseteq Nat /\ I # {} /\ I \subseteq 1 .. Len(q)
    BY DEF Contains
  <1> PICK k : k = Min(I)
    OBVIOUS
  <1>2. k \in I
    BY <1>1, LeastNumber
  <1>3. k \in 1 .. Len(q) /\ q[k] = f /\ Len(q) \in Nat
    BY <1>2
  <1>4. SelectInSeq(q, LAMBDA v : v = f) = k
    BY <1>1 DEF SelectInSeq
  <1>5. RemoveFirst(q, f) = SubSeq(q, 1, k - 1) \o SubSeq(q, k + 1, Len(q))
    BY <1>4 DEF RemoveFirst, RemoveAt, Contains
  <1> HIDE DEF I
  <1> DEFINE a == SubSeq(q, 1, k - 1)
             b == SubSeq(q, k + 1, Len(q))
  <1>6. /\ a \in Seq(T) /\ Len(a) = k - 1
        /\ \A i \in 1 .. k - 1 : a[i] = q[i]
    BY <1>3
  <1>7. /\ b \in Seq(T) /\ Len(b) = Len(q) - k
        /\ \A i \in 1 .. Len(q) - k : b[i] = q[k + i]
    BY <1>3
  <1> HIDE DEF a, b
  <1>8. /\ a \o b \in Seq(T) /\ Len(a \o b) = Len(a) + Len(b)
        /\ \A i \in 1 .. Len(a) + Len(b) :
              (a \o b)[i] = IF i <= Len(a) THEN a[i] ELSE b[i - Len(a)]
    BY <1>6, <1>7, ConcatProperties
  <1>9. Len(a) + Len(b) = Len(q) - 1
    BY <1>3, <1>6, <1>7
  <1>10. ASSUME NEW i \in 1 .. Len(q) - 1
         PROVE  (a \o b)[i] = IF i < k THEN q[i] ELSE q[i + 1]
    <2>1. (a \o b)[i] = IF i <= k - 1 THEN a[i] ELSE b[i - (k - 1)]
      BY <1>6, <1>8, <1>9
    <2>2. CASE i < k
      BY <1>3, <1>6, <2>1, <2>2
    <2>3. CASE ~ (i < k)
      <3>1. i - (k - 1) \in 1 .. Len(q) - k /\ k + (i - (k - 1)) = i + 1
        BY <1>3, <2>3
      <3>2. b[i - (k - 1)] = q[i + 1]
        BY <1>7, <3>1
      <3> QED BY <1>3, <2>1, <2>3, <3>2
    <2> QED BY <2>2, <2>3
  <1>11. RemoveFirst(q, f) = a \o b
    BY <1>5 DEF a, b
  <1> QED BY <1>3, <1>8, <1>9, <1>10, <1>11

LEMMA RemoveHookSound ==
    ASSUME StreamSound, NEW f \in Fickle, RemoveHook(f)
    PROVE  StreamSound'
  <1>1. hooks \in Seq(Hooks) /\ f \notin Loyal /\ Contains(hooks, f)
        /\ hooks' = RemoveFirst(hooks, f)
    BY StreamAssumption DEF StreamSound, StreamTyped, RemoveHook
  <1>2. PICK k \in 1 .. Len(hooks) :
              /\ hooks[k] = f /\ hooks' \in Seq(Hooks) /\ Len(hooks') = Len(hooks) - 1
              /\ \A i \in 1 .. Len(hooks) - 1 :
                    hooks'[i] = IF i < k THEN hooks[i] ELSE hooks[i + 1]
    BY <1>1, RemovedOnce
  <1>3. /\ DOMAIN hooks = 1 .. Len(hooks) /\ DOMAIN hooks' = 1 .. Len(hooks) - 1
        /\ Len(hooks) \in Nat /\ k \in Nat
    BY <1>1, <1>2, LenProperties
  <1>4. ASSUME NEW h \in Loyal PROVE Once(hooks', h)
    <2>1. PICK i \in DOMAIN hooks : \A j \in DOMAIN hooks : hooks[j] = h <=> j = i
      BY DEF StreamSound, LoyalStay, Once
    <2>2. i # k /\ i \in 1 .. Len(hooks) /\ i \in Nat
      BY <1>1, <1>2, <1>3, <2>1
    <2>3. CASE i < k
      <3>1. i \in 1 .. Len(hooks) - 1
        BY <1>3, <2>2, <2>3
      <3>2. ASSUME NEW j \in 1 .. Len(hooks) - 1
            PROVE  hooks'[j] = h <=> j = i
        <4>1. j \in 1 .. Len(hooks) /\ j + 1 \in 1 .. Len(hooks)
          BY <1>3
        <4>2. hooks'[j] = IF j < k THEN hooks[j] ELSE hooks[j + 1]
          BY <1>2
        <4>3. (hooks[j] = h <=> j = i) /\ (hooks[j + 1] = h <=> j + 1 = i)
          BY <1>3, <2>1, <4>1
        <4>4. CASE j < k
          BY <1>3, <2>2, <2>3, <4>2, <4>3, <4>4
        <4>5. CASE ~ (j < k)
          BY <1>3, <2>2, <2>3, <4>2, <4>3, <4>5
        <4> QED BY <4>4, <4>5
      <3> QED BY <1>3, <3>1, <3>2 DEF Once
    <2>4. CASE i > k
      <3>1. i - 1 \in 1 .. Len(hooks) - 1
        BY <1>3, <2>2, <2>4
      <3>2. ASSUME NEW j \in 1 .. Len(hooks) - 1
            PROVE  hooks'[j] = h <=> j = i - 1
        <4>1. j \in 1 .. Len(hooks) /\ j + 1 \in 1 .. Len(hooks)
          BY <1>3
        <4>2. hooks'[j] = IF j < k THEN hooks[j] ELSE hooks[j + 1]
          BY <1>2
        <4>3. (hooks[j] = h <=> j = i) /\ (hooks[j + 1] = h <=> j + 1 = i)
          BY <1>3, <2>1, <4>1
        <4>4. CASE j < k
          BY <1>3, <2>2, <2>4, <4>2, <4>3, <4>4
        <4>5. CASE ~ (j < k)
          BY <1>3, <2>2, <2>4, <4>2, <4>3, <4>5
        <4> QED BY <4>4, <4>5
      <3> QED BY <1>3, <3>1, <3>2 DEF Once
    <2> QED BY <1>3, <2>2, <2>3, <2>4
  <1> QED BY <1>2, <1>4, HooksMoveSound DEF RemoveHook

-----------------------------------------------------------------------------
(***************************************************************************)
(* The theorems                                                            *)
(***************************************************************************)

LEMMA StreamsStaySound == Spec => []StreamSound
  <1>1. ASSUME StreamSound, [Next]_vars PROVE StreamSound'
    <2>1. ASSUME NEW s \in Streams, TaskStep(s) \/ Iterate(s) \/ Drop(s) \/ Close(s)
          PROVE  StreamSound'
      BY <1>1, <2>1, TaskStepSound, IterateSound
    <2>2. ASSUME NEW f \in Fickle, AddHook(f) \/ RemoveHook(f)
          PROVE  StreamSound'
      BY <1>1, <2>2, AddHookSound, RemoveHookSound
    <2>3. CASE UNCHANGED vars
      <3>1. /\ StreamSound /\ UNCHANGED hooks
            /\ UNCHANGED <<task, queue, consumer, calls, cancelled, notices, chunks, sent,
                           received, heard>>
        BY <1>1, <2>3 DEF vars
      <3> QED BY <3>1, HooksMoveSound DEF StreamSound, StreamTyped, LoyalStay
    <2> QED BY <1>1, <2>1, <2>2, <2>3 DEF Next, Terminated
  <1> QED BY <1>1, StreamsStartSound, PTL DEF Spec

(***************************************************************************)
(* However a generator ends or is left, its background task is over by     *)
(* then: no task outlives its consumer (executor.py:711).                  *)
(***************************************************************************)
THEOREM NoTaskIsOrphaned == Spec => []NoOrphanTask
  <1>1. StreamSound => NoOrphanTask
    BY DEF StreamSound, StreamTyped, TaskIsWatched, NoOrphanTask, ConsumerOver
  <1> QED BY <1>1, StreamsStaySound, PTL

(***************************************************************************)
(* A hook that is registered all along hears every notice of a run that    *)
(* ends well, once, while others raise, are added or removed               *)
(* (hooks.py:82).                                                          *)
(***************************************************************************)
THEOREM LoyalHooksHear == Spec => []LoyalHooksHearAll
  <1>1. StreamSound => LoyalHooksHearAll
    <2> SUFFICES ASSUME StreamSound, NEW s \in Streams, task[s] = "done", NEW h \in Loyal
                 PROVE  heard[h][s] = notices[s]
      BY DEF LoyalHooksHearAll
    <2>1. calls[s] = <<>> /\ heard[h][s] + Owed(s, h) = notices[s]
      BY DEF StreamSound, NoticesAreOwed, TaskOver
    <2>2. Owed(s, h) = 0
      BY <2>1, EmptySeq DEF Owed
    <2>3. heard[h][s] \in Nat
      BY DEF StreamSound, StreamTyped
    <2> QED BY <2>1, <2>2, <2>3
  <1> QED BY <1>1, StreamsStaySound, PTL

-----------------------------------------------------------------------------
(***************************************************************************)
(* The refinement of EventChannel                                          *)
(***************************************************************************)

(* A running task sends, and may end. *)
LEMMA Sends ==
    ASSUME StreamSound, NEW s \in Streams, task[s] \in Running,
           NEW state \in Running \cup TaskOver, task' = [task EXCEPT ![s] = state],
           NEW es \in Seq(Events), sent' = [sent EXCEPT ![s] = @ \o es],
           UNCHANGED <<received, consumer>>
    PROVE  Channel!Send(s)
  <1>1. /\ sent[s] \in Seq(Events) /\ sent'[s] = sent[s] \o es
        /\ sent' = [sent EXCEPT ![s] = sent'[s]]
    BY DEF StreamSound, StreamTyped
  <1>2. sent'[s] \in Seq(Events)
    BY <1>1, ConcatProperties
  <1>3. Channel!IsPrefix(sent[s], sent'[s])
    <2>1. /\ Len(sent[s]) \in Nat /\ Len(es) \in Nat
          /\ Len(sent[s] \o es) = Len(sent[s]) + Len(es)
          /\ \A i \in 1 .. Len(sent[s]) : (sent[s] \o es)[i] = sent[s][i]
      BY <1>1, ConcatProperties, LenProperties
    <2>2. SubSeq(sent[s], 1, Len(sent[s])) = SubSeq(sent[s] \o es, 1, Len(sent[s]))
      BY <1>1, <2>1
    <2> QED BY <1>1, <2>1, <2>2 DEF Channel!IsPrefix
  <1>4. Ending(s) = "no" /\ Ending(s)' \in {"no", "done", "failed"}
    BY DEF StreamSound, StreamTyped, Ending, Running, TaskOver
  <1>5. \A t \in Streams : t # s => Ending(t)' = Ending(t)
    BY DEF StreamSound, StreamTyped, Ending
  <1>6. \A t \in Streams : Iteration(t)' = Iteration(t)
    BY DEF Iteration
  <1> HIDE DEF Ending, Iteration
  <1> DEFINE shut == [t \in Streams |-> Ending(t)]
             next == [t \in Streams |-> Ending(t)']
  <1>7. next = [shut EXCEPT ![s] = next[s]]
    BY <1>5
  <1>8. [t \in Streams |-> Iteration(t)'] = [t \in Streams |-> Iteration(t)]
    BY <1>6
  <1>9. shut[s] = "no" /\ next[s] \in {"no", "done", "failed"}
    BY <1>4
  <1> HIDE DEF shut, next
  <1>10. Channel!Only(sent, sent', s) /\ Channel!Only(shut, next, s)
    BY <1>1, <1>7 DEF Channel!Only
  <1> QED BY <1>2, <1>3, <1>8, <1>9, <1>10 DEF Channel!Send, shut, next

(* A step that moves no events, and ends nothing, is no step of a channel. *)
LEMMA StaysStill ==
    ASSUME UNCHANGED <<sent, received>>,
           \A t \in Streams : Ending(t)' = Ending(t) /\ Iteration(t)' = Iteration(t)
    PROVE  UNCHANGED Channel!vars
  <1>1. [t \in Streams |-> Ending(t)'] = [t \in Streams |-> Ending(t)]
    OBVIOUS
  <1>2. [t \in Streams |-> Iteration(t)'] = [t \in Streams |-> Iteration(t)]
    OBVIOUS
  <1> QED BY <1>1, <1>2 DEF Channel!vars

(* The consumer of a stream moves: its iteration goes on, ends or is left. *)
LEMMA IterationMoves ==
    ASSUME StreamSound, NEW s \in Streams, NEW place,
           consumer' = [consumer EXCEPT ![s] = place],
           UNCHANGED <<task, sent>>
    PROVE  /\ \A t \in Streams : Ending(t)' = Ending(t)
           /\ \A t \in Streams : t # s => Iteration(t)' = Iteration(t)
           /\ consumer'[s] = place
  BY DEF StreamSound, StreamTyped, Ending, Iteration

LEMMA TaskStepsSend ==
    ASSUME StreamSound, NEW s \in Streams, TaskStep(s)
    PROVE  [Channel!Next]_(Channel!vars)
  <1>1. /\ StreamTyped /\ task = [task EXCEPT ![s] = @]
        /\ task[s] \in Running \cup TaskOver \cup {"new"}
    BY DEF StreamSound, StreamTyped
  <1>2. \A ks \in Seq(Kinds) : NewEvents(s, ks) \in Seq(Events)
    BY <1>1, NewEventsAreEvents
  <1>3. /\ <<"start">> \in Seq(Kinds) /\ <<"step">> \in Seq(Kinds) /\ <<>> \in Seq(Kinds)
        /\ <<"chunk">> \in Seq(Kinds) /\ <<"end">> \in Seq(Kinds)
        /\ <<"surface", "end">> \in Seq(Kinds)
    BY DEF Kinds
  <1>4. ASSUME NEW ks \in Seq(Kinds), Emit(s, ks), task[s] \in Running,
               NEW state \in Running, task' = [task EXCEPT ![s] = state],
               UNCHANGED <<received, consumer>>
        PROVE  Channel!Send(s)
    BY <1>2, <1>4, Sends DEF Emit
  <1>5. ASSUME Start(s) \/ StepNotice(s) \/ Chunk(s) \/ End(s)
        PROVE  Channel!Send(s)
    <2>1. CASE Start(s)
      BY <1>3, <1>4, <2>1 DEF Start, Notice, Running
    <2>2. CASE StepNotice(s)
      <3>1. PICK ks \in {<<"step">>, <<>>} : Emit(s, ks)
        BY <2>2 DEF StepNotice, Notice
      <3>2. /\ task[s] = "working" /\ task' = [task EXCEPT ![s] = "working"]
            /\ UNCHANGED <<received, consumer>>
        BY <1>1, <2>2 DEF StepNotice
      <3> QED BY <1>3, <1>4, <3>1, <3>2 DEF Running
    <2>3. CASE Chunk(s)
      <3>1. /\ task[s] = "streaming" /\ task' = [task EXCEPT ![s] = "streaming"]
            /\ UNCHANGED <<received, consumer>> /\ Emit(s, <<"chunk">>)
        BY <1>1, <2>3 DEF Chunk
      <3> QED BY <1>3, <1>4, <3>1 DEF Running
    <2>4. CASE End(s)
      <3>1. PICK ks \in {<<"surface", "end">>, <<"end">>} : Emit(s, ks)
        BY <2>4 DEF End, Notice
      <3> QED BY <1>3, <1>4, <2>4, <3>1 DEF End, Running
    <2> QED BY <1>5, <2>1, <2>2, <2>3, <2>4
  <1>6. ASSUME NEW how \in TaskOver, Over(s, how), task[s] \in Running
        PROVE  Channel!Send(s)
    <2>1. <<>> \in Seq(Events) /\ sent[s] \o <<>> = sent[s]
      BY <1>1, ConcatEmptySeq DEF StreamTyped
    <2>2. sent' = [sent EXCEPT ![s] = @ \o <<>>]
      BY <1>1, <1>6, <2>1 DEF Over, StreamTyped
    <2> QED BY <1>6, <2>1, <2>2, Sends DEF Over
  <1>7. ASSUME Done(s) \/ Fail(s) \/ Stop(s)
        PROVE  Channel!Send(s)
    BY <1>6, <1>7 DEF Done, Fail, Stop, Running, TaskOver
  <1>8. ASSUME CallHook(s) \/ StrategyReturns(s)
        PROVE  UNCHANGED Channel!vars
    <2>1. UNCHANGED <<sent, received>> /\ consumer' = consumer
      BY <1>8 DEF CallHook, StrategyReturns
    <2>2. \A t \in Streams : Ending(t)' = Ending(t)
      BY <1>1, <1>8 DEF CallHook, StrategyReturns, Ending, StreamTyped
    <2>3. \A t \in Streams : Iteration(t)' = Iteration(t)
      BY <2>1 DEF Iteration
    <2> QED BY <2>1, <2>2, <2>3, StaysStill
  <1> QED BY <1>5, <1>7, <1>8 DEF TaskStep, Channel!Next

LEMMA ConsumerStepsTake ==
    ASSUME StreamSound, NEW s \in Streams, Iterate(s) \/ Drop(s) \/ Close(s)
    PROVE  [Channel!Next]_(Channel!vars)
  <1> USE DEF ConsumerOver
  <1>1. ASSUME Open(s) PROVE UNCHANGED Channel!vars
    <2>1. task[s] = "new" /\ consumer[s] = "fresh" /\ UNCHANGED <<sent, received>>
      BY <1>1 DEF Open, StreamSound, TaskIsWatched
    <2>2. \A t \in Streams : Ending(t)' = Ending(t) /\ Iteration(t)' = Iteration(t)
      BY <1>1, <2>1 DEF Open, StreamSound, StreamTyped, Ending, Iteration
    <2> QED BY <2>1, <2>2, StaysStill
  <1>2. ASSUME Resume(s) \/ Closed(s) PROVE UNCHANGED Channel!vars
    <2>1. UNCHANGED <<sent, received>>
      BY <1>2 DEF Resume, Closed
    <2>2. \A t \in Streams : Ending(t)' = Ending(t) /\ Iteration(t)' = Iteration(t)
      BY <1>2 DEF Resume, Closed, StreamSound, StreamTyped, Ending, Iteration
    <2> QED BY <2>1, <2>2, StaysStill
  <1>3. ASSUME Get(s) PROVE Channel!Take(s)
    <2>1. /\ Len(received[s]) < Len(sent[s])
          /\ Head(queue[s]) = sent[s][Len(received[s]) + 1]
      BY <1>3, HeadOfQueue DEF Get
    <2>2. received' = [received EXCEPT ![s] = Append(@, sent[s][Len(@) + 1])]
      BY <1>3, <2>1 DEF Get
    <2>3. Iteration(s) = "no"
      BY <1>3 DEF Get, Iteration
    <2>4. \A t \in Streams : Ending(t)' = Ending(t) /\ Iteration(t)' = Iteration(t)
      BY <1>3 DEF Get, StreamSound, StreamTyped, Ending, Iteration
    <2> HIDE DEF Ending, Iteration
    <2>5. /\ [t \in Streams |-> Ending(t)'] = [t \in Streams |-> Ending(t)]
          /\ [t \in Streams |-> Iteration(t)'] = [t \in Streams |-> Iteration(t)]
      BY <2>4
    <2> QED BY <1>3, <2>1, <2>2, <2>3, <2>5 DEF Get, Channel!Take
  <1>4. ASSUME NEW how \in {"done", "failed", "left"}, UNCHANGED <<sent, received>>,
               \A t \in Streams : Ending(t)' = Ending(t),
               \A t \in Streams : Iteration(t)' = IF t = s THEN how ELSE Iteration(t),
               Iteration(s) = "no",
               how # "left" => Ending(s) = how /\ received[s] = sent[s]
        PROVE  Channel!End(s) \/ Channel!Leave(s)
    <2> HIDE DEF Ending, Iteration
    <2>1. [t \in Streams |-> Ending(t)'] = [t \in Streams |-> Ending(t)]
      BY <1>4
    <2>2. [t \in Streams |-> Iteration(t)']
             = [[t \in Streams |-> Iteration(t)] EXCEPT ![s] = how]
      BY <1>4
    <2>3. CASE how = "left"
      BY <1>4, <2>1, <2>2, <2>3 DEF Channel!Leave
    <2>4. CASE how # "left"
      BY <1>4, <2>1, <2>2, <2>4 DEF Channel!End
    <2> QED BY <2>3, <2>4
  <1>5. ASSUME Join(s) PROVE Channel!End(s) \/ Channel!Leave(s)
    <2>1. task[s] \in TaskOver /\ received[s] = sent[s]
      BY <1>5, HeadOfQueue DEF Join
    <2>2. PICK how \in {"done", "failed"} : Ending(s) = how
      BY <2>1 DEF Ending, TaskOver
    <2>3. Iteration(s) = "no" /\ Iteration(s)' = how
      BY <1>5, <2>1, <2>2 DEF Join, Iteration, Ending, TaskOver, StreamSound, StreamTyped
    <2>4. \A t \in Streams : Ending(t)' = Ending(t)
      BY <1>5 DEF Join, Ending
    <2>5. \A t \in Streams : t # s => Iteration(t)' = Iteration(t)
      BY <1>5 DEF Join, Iteration, StreamSound, StreamTyped
    <2>6. UNCHANGED <<sent, received>>
      BY <1>5 DEF Join
    <2> QED BY <1>4, <2>1, <2>2, <2>3, <2>4, <2>5, <2>6
  <1>6. ASSUME Drop(s) \/ Close(s) PROVE Channel!End(s) \/ Channel!Leave(s)
    <2>1. Iteration(s) = "no" /\ Iteration(s)' = "left"
      BY <1>6 DEF Drop, Close, Iteration, StreamSound, StreamTyped
    <2>2. \A t \in Streams : Ending(t)' = Ending(t)
      BY <1>6 DEF Drop, Close, Ending
    <2>3. \A t \in Streams : t # s => Iteration(t)' = Iteration(t)
      BY <1>6 DEF Drop, Close, Iteration, StreamSound, StreamTyped
    <2>4. UNCHANGED <<sent, received>>
      BY <1>6 DEF Drop, Close
    <2> QED BY <1>4, <2>1, <2>2, <2>3, <2>4
  <1> QED BY <1>1, <1>2, <1>3, <1>5, <1>6 DEF Iterate, Channel!Next

(***************************************************************************)
(* Each stream is a channel of its own (EventChannel): what its consumer   *)
(* gets is what its run sent, in order, each event once, the end after the *)
(* last of them, and the error of the run if it had one                    *)
(* (executor.py:703).                                                      *)
(***************************************************************************)
THEOREM StreamsImplementChannels == Spec => StreamsAreChannels
  <1>1. Init => Channel!Init
    BY DEF Init, Channel!Init, Ending, Iteration
  <1>2. ASSUME StreamSound, [Next]_vars PROVE [Channel!Next]_(Channel!vars)
    <2>1. ASSUME NEW f \in Fickle, AddHook(f) \/ RemoveHook(f)
          PROVE  UNCHANGED Channel!vars
      BY <2>1, StaysStill DEF AddHook, RemoveHook, Ending, Iteration
    <2>2. CASE UNCHANGED vars
      BY <2>2, StaysStill DEF vars, Ending, Iteration
    <2> QED BY <1>2, <2>1, <2>2, TaskStepsSend, ConsumerStepsTake DEF Next, Terminated
  <1> QED BY <1>1, <1>2, StreamsStaySound, PTL DEF Spec, StreamsAreChannels, Channel!Spec
=============================================================================
