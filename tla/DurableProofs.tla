---------------------------- MODULE DurableProofs ----------------------------
(***************************************************************************)
(* Type correctness of Durable, and the refinement of CompletionLog by the *)
(* database, for any plan and any number of executions, steps and          *)
(* interruptions.                                                          *)
(***************************************************************************)
EXTENDS Durable, FiniteSetTheorems, WellFoundedInduction, TLAPS

\* An execution that stands in a step stands at a place of the plan.
Placed ==
    \A e \in Executions : pc[e] \in {"running", "recording"} => InPlan(e)

LEMMA PlanType ==
    ASSUME NEW i \in DOMAIN Plan
    PROVE  Plan[i] \in Steps
BY DurableAssumption

LEMMA CurrentType ==
    ASSUME NEW e \in Executions, InPlan(e)
    PROVE  Current(e) \in Steps
BY PlanType DEF InPlan, Current

LEMMA PendingType ==
    ASSUME TypeOK, Placed, NEW e \in Executions, pc[e] = "recording"
    PROVE  Pending(e) \in Events /\ Pending(e).step \in Steps
<1>1. Current(e) \in Steps
    BY CurrentType DEF Placed
<1>2. results[e][Current(e)] \in Values
    BY <1>1 DEF TypeOK
<1>3. QED
    BY <1>1, <1>2 DEF Pending, Events

LEMMA WrittenType ==
    ASSUME TypeOK, NEW ev \in Events
    PROVE  Written(ev) \in Seq(Events)
BY DEF TypeOK, Written

LEMMA LoadedType ==
    ASSUME TypeOK, NEW s
    PROVE  LoadedEvent(s) \in Events \cup {NoEvent}
<1>1. CASE LastPlaces(s) = {}
    BY <1>1 DEF LoadedEvent
<1>2. CASE LastPlaces(s) # {}
    <2>1. PICK i \in LastPlaces(s) : LoadedEvent(s) = store[i]
        BY <1>2 DEF LoadedEvent
    <2>2. i \in DOMAIN store
        BY DEF LastPlaces, Places
    <2>3. QED
        BY <2>1, <2>2 DEF TypeOK
<1>3. QED
    BY <1>1, <1>2

LEMMA InitType == Init => TypeOK /\ Placed
<1> SUFFICES ASSUME Init
             PROVE  TypeOK /\ Placed
    OBVIOUS
<1>1. store \in Seq(Events)
    BY DEF Init
<1>2. "new" \in PCs /\ "new" \notin {"running", "recording"}
    BY DEF PCs
<1>3. Absent \in Values
    BY DEF Absent, Values
<1>4. interruptions \in 0 .. MaxInterruptions
    BY DurableAssumption DEF Init
<1>5. /\ pc \in [Executions -> PCs]
      /\ pos \in [Executions -> Nat \ {0}]
      /\ known \in [Executions -> [Steps -> Events \cup {NoEvent}]]
      /\ results \in [Executions -> [Steps -> Values]]
      /\ beside \in [Executions -> SUBSET Steps]
    BY <1>2, <1>3 DEF Init
<1>6. Placed
    BY <1>2 DEF Init, Placed
<1>7. QED
    BY <1>1, <1>4, <1>5, <1>6 DEF Init, TypeOK

-----------------------------------------------------------------------------
LEMMA DropType ==
    ASSUME TypeOK, NEW e \in Executions, Drop(e), Interrupted
    PROVE  /\ pc' \in [Executions -> PCs]
           /\ lost' \in [Steps -> Nat]
           /\ interruptions' \in 0 .. MaxInterruptions
           /\ \A x \in Executions : pc'[x] \in {"running", "recording"} => pc'[x] = pc[x]
<1>1. "down" \in PCs
    BY DEF PCs
<1>2. lost' \in [Steps -> Nat]
    BY DEF TypeOK, Drop
<1>3. interruptions' \in 0 .. MaxInterruptions
    BY DurableAssumption DEF TypeOK, Interrupted
<1>4. QED
    BY <1>1, <1>2, <1>3 DEF TypeOK, Drop

LEMMA StepType ==
    ASSUME TypeOK, Placed, NEW e \in Executions,
           \/ Load(e) \/ Replay(e) \/ Begin(e) \/ Run(e) \/ Skip(e)
           \/ Record(e) \/ Finish(e)
    PROVE  TypeOK' /\ Placed'
<1>pc. \A x \in {"ready", "running", "recording", "done"} : x \in PCs
    BY DEF PCs
<1>1. CASE Load(e)
    <2>1. [s \in Steps |-> LoadedEvent(s)] \in [Steps -> Events \cup {NoEvent}]
        BY LoadedType
    <2>2. known' \in [Executions -> [Steps -> Events \cup {NoEvent}]]
        BY <1>1, <2>1 DEF TypeOK, Load
    <2>3. results' \in [Executions -> [Steps -> Values]]
        BY <1>1 DEF TypeOK, Load, Values, Absent
    <2>4. QED
        BY <1>1, <1>pc, <2>2, <2>3 DEF TypeOK, Placed, InPlan, Load
<1>2. CASE Replay(e)
    <2>1. Current(e) \in Steps
        BY <1>2, CurrentType DEF Replay
    <2>2. known[e][Current(e)] \in Events
        BY <1>2, <2>1 DEF TypeOK, Replay
    <2>3. known[e][Current(e)].result \in Values
        BY <2>2 DEF Events
    <2>4. results' \in [Executions -> [Steps -> Values]]
        BY <1>2, <2>1, <2>3 DEF TypeOK, Replay
    <2>5. pos' \in [Executions -> Nat \ {0}]
        BY <1>2 DEF TypeOK, Replay
    <2>6. QED
        BY <1>2, <2>4, <2>5 DEF TypeOK, Placed, InPlan, Replay
<1>3. CASE Begin(e)
    BY <1>3, <1>pc DEF TypeOK, Placed, InPlan, Begin
<1>4. CASE Run(e)
    <2>1. Current(e) \in Steps
        BY <1>4, CurrentType DEF Placed, Run
    <2>2. ran' \in [Steps -> Nat]
        BY <1>4, <2>1 DEF TypeOK, Run
    <2>3. ran[Current(e)] + 1 \in Values
        BY <2>1 DEF TypeOK, Values
    <2>4. results' \in [Executions -> [Steps -> Values]]
        BY <1>4, <2>1, <2>3 DEF TypeOK, Run
    <2>5. beside' \in [Executions -> SUBSET Steps]
        BY <1>4, <2>1 DEF TypeOK, Run
    <2>6. QED
        BY <1>4, <1>pc, <2>2, <2>4, <2>5 DEF TypeOK, Placed, InPlan, Run
<1>5. CASE Skip(e)
    <2>1. Current(e) \in Steps
        BY <1>5, CurrentType DEF Placed, Skip
    <2>2. results' \in [Executions -> [Steps -> Values]]
        BY <1>5, <2>1 DEF TypeOK, Skip, Values
    <2>3. QED
        BY <1>5, <1>pc, <2>2 DEF TypeOK, Placed, InPlan, Skip
<1>6. CASE Record(e)
    <2>1. store' \in Seq(Events)
        BY <1>6, PendingType, WrittenType DEF Record
    <2>2. pos' \in [Executions -> Nat \ {0}]
        BY <1>6 DEF TypeOK, Record
    <2>3. QED
        BY <1>6, <1>pc, <2>1, <2>2 DEF TypeOK, Placed, InPlan, Record
<1>7. CASE Finish(e)
    BY <1>7, <1>pc DEF TypeOK, Placed, InPlan, Finish
<1>8. QED
    BY <1>1, <1>2, <1>3, <1>4, <1>5, <1>6, <1>7

LEMMA InterruptType ==
    ASSUME TypeOK, Placed, NEW e \in Executions,
           StepRaises(e) \/ RecordFails(e) \/ Cancel(e)
    PROVE  TypeOK' /\ Placed'
<1>1. CASE StepRaises(e)
    BY <1>1, DropType DEF TypeOK, Placed, InPlan, StepRaises
<1>2. CASE RecordFails(e)
    BY <1>2, DropType DEF TypeOK, Placed, InPlan, RecordFails
<1>3. CASE Cancel(e)
    <2>1. late' \in SUBSET Events
        BY <1>3, PendingType DEF TypeOK, Cancel
    <2>2. QED
        BY <1>3, <2>1, DropType DEF TypeOK, Placed, InPlan, Cancel
<1>4. QED
    BY <1>1, <1>2, <1>3

LEMMA UnrecordedRunsType ==
    ASSUME NEW s
    PROVE  UnrecordedRuns(s) \in Nat
<1>1. IsFiniteSet({e \in Executions : s \in Unrecorded(e)})
    BY DurableAssumption, FS_Subset
<1>2. QED
    BY <1>1, FS_CardinalityType DEF UnrecordedRuns

LEMMA NextType ==
    TypeOK /\ Placed /\ [Next]_vars => TypeOK' /\ Placed'
<1> SUFFICES ASSUME TypeOK, Placed, [Next]_vars
             PROVE  TypeOK' /\ Placed'
    OBVIOUS
<1>1. ASSUME NEW ev \in late, WriteLate(ev)
      PROVE  TypeOK' /\ Placed'
    <2>1. ev \in Events
        BY DEF TypeOK
    <2>2. store' \in Seq(Events)
        BY <1>1, <2>1, WrittenType DEF WriteLate
    <2>3. QED
        BY <1>1, <2>2 DEF TypeOK, Placed, InPlan, WriteLate
<1>2. CASE Crash
    <2>1. pc' \in [Executions -> PCs]
        BY <1>2 DEF TypeOK, Crash, PCs
    <2>2. lost' \in [Steps -> Nat]
        BY <1>2, UnrecordedRunsType DEF TypeOK, Crash
    <2>3. interruptions' \in 0 .. MaxInterruptions
        BY <1>2, DurableAssumption DEF TypeOK, Crash, Interrupted
    <2>4. store' \in Seq(Events) /\ late' \in SUBSET Events
        BY <1>2 DEF TypeOK, Crash
    <2>5. truncated' \in BOOLEAN
        BY <1>2 DEF TypeOK, Crash
    <2>6. Placed'
        BY <1>2 DEF TypeOK, Placed, InPlan, Crash, Active
    <2>7. QED
        BY <1>2, <2>1, <2>2, <2>3, <2>4, <2>5, <2>6 DEF TypeOK, Crash
<1>3. CASE Truncate
    <2>1. interruptions' \in 0 .. MaxInterruptions
        BY <1>3, DurableAssumption DEF TypeOK, Truncate, Interrupted
    <2>2. QED
        BY <1>3, <2>1 DEF TypeOK, Placed, InPlan, Truncate
<1>4. CASE UNCHANGED vars
    BY <1>4 DEF TypeOK, Placed, InPlan, vars
<1>5. QED
    BY <1>1, <1>2, <1>3, <1>4, StepType, InterruptType DEF Next

\* Every variable of the durable strategy and its store keeps its type.
THEOREM TypeCorrect == Spec => []TypeOK
BY InitType, NextType, PTL DEF Spec

-----------------------------------------------------------------------------
(***************************************************************************)
(* The refinement.  A database never holds two events of one step, so what *)
(* is loaded for a step is its only event.                                 *)
(***************************************************************************)

UniqueEvents ==
    \A i, j \in DOMAIN store : store[i].step = store[j].step => i = j

LEMMA OnlyEvent ==
    ASSUME TypeOK, UniqueEvents, NEW i \in DOMAIN store
    PROVE  LoadedEvent(store[i].step) = store[i]
<1>1. i \in Nat
    BY DEF TypeOK
<1>2. Places(store[i].step) = {i}
    BY DEF UniqueEvents, Places
<1>3. LastPlaces(store[i].step) = {i}
    BY <1>1, <1>2 DEF LastPlaces
<1>4. QED
    BY <1>3 DEF LoadedEvent

LEMMA NoEventYet ==
    ASSUME NEW s, Places(s) = {}
    PROVE  LoadedEvent(s) = NoEvent
BY DEF LoadedEvent, LastPlaces

\* What a write to the database does to the log.
LEMMA WriteCompletes ==
    ASSUME Persistent, TypeOK, TypeOK', UniqueEvents, NEW ev \in Events,
           store' = Written(ev)
    PROVE  /\ UniqueEvents'
           /\ \/ \A s \in Steps : LoadedEvent(s)' = LoadedEvent(s)
              \/ /\ LoadedEvent(ev.step) = NoEvent
                 /\ LoadedEvent(ev.step)' = ev
                 /\ \A s \in Steps \ {ev.step} : LoadedEvent(s)' = LoadedEvent(s)
<1>1. CASE Places(ev.step) # {}
    <2>1. store' = store
        BY <1>1 DEF Written
    <2>2. QED
        BY <2>1 DEF UniqueEvents, LoadedEvent, LastPlaces, Places
<1>2. CASE Places(ev.step) = {}
    <2> DEFINE n == Len(store) + 1
    <2>1. /\ DOMAIN store' = DOMAIN store \cup {n}
          /\ n \notin DOMAIN store
          /\ store'[n] = ev
          /\ \A i \in DOMAIN store : store'[i] = store[i]
        BY <1>2 DEF TypeOK, Written
    <2> HIDE DEF n
    <2>2. UniqueEvents'
        BY <1>2, <2>1 DEF UniqueEvents, Places
    <2>3. LoadedEvent(ev.step) = NoEvent
        BY <1>2, NoEventYet
    <2>4. Places(ev.step)' = {n}
        BY <1>2, <2>1 DEF Places
    <2>5. LoadedEvent(ev.step)' = ev
        <3>1. n \in Nat
            BY DEF TypeOK, n
        <3>2. LastPlaces(ev.step)' = {n}
            BY <2>4, <3>1 DEF LastPlaces
        <3>3. QED
            BY <2>1, <3>2 DEF LoadedEvent
    <2>6. ASSUME NEW s \in Steps \ {ev.step}
          PROVE  LoadedEvent(s)' = LoadedEvent(s)
        <3>1. Places(s)' = Places(s)
            BY <2>1 DEF Places
        <3>2. LastPlaces(s)' = LastPlaces(s)
            BY <3>1 DEF LastPlaces
        <3>3. \A i \in LastPlaces(s) : store'[i] = store[i]
            BY <2>1 DEF LastPlaces, Places
        <3>4. QED
            BY <3>2, <3>3 DEF LoadedEvent
    <2>7. QED
        BY <2>2, <2>3, <2>5, <2>6
<1>3. QED
    BY <1>1, <1>2

\* Such a write is a step of the log.
LEMMA WriteRefines ==
    ASSUME Persistent, TypeOK, TypeOK', UniqueEvents, NEW ev \in Events,
           store' = Written(ev)
    PROVE  UniqueEvents' /\ [Log!Next]_(Log!vars)
<1> DEFINE log == [s \in Steps |-> LoadedEvent(s)]
<1>1. UniqueEvents'
    BY WriteCompletes
<1>2. CASE \A s \in Steps : LoadedEvent(s)' = LoadedEvent(s)
    <2>1. log' = log
        BY <1>2
    <2>2. QED
        BY <1>1, <2>1 DEF Log!vars
<1>3. CASE /\ LoadedEvent(ev.step) = NoEvent
           /\ LoadedEvent(ev.step)' = ev
           /\ \A s \in Steps \ {ev.step} : LoadedEvent(s)' = LoadedEvent(s)
    <2>1. ev.step \in Steps
        BY DEF Events
    <2>2. log[ev.step] = NoEvent /\ log'[ev.step] = ev
        BY <1>3, <2>1
    <2>3. log' = [log EXCEPT ![ev.step] = log'[ev.step]]
        BY <1>3, <2>1, <2>2
    <2>4. Log!Complete(ev.step)
        BY <2>2, <2>3 DEF Log!Complete
    <2>5. QED
        BY <1>1, <2>1, <2>4 DEF Log!Next
<1>4. QED
    BY <1>2, <1>3, WriteCompletes

LEMMA StillRefines ==
    ASSUME UniqueEvents, UNCHANGED store
    PROVE  UniqueEvents' /\ [Log!Next]_(Log!vars)
BY DEF UniqueEvents, Log!vars, LoadedEvent, LastPlaces, Places

LEMMA TruncateRefines ==
    ASSUME store' = <<>>
    PROVE  UniqueEvents' /\ [Log!Next]_(Log!vars)
<1>1. \A s \in Steps : Places(s)' = {}
    BY DEF Places
<1>2. \A s \in Steps : LoadedEvent(s)' = NoEvent
    BY <1>1 DEF LoadedEvent, LastPlaces
<1>3. QED
    BY <1>2 DEF UniqueEvents, Log!Next, Log!Truncate

LEMMA NextRefines ==
    ASSUME Persistent, TypeOK, TypeOK', Placed, UniqueEvents, [Next]_vars
    PROVE  UniqueEvents' /\ [Log!Next]_(Log!vars)
<1>1. ASSUME NEW e \in Executions, Record(e)
      PROVE  UniqueEvents' /\ [Log!Next]_(Log!vars)
    BY <1>1, PendingType, WriteRefines DEF Record
<1>2. ASSUME NEW ev \in late, WriteLate(ev)
      PROVE  UniqueEvents' /\ [Log!Next]_(Log!vars)
    BY <1>2, WriteRefines DEF TypeOK, WriteLate
<1>3. CASE Truncate
    BY <1>3, TruncateRefines DEF Truncate
<1>4. CASE Crash
    BY <1>4, StillRefines DEF Crash
<1>5. ASSUME NEW e \in Executions,
             \/ Load(e) \/ Replay(e) \/ Begin(e) \/ Run(e) \/ Skip(e) \/ Finish(e)
             \/ StepRaises(e) \/ RecordFails(e) \/ Cancel(e)
      PROVE  UniqueEvents' /\ [Log!Next]_(Log!vars)
    BY <1>5, StillRefines
       DEF Load, Replay, Begin, Run, Skip, Finish, StepRaises, RecordFails, Cancel
<1>6. CASE UNCHANGED vars
    BY <1>6, StillRefines DEF vars
<1>7. QED
    BY <1>1, <1>2, <1>3, <1>4, <1>5, <1>6 DEF Next

LEMMA InitRefines == Init => UniqueEvents /\ Log!Init
BY DEF Init, UniqueEvents, Log!Init, LoadedEvent, LastPlaces, Places

\* The database keeps the first completion of every step, in any interleaving
\* of executions, failures, cancellations, late writes and crashes.
THEOREM KeepsFirstCompletion == Persistent => (Spec => RecordsOnce)
<1> SUFFICES ASSUME Persistent
             PROVE  Spec => RecordsOnce
    OBVIOUS
<1>1. Init => TypeOK /\ Placed /\ UniqueEvents /\ Log!Init
    BY InitType, InitRefines
<1>2. TypeOK /\ Placed /\ UniqueEvents /\ [Next]_vars =>
          TypeOK' /\ Placed' /\ UniqueEvents' /\ [Log!Next]_(Log!vars)
    BY NextType, NextRefines
<1>3. QED
    BY <1>1, <1>2, PTL DEF Spec, RecordsOnce, Log!Spec
-----------------------------------------------------------------------------
(***************************************************************************)
(* The record is a beginning of the plan. As long as nothing was lost from *)
(* the store, whatever an execution has passed, loaded or left to a late   *)
(* write stands behind places of the plan that are all recorded.           *)
(***************************************************************************)

Recorded == {s \in Steps : Places(s) # {}}

\* Every place of the plan before this one is recorded.
Reached(i) == \A j \in DOMAIN Plan : j < i => Plan[j] \in Recorded

IsBeginning(R) == \E n \in 0 .. Len(Plan) : R = {Plan[i] : i \in 1 .. n}

OnTrack ==
    /\ IsBeginning(Recorded)
    /\ \A e \in Executions : Reached(pos[e])
    /\ \A e \in Executions, s \in Steps : known[e][s] # NoEvent => s \in Recorded
    /\ \A ev \in late : \E i \in DOMAIN Plan : ev.step = Plan[i] /\ Reached(i)

\* A write adds the step of its event.
LEMMA WriteRecords ==
    ASSUME TypeOK, NEW ev \in Events, store' = Written(ev)
    PROVE  Recorded' = Recorded \cup {ev.step}
<1>0. ev.step \in Steps
    BY DEF Events
<1>1. CASE store' = store
    <2>1. Places(ev.step) # {}
        <3>1. store \in Seq(Events) /\ Append(store, ev) # store
            BY DEF TypeOK
        <3>2. QED
            BY <1>1, <3>1 DEF Written
    <2>2. QED
        BY <1>0, <1>1, <2>1 DEF Recorded, Places
<1>2. CASE store' = Append(store, ev)
    <2> DEFINE n == Len(store) + 1
    <2>1. /\ DOMAIN store' = DOMAIN store \cup {n}
          /\ n \notin DOMAIN store
          /\ store'[n] = ev
          /\ \A i \in DOMAIN store : store'[i] = store[i]
        BY <1>2 DEF TypeOK
    <2> HIDE DEF n
    <2>2. \A s : Places(s)' = IF s = ev.step THEN Places(s) \cup {n} ELSE Places(s)
        BY <2>1 DEF Places
    <2>3. QED
        BY <1>0, <2>2 DEF Recorded
<1>3. QED
    BY <1>1, <1>2 DEF Written

\* What is loaded for a step is an event of that step.
LEMMA LoadedIsRecorded ==
    ASSUME NEW s \in Steps, LoadedEvent(s) # NoEvent
    PROVE  s \in Recorded
BY DEF LoadedEvent, LastPlaces, Recorded

\* A beginning of the plan goes on with the next of its places.
LEMMA PrefixGrows ==
    ASSUME NEW R, IsBeginning(R), NEW p \in DOMAIN Plan,
           \A j \in DOMAIN Plan : j < p => Plan[j] \in R
    PROVE  IsBeginning(R \cup {Plan[p]})
<1>0. PICK n \in 0 .. Len(Plan) : R = {Plan[i] : i \in 1 .. n}
    BY DEF IsBeginning
<1>1. Plan \in Seq(Steps) /\ Len(Plan) \in Nat /\ DOMAIN Plan = 1 .. Len(Plan)
    BY DurableAssumption
<1>2. CASE p <= n
    <2>1. p \in 1 .. n
        BY <1>1, <1>2
    <2>2. R \cup {Plan[p]} = R
        BY <1>0, <2>1
    <2>3. QED
        BY <2>2
<1>3. CASE n < p
    <2>1. \A i \in 1 .. n : i \in 1 .. p
        BY <1>1, <1>3
    <2>2. \A i \in 1 .. p : i = p \/ (i \in DOMAIN Plan /\ i < p)
        BY <1>1
    <2>3. R \cup {Plan[p]} \subseteq {Plan[i] : i \in 1 .. p}
        <3>1. p \in 1 .. p
            BY <1>1
        <3>2. QED
            BY <1>0, <2>1, <3>1
    <2>4. {Plan[i] : i \in 1 .. p} \subseteq R \cup {Plan[p]}
        BY <2>2
    <2>5. p \in 0 .. Len(Plan)
        BY <1>1
    <2>6. R \cup {Plan[p]} = {Plan[i] : i \in 1 .. p}
        BY <2>3, <2>4
    <2>7. QED
        BY <2>5, <2>6 DEF IsBeginning
<1>4. QED
    BY <1>1, <1>2, <1>3

\* So does the record, when it is written at a place that was reached.
LEMMA WriteKeepsTrack ==
    ASSUME TypeOK, OnTrack, NEW ev \in Events, store' = Written(ev),
           NEW p \in DOMAIN Plan, ev.step = Plan[p], Reached(p),
           UNCHANGED known, late' \subseteq late,
           \A e \in Executions : pos'[e] # pos[e] => pos[e] = p /\ pos'[e] = p + 1
    PROVE  OnTrack'
<1>1. Recorded' = Recorded \cup {Plan[p]}
    BY WriteRecords
<1>2. IsBeginning(Recorded')
    BY <1>1, PrefixGrows DEF OnTrack, Reached
<1>3. \A i : Reached(i) => Reached(i)'
    BY <1>1 DEF Reached
<1>4. Reached(p + 1)'
    <2>1. \A j \in DOMAIN Plan : j < p + 1 => j < p \/ j = p
        BY DurableAssumption
    <2>2. QED
        BY <1>1, <2>1 DEF Reached
<1>5. \A e \in Executions : Reached(pos[e])'
    BY <1>3, <1>4 DEF OnTrack
<1>6. \A x \in late' : \E i \in DOMAIN Plan : x.step = Plan[i] /\ Reached(i)'
    BY <1>3 DEF OnTrack
<1>7. QED
    BY <1>1, <1>2, <1>5, <1>6 DEF OnTrack

\* Nothing is written.
LEMMA StillOnTrack ==
    ASSUME OnTrack, UNCHANGED store,
           \A e \in Executions : Reached(pos'[e]),
           \A e \in Executions, s \in Steps : known'[e][s] # NoEvent => s \in Recorded,
           \A ev \in late' : ev \in late \/ \E i \in DOMAIN Plan : ev.step = Plan[i] /\ Reached(i)
    PROVE  OnTrack'
<1>1. Recorded' = Recorded
    BY DEF Recorded, Places
<1>2. \A i : Reached(i)' = Reached(i')
    BY <1>1 DEF Reached
<1>3. QED
    BY <1>1, <1>2 DEF OnTrack
\* A place after a recorded one is reached when that one was.
LEMMA ReachedNext ==
    ASSUME NEW p \in DOMAIN Plan, Reached(p), Plan[p] \in Recorded
    PROVE  Reached(p + 1)
<1>1. \A j \in DOMAIN Plan : j < p + 1 => j < p \/ j = p
    BY DurableAssumption
<1>2. QED
    BY <1>1 DEF Reached

LEMMA StepOnTrack ==
    ASSUME TypeOK, Placed, OnTrack, NEW e \in Executions,
           \/ Load(e) \/ Replay(e) \/ Begin(e) \/ Run(e) \/ Skip(e)
           \/ Record(e) \/ Finish(e)
    PROVE  OnTrack'
<1>t. /\ pos \in [Executions -> Nat \ {0}]
      /\ known \in [Executions -> [Steps -> Events \cup {NoEvent}]]
    BY DEF TypeOK
<1>r. \A x \in Executions : Reached(pos[x])
    BY DEF OnTrack
<1>k. \A x \in Executions, s \in Steps : known[x][s] # NoEvent => s \in Recorded
    BY DEF OnTrack
<1>1. CASE Load(e)
    <2>1. Reached(1)
        BY DurableAssumption DEF Reached
    <2>2. \A x \in Executions : Reached(pos'[x])
        BY <1>1, <1>t, <1>r, <2>1 DEF Load
    <2>3. \A x \in Executions, s \in Steps : known'[x][s] # NoEvent => s \in Recorded
        BY <1>1, <1>t, <1>k, LoadedIsRecorded DEF Load
    <2>4. QED
        BY <1>1, <2>2, <2>3, StillOnTrack DEF Load
<1>2. CASE Replay(e)
    <2>1. pos[e] \in DOMAIN Plan /\ Current(e) = Plan[pos[e]]
        BY <1>2 DEF Replay, InPlan, Current
    <2>2. Plan[pos[e]] \in Recorded
        BY <1>2, <1>k, <2>1, PlanType DEF Replay
    <2>3. Reached(pos[e] + 1)
        BY <1>r, <2>1, <2>2, ReachedNext
    <2>4. \A x \in Executions : Reached(pos'[x])
        BY <1>2, <1>t, <1>r, <2>3 DEF Replay
    <2>5. QED
        BY <1>2, <1>k, <2>4, StillOnTrack DEF Replay
<1>3. CASE Begin(e) \/ Run(e) \/ Skip(e) \/ Finish(e)
    <2>1. UNCHANGED <<store, pos, known, late>>
        BY <1>3 DEF Begin, Run, Skip, Finish
    <2>2. QED
        BY <1>r, <1>k, <2>1, StillOnTrack
<1>4. CASE Record(e)
    <2>1. pc[e] = "recording" /\ pos[e] \in DOMAIN Plan
        BY <1>4 DEF Record, Placed, InPlan
    <2>2. Pending(e) \in Events /\ Pending(e).step = Plan[pos[e]]
        BY <2>1, PendingType DEF Pending, Current
    <2>3. \A x \in Executions : pos'[x] # pos[x] => pos[x] = pos[e] /\ pos'[x] = pos[e] + 1
        BY <1>4, <1>t DEF Record
    <2>4. store' = Written(Pending(e)) /\ UNCHANGED known /\ late' \subseteq late
        BY <1>4 DEF Record
    <2>5. QED
        BY <1>r, <2>1, <2>2, <2>3, <2>4, WriteKeepsTrack
<1>5. QED
    BY <1>1, <1>2, <1>3, <1>4

LEMMA InterruptOnTrack ==
    ASSUME TypeOK, Placed, OnTrack, NEW e \in Executions,
           StepRaises(e) \/ RecordFails(e) \/ Cancel(e)
    PROVE  OnTrack'
<1>r. \A x \in Executions : Reached(pos[x])
    BY DEF OnTrack
<1>k. \A x \in Executions, s \in Steps : known[x][s] # NoEvent => s \in Recorded
    BY DEF OnTrack
<1>1. UNCHANGED <<store, pos, known>>
    BY DEF StepRaises, RecordFails, Cancel
<1>2. \A ev \in late' : ev \in late \/ \E i \in DOMAIN Plan : ev.step = Plan[i] /\ Reached(i)
    <2>1. CASE late' = late
        BY <2>1
    <2>2. CASE pc[e] = "recording" /\ late' = late \cup {Pending(e)}
        <3>1. pos[e] \in DOMAIN Plan /\ Pending(e).step = Plan[pos[e]]
            BY <2>2 DEF Placed, InPlan, Pending, Current
        <3>2. QED
            BY <1>r, <2>2, <3>1
    <2>3. QED
        BY <2>1, <2>2 DEF StepRaises, RecordFails, Cancel
<1>3. QED
    BY <1>r, <1>k, <1>1, <1>2, StillOnTrack

LEMMA NextOnTrack ==
    ASSUME TypeOK, Placed, ~ truncated => OnTrack, [Next]_vars, ~ truncated'
    PROVE  OnTrack'
<1>1. CASE Crash
    <2>1. ~ truncated /\ UNCHANGED <<store, pos, known>> /\ late' = {}
        BY <1>1 DEF Crash, TypeOK
    <2>2. QED
        BY <2>1, StillOnTrack DEF OnTrack
<1>2. CASE Truncate
    BY <1>2 DEF Truncate
<1>3. ASSUME NEW ev \in late, WriteLate(ev)
      PROVE  OnTrack'
    <2>1. OnTrack /\ ev \in Events
        BY <1>3 DEF WriteLate, TypeOK
    <2>2. PICK p \in DOMAIN Plan : ev.step = Plan[p] /\ Reached(p)
        BY <2>1 DEF OnTrack
    <2>3. store' = Written(ev) /\ UNCHANGED <<known, pos>> /\ late' \subseteq late
        BY <1>3 DEF WriteLate
    <2>4. QED
        BY <2>1, <2>2, <2>3, WriteKeepsTrack
<1>4. ASSUME NEW e \in Executions,
             \/ Load(e) \/ Replay(e) \/ Begin(e) \/ Run(e) \/ Skip(e)
             \/ Record(e) \/ Finish(e)
      PROVE  OnTrack'
    <2>1. UNCHANGED truncated
        BY <1>4 DEF Load, Replay, Begin, Run, Skip, Record, Finish
    <2>2. QED
        BY <1>4, <2>1, StepOnTrack
<1>5. ASSUME NEW e \in Executions, StepRaises(e) \/ RecordFails(e) \/ Cancel(e)
      PROVE  OnTrack'
    <2>1. UNCHANGED truncated
        BY <1>5 DEF StepRaises, RecordFails, Cancel
    <2>2. QED
        BY <1>5, <2>1, InterruptOnTrack
<1>6. CASE UNCHANGED vars
    <2>1. ~ truncated /\ UNCHANGED <<store, pos, known, late>>
        BY <1>6 DEF vars
    <2>2. QED
        BY <2>1, StillOnTrack DEF OnTrack
<1>7. QED
    BY <1>1, <1>2, <1>3, <1>4, <1>5, <1>6 DEF Next

LEMMA InitOnTrack == Init => OnTrack
<1> SUFFICES ASSUME Init PROVE OnTrack
    OBVIOUS
<1>1. Recorded = {}
    BY DEF Init, Recorded, Places
<1>2. IsBeginning({})
    <2>1. 0 \in 0 .. Len(Plan) /\ 1 .. 0 = {}
        BY DurableAssumption
    <2>2. {Plan[i] : i \in 1 .. 0} = {}
        BY <2>1
    <2>3. QED
        BY <2>1, <2>2 DEF IsBeginning
<1>3. Reached(1)
    BY DurableAssumption DEF Reached
<1>4. QED
    BY <1>1, <1>2, <1>3 DEF Init, OnTrack

\* Completions are recorded in the order of the plan, whichever executions
\* record them and wherever they are interrupted, for any plan, in memory and
\* in the database (durable.py:101): no resumption replays a step whose
\* predecessor has yet to run.
THEOREM RecordsPrefix == Spec => []RecordedPrefix
<1> DEFINE Inv == TypeOK /\ Placed /\ (~ truncated => OnTrack)
<1>1. Init => Inv
    BY InitType, InitOnTrack
<1>2. Inv /\ [Next]_vars => Inv'
    BY NextType, NextOnTrack
<1>3. Inv => RecordedPrefix
    BY DEF OnTrack, IsBeginning, Recorded, RecordedPrefix
<1>4. QED
    BY <1>1, <1>2, <1>3, PTL DEF Spec
-----------------------------------------------------------------------------
(***************************************************************************)
(* Runs are accounted for. An execution has a claim on each visit of a     *)
(* step it has passed or is about to record, and on all visits of a step   *)
(* whose event it loaded: a run takes a claim nobody had before.           *)
(***************************************************************************)

Claimed(e, i, s) ==
    \/ known[e][s] # NoEvent
    \/ i < pos[e]
    \/ i = pos[e] /\ s \in Unrecorded(e)

Claims(s) ==
    {c \in Executions \X DOMAIN Plan : Plan[c[2]] = s /\ Claimed(c[1], c[2], s)}

Fresh ==
    \A e \in Executions :
        pc[e] \in {"running", "recording"} => known[e][Current(e)] = NoEvent

Accounted == \A s \in Steps : ran[s] <= Cardinality(Claims(s)) + lost[s]

LEMMA LeastNumber ==
    ASSUME NEW T, T \subseteq Nat, T # {}
    PROVE  \E x \in T : \A y \in T : x <= y
<1>1. PICK x \in T : \A y \in T : ~ (<<y, x>> \in OpToRel(<, Nat))
    BY NatLessThanWellFounded, WFMin
<1>2. \A y \in T : ~ (y < x)
    BY <1>1 DEF OpToRel
<1>3. QED
    BY <1>2

LEMMA LastPlaceExists ==
    ASSUME TypeOK, NEW s, Places(s) # {}
    PROVE  LastPlaces(s) # {}
<1> DEFINE T == {Len(store) - i : i \in Places(s)}
<1>1. Len(store) \in Nat /\ Places(s) \subseteq 1 .. Len(store)
    BY DEF TypeOK, Places
<1>2. T \subseteq Nat /\ T # {}
    BY <1>1
<1>3. PICK x \in T : \A y \in T : x <= y
    BY <1>2, LeastNumber
<1>4. PICK i \in Places(s) : x = Len(store) - i
    OBVIOUS
<1>5. \A j \in Places(s) : j <= i
    <2> TAKE j \in Places(s)
    <2>1. Len(store) - i <= Len(store) - j
        BY <1>3, <1>4
    <2>2. QED
        BY <1>1, <2>1
<1>6. QED
    BY <1>5 DEF LastPlaces

\* What was recorded of a step is loaded for it.
LEMMA RecordedIsLoaded ==
    ASSUME TypeOK, NEW s \in Recorded
    PROVE  LoadedEvent(s) # NoEvent
<1>1. PICK i \in LastPlaces(s) : LoadedEvent(s) = store[i]
    BY LastPlaceExists DEF Recorded, LoadedEvent
<1>2. store[i] \in Events
    BY DEF TypeOK, LastPlaces, Places
<1>3. QED
    BY <1>1, <1>2, NoEventAssumption

LEMMA ClaimsFinite ==
    /\ IsFiniteSet(Executions \X DOMAIN Plan)
    /\ \A s : IsFiniteSet(Claims(s)) /\ Cardinality(Claims(s)) \in Nat
    /\ \A s : IsFiniteSet(Claims(s)') /\ Cardinality(Claims(s)') \in Nat
<1>1. IsFiniteSet(DOMAIN Plan)
    BY DurableAssumption, FS_Interval
<1>2. IsFiniteSet(Executions \X DOMAIN Plan)
    BY <1>1, DurableAssumption, FS_Product
<1>3. \A s : IsFiniteSet(Claims(s)) /\ IsFiniteSet(Claims(s)')
    BY <1>2, FS_Subset DEF Claims
<1>4. QED
    BY <1>2, <1>3, FS_CardinalityType

\* Claims are kept, but for those of a set that is given up.
LEMMA ClaimsKept ==
    ASSUME NEW s, NEW D, IsFiniteSet(D), Claims(s) \subseteq Claims(s)' \cup D
    PROVE  Cardinality(Claims(s)) <= Cardinality(Claims(s)') + Cardinality(D)
<1> DEFINE C == Claims(s)
           N == Claims(s)'
<1>1. IsFiniteSet(C) /\ IsFiniteSet(N) /\ Cardinality(C) \in Nat /\ Cardinality(N) \in Nat
    BY ClaimsFinite
<1>2. IsFiniteSet(N \cup D) /\ IsFiniteSet(N \cap D)
      /\ Cardinality(N \cup D) = Cardinality(N) + Cardinality(D) - Cardinality(N \cap D)
    BY <1>1, FS_Union, FS_Intersection
<1>3. Cardinality(C) <= Cardinality(N \cup D)
    BY <1>2, FS_Subset
<1>4. Cardinality(D) \in Nat /\ Cardinality(N \cap D) \in Nat /\ Cardinality(N \cup D) \in Nat
    BY <1>2, FS_CardinalityType
<1> HIDE DEF C, N
<1>5. Cardinality(C) <= Cardinality(N) + Cardinality(D)
    BY <1>1, <1>2, <1>3, <1>4
<1>6. QED
    BY <1>5 DEF C, N

\* A step that gives up no claim, and runs nothing.
LEMMA StillAccounted ==
    ASSUME TypeOK, Accounted, UNCHANGED <<ran, lost>>,
           \A s \in Steps : Claims(s) \subseteq Claims(s)'
    PROVE  Accounted'
<1> SUFFICES ASSUME NEW s \in Steps
             PROVE  ran[s] <= Cardinality(Claims(s)') + lost[s]
    BY DEF Accounted
<1>1. Cardinality(Claims(s)) <= Cardinality(Claims(s)') + Cardinality({})
    BY ClaimsKept, FS_EmptySet
<1>2. ran[s] <= Cardinality(Claims(s)) + lost[s]
    BY DEF Accounted
<1>3. Cardinality(Claims(s)) \in Nat /\ Cardinality(Claims(s)') \in Nat
    BY ClaimsFinite
<1>4. ran[s] \in Nat /\ lost[s] \in Nat
    BY DEF TypeOK
<1>5. QED
    BY <1>1, <1>2, <1>3, <1>4, FS_EmptySet
\* Steps of an execution: Record, Replay and Load turn a claim into another of
\* the same visit, Run takes one for the visit it is at.
LEMMA StepKeepsClaims ==
    ASSUME TypeOK, Placed, OnTrack, NEW e \in Executions,
           \/ Load(e) \/ Replay(e) \/ Begin(e) \/ Skip(e) \/ Record(e) \/ Finish(e)
           \/ Run(e),
           NEW s \in Steps
    PROVE  Claims(s) \subseteq Claims(s)'
<1> SUFFICES ASSUME NEW x \in Executions, NEW i \in DOMAIN Plan, Plan[i] = s,
                    Claimed(x, i, s)
             PROVE  Claimed(x, i, s)'
    BY DEF Claims
<1>t. /\ pos \in [Executions -> Nat \ {0}] /\ pc \in [Executions -> PCs]
      /\ known \in [Executions -> [Steps -> Events \cup {NoEvent}]]
      /\ results \in [Executions -> [Steps -> Values]]
      /\ i \in Nat
    BY DurableAssumption DEF TypeOK
<1>1. CASE Load(e)
    <2>1. CASE x = e
        <3>1. Unrecorded(e) = {}
            BY <1>1 DEF Load, Unrecorded
        <3>2. s \in Recorded
            BY <2>1, <3>1 DEF Claimed, OnTrack, Reached
        <3>3. known'[e][s] # NoEvent
            BY <1>1, <1>t, <3>2, RecordedIsLoaded DEF Load
        <3>4. QED
            BY <2>1, <3>3 DEF Claimed
    <2>2. CASE x # e
        BY <1>1, <1>t, <2>2 DEF Load, Claimed, Unrecorded, Current
    <2>3. QED
        BY <2>1, <2>2
<1>2. CASE Replay(e) \/ Record(e)
    <2>1. CASE x = e
        <3>1. pos'[e] = pos[e] + 1 /\ known' = known
            BY <1>2, <1>t DEF Replay, Record
        <3>2. known[e][s] # NoEvent \/ i < pos[e] \/ i = pos[e]
            BY <2>1 DEF Claimed
        <3>3. QED
            BY <1>t, <2>1, <3>1, <3>2 DEF Claimed
    <2>2. CASE x # e
        BY <1>2, <1>t, <2>2 DEF Replay, Record, Claimed, Unrecorded, Current
    <2>3. QED
        BY <2>1, <2>2
<1>3. CASE Begin(e) \/ Skip(e) \/ Finish(e) \/ Run(e)
    <2>1. pos' = pos /\ known' = known
        BY <1>3 DEF Begin, Skip, Finish, Run
    <2>2. s \in Unrecorded(x) => s \in Unrecorded(x)'
        <3>1. CASE x = e
            <4>1. pc[e] # "recording"
                BY <1>3 DEF Begin, Skip, Finish, Run
            <4>2. QED
                BY <3>1, <4>1 DEF Unrecorded
        <3>2. CASE x # e
            BY <1>3, <1>t, <3>2 DEF Begin, Skip, Finish, Run, Unrecorded, Current
        <3>3. QED
            BY <3>1, <3>2
    <2>3. QED
        BY <2>1, <2>2 DEF Claimed
<1>4. QED
    BY <1>1, <1>2, <1>3

\* A run takes the claim of its visit, which was not taken.
LEMMA RunIsAccounted ==
    ASSUME TypeOK, Placed, OnTrack, Fresh, Accounted, NEW e \in Executions, Run(e)
    PROVE  Accounted'
<1> SUFFICES ASSUME NEW s \in Steps
             PROVE  ran'[s] <= Cardinality(Claims(s)') + lost[s]
    BY DEF Accounted, Run
<1>1. /\ Cardinality(Claims(s)) \in Nat /\ Cardinality(Claims(s)') \in Nat
      /\ IsFiniteSet(Claims(s)) /\ IsFiniteSet(Claims(s)')
    BY ClaimsFinite
<1>2. /\ ran[s] \in Nat /\ lost[s] \in Nat /\ ran \in [Steps -> Nat]
      /\ pos \in [Executions -> Nat \ {0}] /\ pc \in [Executions -> PCs]
      /\ results \in [Executions -> [Steps -> Values]]
    BY DEF TypeOK
<1>3. ran[s] <= Cardinality(Claims(s)) + lost[s]
    BY DEF Accounted
<1>4. Claims(s) \subseteq Claims(s)'
    BY StepKeepsClaims
<1>5. CASE s # Current(e)
    <2>1. ran'[s] = ran[s]
        BY <1>2, <1>5 DEF Run
    <2>2. Cardinality(Claims(s)) <= Cardinality(Claims(s)')
        BY <1>1, <1>4, FS_Subset
    <2>3. QED
        BY <1>1, <1>2, <1>3, <2>1, <2>2
<1>6. CASE s = Current(e)
    <2> DEFINE c == <<e, pos[e]>>
    <2>1. pc[e] = "running" /\ pos[e] \in DOMAIN Plan /\ s = Plan[pos[e]]
        BY <1>6 DEF Run, Placed, InPlan, Current
    <2>2. known[e][s] = NoEvent
        BY <1>6, <2>1 DEF Fresh
    <2>3. ~ Claimed(e, pos[e], s)
        BY <1>2, <2>1, <2>2 DEF Claimed, Unrecorded
    <2>4. c \notin Claims(s)
        BY <2>3 DEF Claims
    <2>5. s \in Unrecorded(e)'
        <3>1. pos' = pos /\ pc'[e] = "recording" /\ results'[e][s] = ran[s] + 1
            BY <1>2, <1>6 DEF Run
        <3>2. results'[e][s] # Skipped
            BY <1>2, <3>1, DurableAssumption
        <3>3. Current(e)' = s
            BY <1>6, <3>1 DEF Current
        <3>4. QED
            BY <3>1, <3>2, <3>3 DEF Unrecorded
    <2>6. c \in Claims(s)'
        BY <2>1, <2>5 DEF Claims, Claimed, Run
    <2>7. Cardinality(Claims(s) \cup {c}) = Cardinality(Claims(s)) + 1
        BY <1>1, <2>4, FS_AddElement
    <2>8. Claims(s) \cup {c} \subseteq Claims(s)'
        BY <1>4, <2>6
    <2>9. Cardinality(Claims(s)) + 1 <= Cardinality(Claims(s)')
        BY <1>1, <2>7, <2>8, FS_Subset
    <2>10. ran'[s] = ran[s] + 1
        BY <1>2, <1>6 DEF Run
    <2>11. QED
        BY <1>1, <1>2, <1>3, <2>9, <2>10
<1>7. QED
    BY <1>5, <1>6

\* An interruption gives up the claims of the runs it left without an event.
LEMMA LossIsAccounted ==
    ASSUME TypeOK, TypeOK', Accounted, UNCHANGED <<ran, pos, known, results>>,
           \A x \in Executions : pc'[x] # pc[x] => pc'[x] = "down",
           NEW U \in SUBSET Executions, NEW s \in Steps,
           \A x \in Executions : s \in Unrecorded(x) /\ pc'[x] # pc[x] => x \in U,
           lost'[s] = lost[s] + Cardinality(U)
    PROVE  ran'[s] <= Cardinality(Claims(s)') + lost'[s]
<1> DEFINE D == {<<x, pos[x]>> : x \in U}
           give == [x \in U |-> <<x, pos[x]>>]
<1>1. IsFiniteSet(U) /\ Cardinality(U) \in Nat
    BY DurableAssumption, FS_Subset, FS_CardinalityType
<1>2. give \in Surjection(U, D)
    BY DEF Surjection
<1>3. IsFiniteSet(D) /\ Cardinality(D) <= Cardinality(U) /\ Cardinality(D) \in Nat
    BY <1>1, <1>2, FS_Surjection, FS_CardinalityType
<1>4. Claims(s) \subseteq Claims(s)' \cup D
    <2> SUFFICES ASSUME NEW x \in Executions, NEW i \in DOMAIN Plan, Plan[i] = s,
                        Claimed(x, i, s), ~ (i = pos[x] /\ x \in U)
                 PROVE  Claimed(x, i, s)'
        BY DEF Claims
    <2>1. s \in Unrecorded(x) /\ i = pos[x] => s \in Unrecorded(x)'
        BY DEF Unrecorded, Current
    <2>2. QED
        BY <2>1 DEF Claimed
<1>5. Cardinality(Claims(s)) <= Cardinality(Claims(s)') + Cardinality(D)
    BY <1>3, <1>4, ClaimsKept
<1>6. ran[s] <= Cardinality(Claims(s)) + lost[s]
    BY DEF Accounted
<1>7. Cardinality(Claims(s)) \in Nat /\ Cardinality(Claims(s)') \in Nat
    BY ClaimsFinite
<1>8. ran[s] \in Nat /\ lost[s] \in Nat
    BY DEF TypeOK
<1> HIDE DEF D
<1>9. QED
    BY <1>1, <1>3, <1>5, <1>6, <1>7, <1>8
LEMMA InterruptIsAccounted ==
    ASSUME TypeOK, TypeOK', Accounted, NEW e \in Executions,
           StepRaises(e) \/ RecordFails(e) \/ Cancel(e)
    PROVE  Accounted'
<1>1. UNCHANGED <<ran, pos, known, results>> /\ Drop(e)
    BY DEF StepRaises, RecordFails, Cancel
<1>2. \A x \in Executions : pc'[x] # pc[x] => x = e /\ pc'[x] = "down"
    BY <1>1 DEF TypeOK, Drop
<1> SUFFICES ASSUME NEW s \in Steps
             PROVE  ran'[s] <= Cardinality(Claims(s)') + lost'[s]
    BY DEF Accounted
<1>3. CASE s \in Unrecorded(e)
    <2>1. lost'[s] = lost[s] + Cardinality({e})
        BY <1>1, <1>3, FS_Singleton DEF Drop
    <2>2. QED
        BY <1>1, <1>2, <2>1, LossIsAccounted
<1>4. CASE s \notin Unrecorded(e)
    <2>1. lost'[s] = lost[s] /\ lost[s] \in Nat
        BY <1>1, <1>4 DEF Drop, TypeOK
    <2>2. lost'[s] = lost[s] + Cardinality({})
        BY <2>1, FS_EmptySet
    <2>3. \A x \in Executions : s \in Unrecorded(x) /\ pc'[x] # pc[x] => x \in {}
        BY <1>2, <1>4
    <2>4. QED
        BY <1>1, <1>2, <2>2, <2>3, LossIsAccounted
<1>5. QED
    BY <1>3, <1>4

LEMMA CrashIsAccounted ==
    ASSUME TypeOK, TypeOK', Accounted, Crash
    PROVE  Accounted'
<1>1. UNCHANGED <<ran, pos, known, results>>
    BY DEF Crash
<1>2. \A x \in Executions : pc'[x] # pc[x] => pc'[x] = "down"
    BY DEF Crash
<1> SUFFICES ASSUME NEW s \in Steps
             PROVE  ran'[s] <= Cardinality(Claims(s)') + lost'[s]
    BY DEF Accounted
<1> DEFINE U == {x \in Executions : s \in Unrecorded(x)}
<1>3. lost'[s] = lost[s] + Cardinality(U)
    BY DEF Crash, UnrecordedRuns
<1>4. QED
    BY <1>1, <1>2, <1>3, LossIsAccounted

\* A step whose primitive runs, or has run, had no event when it was loaded.
LEMMA NextFresh ==
    ASSUME TypeOK, Placed, Fresh, [Next]_vars
    PROVE  Fresh'
<1>t. pc \in [Executions -> PCs] /\ pos \in [Executions -> Nat \ {0}]
    BY DEF TypeOK
<1>1. ASSUME NEW e \in Executions, Load(e) \/ Replay(e) \/ Record(e) \/ Finish(e)
      PROVE  Fresh'
    <2>1. \A x \in Executions \ {e} :
             pc'[x] = pc[x] /\ pos'[x] = pos[x] /\ known'[x] = known[x]
        BY <1>1, <1>t DEF Load, Replay, Record, Finish, TypeOK
    <2>2. pc'[e] \notin {"running", "recording"}
        BY <1>1, <1>t DEF Load, Replay, Record, Finish
    <2>3. QED
        BY <2>1, <2>2 DEF Fresh, Current
<1>2. ASSUME NEW e \in Executions, Begin(e) \/ Run(e) \/ Skip(e)
      PROVE  Fresh'
    <2>1. UNCHANGED <<pos, known>> /\ \A x \in Executions \ {e} : pc'[x] = pc[x]
        BY <1>2, <1>t DEF Begin, Run, Skip
    <2>2. known[e][Current(e)] = NoEvent
        BY <1>2 DEF Begin, Run, Skip, Fresh
    <2>3. QED
        BY <2>1, <2>2 DEF Fresh, Current
<1>3. ASSUME UNCHANGED <<pos, known>>, \A x \in Executions : pc'[x] # pc[x] => pc'[x] = "down"
      PROVE  Fresh'
    BY <1>3 DEF Fresh, Current
<1>4. ASSUME NEW e \in Executions, StepRaises(e) \/ RecordFails(e) \/ Cancel(e)
      PROVE  Fresh'
    BY <1>3, <1>4, <1>t DEF StepRaises, RecordFails, Cancel, Drop
<1>5. CASE Crash
    BY <1>3, <1>5 DEF Crash
<1>6. CASE Truncate \/ UNCHANGED vars \/ \E ev \in late : WriteLate(ev)
    BY <1>3, <1>6 DEF Truncate, WriteLate, vars
<1>7. QED
    BY <1>1, <1>2, <1>4, <1>5, <1>6 DEF Next

LEMMA NextAccounted ==
    ASSUME TypeOK, TypeOK', Placed, Fresh, ~ truncated => OnTrack /\ Accounted,
           [Next]_vars, ~ truncated'
    PROVE  Accounted'
<1>1. CASE Truncate
    BY <1>1 DEF Truncate
<1>2. CASE ~ Truncate
    <2>1. ~ truncated
        BY DEF TypeOK, Next, Load, Replay, Begin, Run, Skip, Record, Finish, StepRaises,
               RecordFails, Cancel, WriteLate, Crash, Truncate, vars
    <2>2. OnTrack /\ Accounted
        BY <2>1
    <2>3. ASSUME NEW e \in Executions, Run(e)
          PROVE  Accounted'
        BY <2>2, <2>3, RunIsAccounted
    <2>4. ASSUME NEW e \in Executions,
                 \/ Load(e) \/ Replay(e) \/ Begin(e) \/ Skip(e) \/ Record(e) \/ Finish(e)
          PROVE  Accounted'
        <3>1. UNCHANGED <<ran, lost>>
            BY <2>4 DEF Load, Replay, Begin, Skip, Record, Finish
        <3>2. QED
            BY <2>2, <2>4, <3>1, StepKeepsClaims, StillAccounted
    <2>5. ASSUME NEW e \in Executions, StepRaises(e) \/ RecordFails(e) \/ Cancel(e)
          PROVE  Accounted'
        BY <2>2, <2>5, InterruptIsAccounted
    <2>6. CASE Crash
        BY <2>2, <2>6, CrashIsAccounted
    <2>7. CASE UNCHANGED vars \/ \E ev \in late : WriteLate(ev)
        <3>1. UNCHANGED <<ran, lost, pc, pos, known, results>>
            BY <2>7 DEF vars, WriteLate
        <3>2. \A s \in Steps : Claims(s)' = Claims(s)
            BY <3>1 DEF Claims, Claimed, Unrecorded, Current
        <3>3. QED
            BY <2>2, <3>1, <3>2, StillAccounted
    <2>8. QED
        BY <1>2, <2>3, <2>4, <2>5, <2>6, <2>7 DEF Next
<1>3. QED
    BY <1>1, <1>2

\* There are no more claims than visits, for each execution.
LEMMA ClaimsBounded ==
    ASSUME NEW s \in Steps
    PROVE  Cardinality(Claims(s)) <= Visits(s) * Cardinality(Executions)
<1> DEFINE V == {i \in DOMAIN Plan : Plan[i] = s}
<1>1. IsFiniteSet(DOMAIN Plan)
    BY DurableAssumption, FS_Interval
<1>2. IsFiniteSet(V) /\ IsFiniteSet(Executions)
    BY <1>1, DurableAssumption, FS_Subset
<1>3. /\ IsFiniteSet(Executions \X V)
      /\ Cardinality(Executions \X V) = Cardinality(Executions) * Cardinality(V)
    BY <1>2, FS_Product
<1>4. Claims(s) \subseteq Executions \X V
    BY DEF Claims
<1>5. Cardinality(Claims(s)) <= Cardinality(Executions \X V)
    BY <1>3, <1>4, FS_Subset
<1>6. Cardinality(V) \in Nat /\ Cardinality(Executions) \in Nat
    BY <1>2, FS_CardinalityType
<1>7. Cardinality(V) = Visits(s)
    BY DEF Visits
<1> HIDE DEF V
<1>8. Cardinality(Executions) * Cardinality(V) = Cardinality(V) * Cardinality(Executions)
    BY <1>6
<1>9. QED
    BY <1>3, <1>5, <1>7, <1>8

LEMMA InitAccounted == Init => Fresh /\ Accounted
<1> SUFFICES ASSUME Init PROVE Fresh /\ Accounted
    OBVIOUS
<1>1. Fresh
    BY DEF Init, Fresh
<1>2. ASSUME NEW s \in Steps
      PROVE  ran[s] <= Cardinality(Claims(s)) + lost[s]
    <2>1. ran[s] = 0 /\ lost[s] = 0
        BY DEF Init
    <2>2. Cardinality(Claims(s)) \in Nat
        BY ClaimsFinite
    <2>3. QED
        BY <2>1, <2>2
<1>3. QED
    BY <1>1, <1>2 DEF Accounted

\* Replay spares work, for any plan, any number of executions of the workflow
\* and any interruptions: beyond the visits of its plan each execution runs a
\* step again only for a run an interruption kept out of the store
\* (durable.py:72), as long as nothing was truncated.
THEOREM RunsAreAccountedFor == Spec => []RunsAccountedFor
<1> DEFINE Inv == TypeOK /\ Placed /\ Fresh /\ (~ truncated => OnTrack /\ Accounted)
<1>1. Init => Inv
    BY InitType, InitOnTrack, InitAccounted
<1>2. Inv /\ [Next]_vars => Inv'
    <2> SUFFICES ASSUME Inv, [Next]_vars PROVE Inv'
        OBVIOUS
    <2>1. TypeOK' /\ Placed'
        BY NextType
    <2>2. Fresh'
        BY NextFresh
    <2>3. ~ truncated' => OnTrack'
        BY NextOnTrack
    <2>4. ~ truncated' => Accounted'
        BY <2>1, NextAccounted
    <2>5. QED
        BY <2>1, <2>2, <2>3, <2>4
<1>3. Inv => RunsAccountedFor
    <2> SUFFICES ASSUME Inv, ~ truncated, NEW s \in Steps
                 PROVE  ran[s] <= Visits(s) * Cardinality(Executions) + lost[s]
        BY DEF RunsAccountedFor
    <2>1. ran[s] <= Cardinality(Claims(s)) + lost[s]
        BY DEF Accounted
    <2>2. ran[s] \in Nat /\ lost[s] \in Nat
        BY DEF TypeOK
    <2>3. Cardinality(Claims(s)) \in Nat
        BY ClaimsFinite
    <2>4. Cardinality(Claims(s)) <= Visits(s) * Cardinality(Executions)
        BY ClaimsBounded
    <2> DEFINE bound == Visits(s) * Cardinality(Executions)
    <2>5. bound \in Int
        <3>1. IsFiniteSet(DOMAIN Plan)
            BY DurableAssumption, FS_Interval
        <3>2. Visits(s) \in Nat /\ Cardinality(Executions) \in Nat
            BY <3>1, DurableAssumption, FS_Subset, FS_CardinalityType DEF Visits
        <3>3. QED
            BY <3>2
    <2> HIDE DEF bound
    <2>6. ran[s] <= bound + lost[s]
        BY <2>1, <2>2, <2>3, <2>4, <2>5 DEF bound
    <2>7. QED
        BY <2>6 DEF bound
<1>4. QED
    BY <1>1, <1>2, <1>3, PTL DEF Spec
=============================================================================
