------------------------- MODULE ParallelGroupsProofs -------------------------
(***************************************************************************)
(* What holds of parallel execution for any workflow, marking, limit and   *)
(* error semantics: the limit, the tasks a group leaves behind, and the    *)
(* errors it collects.                                                     *)
(***************************************************************************)
EXTENDS ParallelGroups, FiniteSetTheorems, WellFoundedInduction, TLAPS

States == {"idle", "waiting", "running", "wrote", "done", "failed", "cancelled"}

TypeOK ==
    /\ parallel \subseteq Steps
    /\ config \in Configs
    /\ group \in Nat \ {0}
    /\ phase \in {"between", "running"}
    /\ outcome \in {"none", "completed", "failed", "cancelled"}
    /\ branch \in [Steps -> States]

\* Only the tasks of the running group are alive.
AliveInGroup ==
    \A s \in Steps : branch[s] \in Alive => phase = "running" /\ s \in Group

\* The groups before the current one ended well, those after it have not
\* begun, and the steps of the current one all have.
GroupByGroup ==
    /\ phase = "running" => outcome = "none"
    /\ outcome = "none" =>
           \A s \in Steps : phase = "between" \/ s \notin Group =>
               branch[s] \in {"idle", "done"}
    /\ phase = "running" => \A s \in Group : branch[s] # "idle"

\* While the group runs, only a failed sibling cancels.
CancelledByFailure ==
    phase = "running" =>
        \A s \in Steps : branch[s] = "cancelled" =>
            config.failFast /\ \E t \in Steps : branch[t] = "failed"

IInv ==
    /\ TypeOK
    /\ AliveInGroup
    /\ GroupByGroup
    /\ CancelledByFailure
    /\ LimitRespected
    /\ ErrorsCollected

-----------------------------------------------------------------------------
LEMMA StepsFinite == IsFiniteSet(Steps)
  <1>1. Workflow \in [1 .. Len(Workflow) -> Steps] /\ Len(Workflow) \in Nat
    BY ParallelAssumption
  <1>2. \A s \in Steps : \E i \in 1 .. Len(Workflow) : Workflow[i] = s
    BY <1>1, ParallelAssumption
  <1>3. Workflow \in Surjection(1 .. Len(Workflow), Steps)
    BY <1>1, <1>2 DEF Surjection
  <1> QED BY <1>1, <1>3, FS_NatSurjection DEF ExistsSurjection

\* A group is of steps of the workflow.
LEMMA GroupType ==
    ASSUME TypeOK
    PROVE  /\ Group \subseteq Steps
           /\ Cardinality(GroupFrom(group)) \in Nat
  <1>1. Workflow \in [1 .. Len(Workflow) -> Steps] /\ Len(Workflow) \in Nat
    BY ParallelAssumption
  <1>2. group \in Nat \ {0}
    BY DEF TypeOK
  <1>3. GroupFrom(group) \subseteq 1 .. Len(Workflow)
    BY <1>1, <1>2 DEF GroupFrom
  <1>4. IsFiniteSet(1 .. Len(Workflow))
    BY <1>1, FS_Interval
  <1>5. Cardinality(GroupFrom(group)) \in Nat
    BY <1>3, <1>4, FS_Subset, FS_CardinalityType
  <1> QED BY <1>1, <1>3, <1>5 DEF Group

\* A group is of parallel steps, or of a step that is not parallel.
LEMMA GroupIsPure ==
    ASSUME TypeOK, ~ IsParallel
    PROVE  Group \cap parallel = {}
  <1> SUFFICES ASSUME NEW j \in GroupFrom(group), Workflow[j] \in parallel
               PROVE  FALSE
    BY DEF Group
  <1>1. group \in Nat /\ Len(Workflow) \in Nat
    BY ParallelAssumption DEF TypeOK
  <1>2. Workflow[group] \in parallel
    BY <1>1 DEF GroupFrom
  <1>3. \A i \in GroupFrom(group) : Workflow[i] \in parallel
    BY <1>1, <1>2 DEF GroupFrom
  <1> QED BY <1>3 DEF IsParallel, Group

\* Fewer steps of a finite set are no more.
LEMMA NoMore ==
    ASSUME NEW S, NEW T \in SUBSET Steps, S \subseteq T
    PROVE  Cardinality(S) \in Nat /\ Cardinality(T) \in Nat /\ Cardinality(S) <= Cardinality(T)
  <1>1. IsFiniteSet(T)
    BY StepsFinite, FS_Subset
  <1>2. IsFiniteSet(S) /\ Cardinality(S) <= Cardinality(T)
    BY <1>1, FS_Subset
  <1> QED BY <1>1, <1>2, FS_CardinalityType

-----------------------------------------------------------------------------
\* The steps the limit counts.
AtWork == {s \in parallel : branch[s] \in Working}

LEMMA NoneAtWork ==
    ASSUME TypeOK, AtWork = {}
    PROVE  LimitRespected
  <1>1. config.limit \in Nat
    BY ParallelAssumption DEF TypeOK, Configs
  <1>2. Cardinality(AtWork) = 0
    BY FS_EmptySet
  <1>3. config.limit > 0 => Cardinality(AtWork) <= config.limit
    BY <1>1, <1>2
  <1> QED BY <1>3 DEF LimitRespected, AtWork

LEMMA InitIInv == Init => IInv
  <1> SUFFICES ASSUME Init PROVE IInv
    OBVIOUS
  <1>1. TypeOK
    BY DEF Init, TypeOK, States
  <1>2. \A s \in Steps : branch[s] = "idle"
    BY DEF Init
  <1>3. AliveInGroup /\ GroupByGroup /\ CancelledByFailure /\ ErrorsCollected
    BY <1>2 DEF Init, AliveInGroup, GroupByGroup, CancelledByFailure, ErrorsCollected,
                Alive, Working
  <1>4. LimitRespected
    <2>1. AtWork = {}
      BY <1>1, <1>2 DEF AtWork, TypeOK, Working
    <2> QED BY <1>1, <2>1, NoneAtWork
  <1> QED BY <1>1, <1>3, <1>4 DEF IInv

\* The group is the same as long as its first step is.
LEMMA SameGroup ==
    ASSUME UNCHANGED <<group, setup>>
    PROVE  UNCHANGED <<Group, GroupFrom(group), IsParallel, config, parallel>>
  BY DEF Group, GroupFrom, IsParallel, setup

\* A task of the group takes a step: if it enters the semaphore, there is room.
TaskMoves(s, to) ==
    /\ s \in Group
    /\ branch[s] \in Alive
    /\ branch[s] = "waiting" /\ config.limit > 0 =>
           Cardinality({t \in Group : branch[t] \in Working}) < config.limit
    /\ branch' = [branch EXCEPT ![s] = to]
    /\ UNCHANGED <<setup, group, phase, outcome>>

LEMMA TaskStep ==
    ASSUME IInv, NEW s, NEW to \in {"running", "wrote", "done", "failed"}, TaskMoves(s, to)
    PROVE  IInv'
  <1>1. s \in Steps /\ Group \subseteq Steps
    BY GroupType DEF IInv, TaskMoves
  <1>2. phase = "running" /\ outcome = "none"
    BY <1>1 DEF IInv, TaskMoves, AliveInGroup, GroupByGroup
  <1>3. phase' = "running" /\ outcome' = "none" /\ Group' = Group /\ config' = config /\ parallel' = parallel
    BY <1>2, SameGroup DEF TaskMoves
  <1>4. \A t \in Steps : branch'[t] = IF t = s THEN to ELSE branch[t]
    BY DEF TaskMoves, IInv, TypeOK
  <1>5. TypeOK'
    BY <1>2 DEF TaskMoves, IInv, TypeOK, States, setup
  <1>6. AliveInGroup'
    BY <1>3, <1>4 DEF TaskMoves, IInv, AliveInGroup, Alive, Working
  <1>7. GroupByGroup'
    BY <1>1, <1>2, <1>3, <1>4 DEF TaskMoves, IInv, GroupByGroup
  <1>8. CancelledByFailure'
    <2> SUFFICES ASSUME NEW t \in Steps, branch'[t] = "cancelled"
                 PROVE  config'.failFast /\ \E u \in Steps : branch'[u] = "failed"
      BY DEF CancelledByFailure
    <2>1. branch[t] = "cancelled"
      BY <1>4
    <2>2. config.failFast /\ \E u \in Steps : branch[u] = "failed"
      BY <1>2, <2>1 DEF IInv, CancelledByFailure
    <2>3. PICK u \in Steps : branch[u] = "failed"
      BY <2>2
    <2>4. branch'[u] = "failed"
      BY <1>4, <2>3 DEF TaskMoves, Alive, Working
    <2> QED BY <1>3, <2>2, <2>4
  <1>9. LimitRespected'
    <2> SUFFICES ASSUME config.limit > 0 PROVE Cardinality(AtWork') <= config.limit
      BY <1>3 DEF LimitRespected, AtWork
    <2>1. config.limit \in Nat /\ parallel \subseteq Steps
      BY ParallelAssumption DEF IInv, TypeOK, Configs
    <2>2. AtWork \in SUBSET Steps /\ Cardinality(AtWork) <= config.limit
      BY <2>1 DEF IInv, LimitRespected, AtWork
    <2>3. CASE branch[s] # "waiting"
      <3>1. AtWork' \subseteq AtWork
        BY <1>3, <1>4, <2>1, <2>3 DEF AtWork, TaskMoves, Alive
      <3> QED BY <2>1, <2>2, <3>1, NoMore
    <2>4. CASE branch[s] = "waiting"
      <3> DEFINE Busy == {t \in Group : branch[t] \in Working}
      <3>1. AtWork' \subseteq Busy \cup {s}
        BY <1>1, <1>3, <1>4, <2>1 DEF AtWork, IInv, AliveInGroup, Alive
      <3>2. Busy \in SUBSET Steps /\ Busy \cup {s} \in SUBSET Steps
        BY <1>1
      <3>3. Cardinality(Busy) \in Nat /\ IsFiniteSet(Busy)
        BY <3>2, NoMore, StepsFinite, FS_Subset
      <3>4. Cardinality(Busy) < config.limit
        BY <2>4 DEF TaskMoves
      <3>5. Cardinality(Busy \cup {s}) <= Cardinality(Busy) + 1
        <4>1. Cardinality(Busy \cup {s}) = IF s \in Busy THEN Cardinality(Busy) ELSE Cardinality(Busy) + 1
          BY <3>3, FS_AddElement
        <4> HIDE DEF Busy
        <4> QED BY <3>3, <4>1
      <3>6. Cardinality(AtWork') \in Nat /\ Cardinality(Busy \cup {s}) \in Nat
            /\ Cardinality(AtWork') <= Cardinality(Busy \cup {s})
        BY <3>1, <3>2, NoMore
      <3> HIDE DEF Busy
      <3> QED BY <2>1, <3>3, <3>4, <3>5, <3>6
    <2> QED BY <2>3, <2>4
  <1>10. ErrorsCollected'
    BY <1>3 DEF ErrorsCollected
  <1> QED BY <1>5, <1>6, <1>7, <1>8, <1>9, <1>10 DEF IInv

LEMMA FewerAtWork ==
    ASSUME IInv, AtWork' \subseteq AtWork, UNCHANGED config
    PROVE  LimitRespected'
  <1>1. config.limit \in Nat /\ AtWork \in SUBSET Steps
    BY ParallelAssumption DEF IInv, TypeOK, Configs, AtWork
  <1>2. Cardinality(AtWork) \in Nat /\ Cardinality(AtWork') \in Nat
        /\ Cardinality(AtWork') <= Cardinality(AtWork)
    BY <1>1, NoMore
  <1>3. config.limit > 0 => Cardinality(AtWork) <= config.limit
    BY DEF IInv, LimitRespected, AtWork
  <1>4. config.limit > 0 => Cardinality(AtWork') <= config.limit
    BY <1>1, <1>2, <1>3
  <1> QED BY <1>4 DEF LimitRespected, AtWork

LEMMA StartGroupStep ==
    ASSUME IInv, StartGroup PROVE IInv'
  <1>1. Group \subseteq Steps /\ Group' = Group /\ IsParallel' = IsParallel /\ config' = config
        /\ parallel' = parallel
    BY GroupType, SameGroup DEF IInv, StartGroup
  <1>2. phase = "between" /\ phase' = "running" /\ outcome = "none" /\ outcome' = "none"
    BY DEF StartGroup
  <1>3. \A s \in Steps : branch'[s] = IF s \notin Group THEN branch[s]
                                      ELSE IF IsParallel THEN "waiting" ELSE "running"
    BY DEF StartGroup
  <1>4. \A s \in Steps : branch[s] \in {"idle", "done"}
    BY <1>2 DEF IInv, GroupByGroup
  <1>5. TypeOK'
    <2>1. branch' \in [Steps -> States]
      BY DEF IInv, TypeOK, StartGroup, States
    <2> QED BY <1>2, <2>1 DEF IInv, TypeOK, StartGroup, setup
  <1>6. AliveInGroup'
    BY <1>1, <1>2, <1>3, <1>4 DEF AliveInGroup, Alive, Working
  <1>7. GroupByGroup'
    BY <1>1, <1>2, <1>3, <1>4 DEF GroupByGroup
  <1>8. CancelledByFailure'
    BY <1>2, <1>3, <1>4 DEF CancelledByFailure
  <1>9. LimitRespected'
    <2>1. ~ IsParallel => Group \cap parallel = {}
      BY GroupIsPure DEF IInv
    <2>2. parallel \subseteq Steps
      BY DEF IInv, TypeOK
    <2>3. AtWork' = {}
      BY <1>1, <1>3, <1>4, <2>1, <2>2 DEF AtWork, Working
    <2> QED BY <1>1, <2>3, FewerAtWork
  <1>10. ErrorsCollected'
    BY <1>2 DEF ErrorsCollected
  <1> QED BY <1>5, <1>6, <1>7, <1>8, <1>9, <1>10 DEF IInv

LEMMA CancelSiblingsStep ==
    ASSUME IInv, CancelSiblings PROVE IInv'
  <1>1. Group \subseteq Steps /\ Group' = Group /\ config' = config /\ parallel' = parallel
    BY GroupType, SameGroup DEF IInv, CancelSiblings
  <1>2. phase = "running" /\ phase' = "running" /\ outcome = "none" /\ outcome' = "none"
        /\ config.failFast
    BY DEF IInv, GroupByGroup, CancelSiblings
  <1>3. \A s \in Steps : branch'[s] = IF s \in InFlight THEN "cancelled" ELSE branch[s]
    BY DEF CancelSiblings
  <1>4. \A s \in Steps : branch[s] \in Alive => s \in InFlight
    BY DEF IInv, AliveInGroup, InFlight
  <1>5. TypeOK'
    <2>1. branch' \in [Steps -> States]
      BY DEF IInv, TypeOK, CancelSiblings, States
    <2> QED BY <1>2, <2>1 DEF IInv, TypeOK, CancelSiblings, setup
  <1>6. AliveInGroup'
    BY <1>3, <1>4 DEF AliveInGroup, Alive, Working
  <1>7. GroupByGroup'
    BY <1>1, <1>2, <1>3 DEF IInv, GroupByGroup, InFlight
  <1>8. CancelledByFailure'
    <2>1. PICK t \in Group : branch[t] = "failed"
      BY DEF CancelSiblings, Failed
    <2>2. t \in Steps /\ branch'[t] = "failed"
      BY <1>1, <1>3, <2>1 DEF InFlight, Alive, Working
    <2> QED BY <1>1, <1>2, <2>2 DEF CancelledByFailure
  <1>9. LimitRespected'
    <2>1. AtWork' \subseteq AtWork
      BY <1>1, <1>3 DEF AtWork, IInv, TypeOK, Working
    <2> QED BY <1>1, <2>1, FewerAtWork
  <1>10. ErrorsCollected'
    BY <1>2 DEF ErrorsCollected
  <1> QED BY <1>5, <1>6, <1>7, <1>8, <1>9, <1>10 DEF IInv

LEMMA EndGroupStep ==
    ASSUME IInv, EndGroup PROVE IInv'
  <1>1. Group \subseteq Steps /\ config' = config /\ parallel' = parallel /\ branch' = branch
    BY GroupType DEF IInv, EndGroup, setup
  <1>2. phase = "running" /\ phase' = "between" /\ outcome = "none"
    BY DEF IInv, GroupByGroup, EndGroup
  <1>3. \A s \in Steps : branch[s] \notin Alive
    BY DEF IInv, AliveInGroup, EndGroup, InFlight
  <1>4. \A s \in Group : branch[s] \in {"done", "failed", "cancelled"}
    BY <1>1, <1>2, <1>3 DEF IInv, TypeOK, States, GroupByGroup, Alive, Working
  <1>5. \A s \in Steps \ Group : branch[s] \in {"idle", "done"}
    BY <1>2 DEF IInv, GroupByGroup
  <1>6. LimitRespected'
    BY <1>1, FewerAtWork DEF AtWork
  <1>7. AliveInGroup' /\ CancelledByFailure'
    BY <1>1, <1>2, <1>3 DEF AliveInGroup, CancelledByFailure
  <1>8. CASE Failed = {}
    <2>1. group' = group + Cardinality(GroupFrom(group)) /\ outcome' = "none"
      BY <1>2, <1>8 DEF EndGroup
    <2>2. group' \in Nat \ {0}
      BY <2>1, GroupType DEF IInv, TypeOK
    <2>3. TypeOK'
      BY <1>1, <1>2, <2>1, <2>2 DEF IInv, TypeOK
    <2>4. \A s \in Steps : branch[s] \notin {"failed", "cancelled"}
      BY <1>2, <1>5, <1>8 DEF IInv, CancelledByFailure, Failed
    <2>5. \A s \in Steps : branch'[s] \in {"idle", "done"}
      BY <1>1, <1>4, <1>5, <2>4
    <2>6. GroupByGroup' /\ ErrorsCollected'
      BY <1>2, <2>1, <2>5 DEF GroupByGroup, ErrorsCollected
    <2> QED BY <1>6, <1>7, <2>3, <2>6 DEF IInv
  <1>9. CASE Failed # {}
    <2>1. group' = group /\ outcome' = "failed"
      BY <1>9 DEF EndGroup
    <2>2. Group' = Group
      BY <2>1, SameGroup DEF EndGroup
    <2>3. TypeOK'
      BY <1>1, <1>2, <2>1 DEF IInv, TypeOK
    <2>4. PICK s \in Group : branch[s] = "failed"
      BY <1>9 DEF Failed
    <2>5. ~ config.failFast => \A t \in Group : branch[t] \in {"done", "failed"}
      BY <1>1, <1>2, <1>4 DEF IInv, CancelledByFailure
    <2>6. GroupByGroup' /\ ErrorsCollected'
      BY <1>1, <1>2, <2>1, <2>2, <2>4, <2>5 DEF GroupByGroup, ErrorsCollected
    <2> QED BY <1>6, <1>7, <2>3, <2>6 DEF IInv
  <1> QED BY <1>8, <1>9

LEMMA CompleteStep ==
    ASSUME IInv, Complete PROVE IInv'
  <1>1. UNCHANGED <<Group, config, parallel, phase, branch>>
    BY SameGroup DEF Complete
  <1>2. phase = "between" /\ outcome = "none" /\ outcome' = "completed"
    BY DEF Complete
  <1>3. \A s \in Steps : branch[s] \in {"idle", "done"}
    BY <1>2 DEF IInv, GroupByGroup
  <1>4. TypeOK'
    BY <1>1, <1>2 DEF IInv, TypeOK, Complete
  <1>5. LimitRespected'
    BY <1>1, FewerAtWork DEF AtWork
  <1> QED BY <1>1, <1>2, <1>3, <1>4, <1>5 DEF IInv, AliveInGroup, GroupByGroup,
             CancelledByFailure, ErrorsCollected

LEMMA CancelStep ==
    ASSUME IInv, Cancel PROVE IInv'
  <1>1. UNCHANGED <<Group, config, parallel>> /\ phase' = "between" /\ outcome' = "cancelled"
    BY SameGroup DEF Cancel
  <1>2. \A s \in Steps : branch'[s] = IF branch[s] \in Alive THEN "cancelled" ELSE branch[s]
    BY DEF Cancel
  <1>3. TypeOK'
    <2>1. branch' \in [Steps -> States]
      BY DEF IInv, TypeOK, Cancel, States
    <2> QED BY <1>1, <2>1 DEF IInv, TypeOK, Cancel
  <1>4. LimitRespected'
    <2>1. AtWork' \subseteq AtWork
      BY <1>1, <1>2 DEF AtWork, IInv, TypeOK, Working
    <2> QED BY <1>1, <2>1, FewerAtWork
  <1>5. AliveInGroup' /\ GroupByGroup' /\ CancelledByFailure' /\ ErrorsCollected'
    BY <1>1, <1>2 DEF AliveInGroup, GroupByGroup, CancelledByFailure, ErrorsCollected,
                      Alive, Working
  <1> QED BY <1>3, <1>4, <1>5 DEF IInv

LEMMA TasksMove ==
    ASSUME NEW s \in Group, Enter(s) \/ Write(s) \/ Return(s) \/ Raise(s)
    PROVE  \E to \in {"running", "wrote", "done", "failed"} : TaskMoves(s, to)
  <1> USE DEF TaskMoves, Alive, Working
  <1>1. CASE Enter(s)
    BY <1>1 DEF Enter
  <1>2. CASE Write(s)
    BY <1>2 DEF Write
  <1>3. CASE Return(s)
    BY <1>3 DEF Return
  <1>4. CASE Raise(s)
    BY <1>4 DEF Raise
  <1> QED BY <1>1, <1>2, <1>3, <1>4

LEMMA StutterStep ==
    ASSUME IInv, UNCHANGED vars PROVE IInv'
  <1>1. UNCHANGED <<Group, config, parallel, group, phase, outcome, branch>>
    BY SameGroup DEF vars, setup
  <1>2. LimitRespected'
    BY <1>1, FewerAtWork DEF AtWork
  <1> QED BY <1>1, <1>2 DEF IInv, TypeOK, AliveInGroup, GroupByGroup, CancelledByFailure,
             ErrorsCollected

LEMMA NextIInv ==
    ASSUME IInv, [Next]_vars PROVE IInv'
  <1>1. ASSUME NEW s \in Group, Enter(s) \/ Write(s) \/ Return(s) \/ Raise(s)
        PROVE  IInv'
    BY <1>1, TasksMove, TaskStep
  <1>2. CASE Progress
    BY <1>1, <1>2, StartGroupStep, CancelSiblingsStep, EndGroupStep, CompleteStep DEF Progress
  <1>3. CASE Ended \/ UNCHANGED vars
    BY <1>3, StutterStep DEF Ended
  <1> QED BY <1>2, <1>3, CancelStep DEF Next

LEMMA Inductive == Spec => []IInv
  <1> QED BY InitIInv, NextIInv, PTL DEF Spec

-----------------------------------------------------------------------------
\* For any limit and any workflow, no more steps of a parallel group run at
\* once than concurrency_limit says.
THEOREM Limited == Spec => []LimitRespected
  <1>1. IInv => LimitRespected
    BY DEF IInv
  <1> QED BY <1>1, Inductive, PTL

\* When a group is over, none of its tasks goes on.
THEOREM NothingLeftBehind == Spec => []NoStragglers
  <1>1. IInv => NoStragglers
    BY DEF IInv, AliveInGroup, NoStragglers
  <1> QED BY <1>1, Inductive, PTL

\* A strategy that failed holds an error, and in collect-all mode let every
\* step of the group end; one that completed lost no step.
THEOREM NoErrorLost == Spec => []ErrorsCollected
  <1>1. IInv => ErrorsCollected
    BY DEF IInv
  <1> QED BY <1>1, Inductive, PTL

-----------------------------------------------------------------------------
(***************************************************************************)
(* The results. Under the id of a step that is no step's output key, every *)
(* context holds the step's own result or none; a step that has stored its *)
(* result keeps it in its context, and in the parent once its group is     *)
(* over.                                                                   *)
(***************************************************************************)
Sole(s) == \A t \in Steps : OutputKey[t] # Id[s]

ResultsTyped ==
    /\ results \in [Contexts -> Entries]
    /\ suspended \in [Contexts -> BOOLEAN]
    /\ winner \in Entries

OnlyOwn ==
    \A s \in Steps : Sole(s) => \A c \in Contexts : results[c][Id[s]] \in {Absent, s}

ResultsKept ==
    \A s \in Steps : Sole(s) =>
        /\ branch[s] = "done" /\ (phase = "between" \/ s \notin Group) =>
               results[Parent][Id[s]] = s
        /\ phase = "running" /\ s \in Group /\ branch[s] \in {"wrote", "done"} =>
               results[Context(s)][Id[s]] = s

(***************************************************************************)
(* The winners. While a group with a shared context runs, a contended key  *)
(* holds what won last, or a writer of the key has yet to return or is     *)
(* lost.                                                                   *)
(***************************************************************************)
Neat(k) == \A t \in Steps : Id[t] = k => WriteKey(t) = k

Unsettled(k) ==
    \E t \in Group : WriteKey(t) = k /\ branch[t] \in {"wrote", "failed", "cancelled"}

WinnersHold ==
    phase = "running" /\ ~ config.isolate =>
        \A k \in Keys : winner[k] # Absent =>
            /\ IsParallel /\ k \in Contended
            /\ Neat(k) => results[Parent][k] = winner[k] \/ Unsettled(k)

RInv == ResultsTyped /\ OnlyOwn /\ ResultsKept /\ WinnersHold /\ WinnerStays

-----------------------------------------------------------------------------
LEMMA KeysApart ==
    /\ \A s \in Steps : Id[s] \in Keys /\ WriteKey(s) \in Keys
    /\ \A s, t \in Steps : Id[s] = Id[t] => s = t
    /\ \A s, t \in Steps : Sole(s) /\ WriteKey(t) = Id[s] => t = s
    /\ Absent \notin Steps /\ Parent \notin Steps /\ NoKey \notin Keys
  <1>1. /\ Id \in [Steps -> Keys] /\ OutputKey \in [Steps -> Keys \union {NoKey}]
        /\ Absent \notin Steps /\ Parent \notin Steps /\ NoKey \notin Keys
    BY ParallelAssumption
  <1>2. \A s, t \in Steps : Id[s] = Id[t] => s = t
    BY <1>1, ParallelAssumption DEF IsInjective
  <1> QED BY <1>1, <1>2 DEF WriteKey, Sole

LEMMA SoleUncontended ==
    ASSUME TypeOK, NEW s \in Steps, Sole(s) PROVE Id[s] \notin Contended
  BY KeysApart, GroupType DEF Contended

\* What a store does to the entries.
LEMMA PutEntries ==
    ASSUME ResultsTyped, NEW s \in Steps, NEW ks, NEW c \in Contexts, Put(c, ks, s)
    PROVE  /\ results' \in [Contexts -> Entries]
           /\ \A k \in Keys : results'[c][k] = IF k \in ks THEN s ELSE results[c][k]
           /\ \A d \in Contexts : d # c => results'[d] = results[d]
  <1> DEFINE new == [k \in Keys |-> IF k \in ks THEN s ELSE results[c][k]]
  <1>1. results' = [results EXCEPT ![c] = new]
    BY DEF Put
  <1>2. results \in [Contexts -> Entries] /\ results[c] \in Entries
    BY DEF ResultsTyped
  <1>3. new \in Entries
    BY <1>2 DEF Entries
  <1>4. \A k \in Keys : new[k] = IF k \in ks THEN s ELSE results[c][k]
    OBVIOUS
  <1> HIDE DEF new
  <1> QED BY <1>1, <1>2, <1>3, <1>4

LEMMA LeastNumber ==
    ASSUME NEW T, T \subseteq Nat, T # {}
    PROVE  Min(T) \in T
  <1>1. PICK x \in T : \A y \in T : ~ (<<y, x>> \in OpToRel(<, Nat))
    BY NatLessThanWellFounded, WFMin
  <1>2. \A y \in T : ~ (y < x)
    BY <1>1 DEF OpToRel
  <1>3. \A y \in T : x <= y
    BY <1>2
  <1> QED BY <1>3 DEF Min

\* The first branch that has an entry under a step's own key tells of the step.
LEMMA FirstTellsOwn ==
    ASSUME TypeOK, NEW rs, NEW s \in Steps,
           \A t \in Group : rs[t][Id[s]] \in {Absent, s}
    PROVE  /\ FirstEntry(rs, Id[s]) \in {Absent, s}
           /\ s \in Group /\ rs[s][Id[s]] = s => FirstEntry(rs, Id[s]) = s
  <1> DEFINE told == {j \in GroupFrom(group) : rs[Workflow[j]][Id[s]] # Absent}
  <1>1. told \subseteq Nat
    BY DEF TypeOK, GroupFrom
  <1>2. CASE told = {}
    <2>1. FirstEntry(rs, Id[s]) = Absent
      BY <1>2 DEF FirstEntry
    <2>2. ~ (s \in Group /\ rs[s][Id[s]] = s)
      BY <1>2, KeysApart DEF Group
    <2> QED BY <2>1, <2>2
  <1>3. CASE told # {}
    <2>1. Min(told) \in told
      BY <1>1, <1>3, LeastNumber
    <2>2. FirstEntry(rs, Id[s]) = rs[Workflow[Min(told)]][Id[s]]
      BY <1>3 DEF FirstEntry
    <2>3. Workflow[Min(told)] \in Group /\ rs[Workflow[Min(told)]][Id[s]] # Absent
      BY <2>1 DEF Group
    <2> QED BY <2>2, <2>3
  <1> QED BY <1>2, <1>3

LEMMA FirstEntryType ==
    ASSUME TypeOK, NEW rs \in [Contexts -> Entries], NEW k \in Keys
    PROVE  FirstEntry(rs, k) \in Steps \union {Absent}
  <1> DEFINE told == {j \in GroupFrom(group) : rs[Workflow[j]][k] # Absent}
  <1>1. told \subseteq Nat
    BY DEF TypeOK, GroupFrom
  <1>2. CASE told = {}
    BY <1>2 DEF FirstEntry
  <1>3. CASE told # {}
    <2>1. Min(told) \in told
      BY <1>1, <1>3, LeastNumber
    <2>2. FirstEntry(rs, k) = rs[Workflow[Min(told)]][k]
      BY <1>3 DEF FirstEntry
    <2>3. Workflow[Min(told)] \in Contexts
      BY <2>1, GroupType DEF Group, Contexts
    <2> QED BY <2>2, <2>3 DEF Entries
  <1> QED BY <1>2, <1>3

\* The merge adds to the parent what its branches have under their own keys.
LEMMA MergeKeeps ==
    ASSUME TypeOK, NEW rs \in [Contexts -> Entries],
           \A s \in Steps : Sole(s) => \A c \in Contexts : rs[c][Id[s]] \in {Absent, s}
    PROVE  /\ Merged(rs) \in [Contexts -> Entries]
           /\ \A s \in Steps : Sole(s) =>
                  /\ \A c \in Contexts : Merged(rs)[c][Id[s]] \in {Absent, s}
                  /\ rs[Parent][Id[s]] = s => Merged(rs)[Parent][Id[s]] = s
                  /\ s \in Group /\ rs[Context(s)][Id[s]] = s => Merged(rs)[Parent][Id[s]] = s
           /\ ~ config.isolate => Merged(rs) = rs
  <1>1. CASE ~ (IsParallel /\ config.isolate)
    <2>1. Merged(rs) = rs /\ \A s \in Steps : Context(s) = Parent
      BY <1>1 DEF Merged, Context
    <2> QED BY <2>1
  <1>2. CASE IsParallel /\ config.isolate
    <2> DEFINE new == [k \in Keys |-> IF rs[Parent][k] # Absent THEN rs[Parent][k]
                                      ELSE FirstEntry(rs, k)]
    <2>1. Merged(rs) = [rs EXCEPT ![Parent] = new] /\ Parent \in Contexts
      BY <1>2 DEF Merged, Contexts
    <2>2. new \in Entries
      BY <2>1, FirstEntryType DEF Entries
    <2>3. \A k \in Keys : new[k] = IF rs[Parent][k] # Absent THEN rs[Parent][k]
                                   ELSE FirstEntry(rs, k)
      OBVIOUS
    <2> HIDE DEF new
    <2>4. /\ Merged(rs) \in [Contexts -> Entries] /\ Merged(rs)[Parent] = new
          /\ \A c \in Contexts : c # Parent => Merged(rs)[c] = rs[c]
      BY <2>1, <2>2
    <2>5. ASSUME NEW s \in Steps, Sole(s)
          PROVE  /\ \A c \in Contexts : Merged(rs)[c][Id[s]] \in {Absent, s}
                 /\ rs[Parent][Id[s]] = s => Merged(rs)[Parent][Id[s]] = s
                 /\ s \in Group /\ rs[Context(s)][Id[s]] = s => Merged(rs)[Parent][Id[s]] = s
      <3>1. /\ FirstEntry(rs, Id[s]) \in {Absent, s}
            /\ s \in Group /\ rs[s][Id[s]] = s => FirstEntry(rs, Id[s]) = s
        BY <2>5, FirstTellsOwn, GroupType DEF Contexts
      <3>2. Context(s) = s /\ Id[s] \in Keys /\ s # Absent
        BY <1>2, KeysApart DEF Context
      <3>3. \A c \in Contexts : rs[c][Id[s]] \in {Absent, s}
        BY <2>5
      <3> QED BY <2>1, <2>3, <2>4, <3>1, <3>2, <3>3
    <2> QED BY <1>2, <2>4, <2>5
  <1> QED BY <1>1, <1>2
-----------------------------------------------------------------------------
LEMMA InitRInv == Init => RInv
  <1> SUFFICES ASSUME Init PROVE RInv
    OBVIOUS
  <1>1. /\ \A c \in Contexts : results[c] = Empty
        /\ winner = Empty /\ Empty \in Entries /\ \A k \in Keys : Empty[k] = Absent
        /\ \A s \in Steps : branch[s] = "idle"
        /\ phase = "between"
    BY DEF Init, Empty, Entries
  <1>2. ResultsTyped
    BY <1>1 DEF Init, ResultsTyped
  <1>3. OnlyOwn
    BY <1>1, KeysApart DEF OnlyOwn
  <1> QED BY <1>1, <1>2, <1>3 DEF RInv, ResultsKept, WinnersHold, WinnerStays

\* No result is written: a task enters, raises or is cancelled.
LEMMA NoWriteStep ==
    ASSUME IInv, RInv, phase = "running",
           UNCHANGED <<setup, group, phase, outcome, results, suspended, winner>>,
           \A s \in Steps : \/ branch'[s] = branch[s]
                            \/ /\ branch[s] \in Alive /\ branch'[s] \in {"running", "failed", "cancelled"}
                               /\ branch[s] = "wrote" => branch'[s] # "running"
    PROVE  RInv'
  <1>1. /\ Group' = Group /\ IsParallel' = IsParallel /\ config' = config /\ Group \subseteq Steps
        /\ \A s : Context(s)' = Context(s)
    BY SameGroup, GroupType DEF Context, IInv
  <1>2. ResultsTyped' /\ OnlyOwn'
    BY DEF RInv, ResultsTyped, OnlyOwn, Sole
  <1>3. ResultsKept'
    <2> SUFFICES ASSUME NEW s \in Steps, Sole(s)
                 PROVE  /\ branch'[s] = "done" /\ s \notin Group => results[Parent][Id[s]] = s
                        /\ s \in Group /\ branch'[s] \in {"wrote", "done"} =>
                               results[Context(s)][Id[s]] = s
      BY <1>1 DEF ResultsKept, Sole
    <2>1. branch'[s] \in {"wrote", "done"} => branch'[s] = branch[s]
      OBVIOUS
    <2> QED BY <2>1 DEF RInv, ResultsKept
  <1>4. WinnersHold'
    <2> SUFFICES ASSUME ~ config.isolate, NEW k \in Keys, winner[k] # Absent
                 PROVE  /\ IsParallel' /\ k \in Contended'
                        /\ Neat(k) => results[Parent][k] = winner[k] \/ Unsettled(k)'
      BY <1>1 DEF WinnersHold, Neat
    <2>1. /\ IsParallel /\ k \in Contended
          /\ Neat(k) => results[Parent][k] = winner[k] \/ Unsettled(k)
      BY DEF RInv, WinnersHold
    <2>2. Contended' = Contended
      BY <1>1 DEF Contended
    <2>3. Unsettled(k) => Unsettled(k)'
      BY <1>1 DEF Unsettled, Alive, Working
    <2> QED BY <1>1, <2>1, <2>2, <2>3
  <1>5. WinnerStays'
    BY DEF WinnerStays
  <1> QED BY <1>2, <1>3, <1>4, <1>5 DEF RInv

\* A primitive or a recovery stores its result.
LEMMA WriteStep ==
    ASSUME IInv, RInv, NEW s \in Group, Write(s)
    PROVE  RInv'
  <1>1. /\ Group' = Group /\ IsParallel' = IsParallel /\ config' = config /\ Group \subseteq Steps
        /\ s \in Steps /\ \A t : Context(t)' = Context(t)
    BY SameGroup, GroupType DEF Context, IInv, Write
  <1>2. phase = "running" /\ phase' = "running"
    BY <1>1 DEF Write, IInv, AliveInGroup, Alive, Working
  <1>3. \A t \in Steps : branch'[t] = IF t = s THEN "wrote" ELSE branch[t]
    BY DEF Write, IInv, TypeOK
  <1>4. PICK ks \in {{Id[s], OutputKey[s]}, {Id[s]}} : Put(Context(s), ks, s)
    BY DEF Write
  <1>5. Context(s) \in Contexts /\ ResultsTyped
    BY <1>1 DEF Context, Contexts, RInv
  <1>6. /\ results' \in [Contexts -> Entries]
        /\ \A k \in Keys : results'[Context(s)][k] = IF k \in ks THEN s ELSE results[Context(s)][k]
        /\ \A d \in Contexts : d # Context(s) => results'[d] = results[d]
    BY <1>1, <1>4, <1>5, PutEntries
  <1>7. suspended' \in [Contexts -> BOOLEAN] /\ winner' = winner
    BY <1>5 DEF Write, MaySuspend, ResultsTyped
  <1>8. ResultsTyped'
    BY <1>5, <1>6, <1>7 DEF ResultsTyped
  \* nothing is stored under the own key of another step
  <1>9. ASSUME NEW t \in Steps, Sole(t), NEW c \in Contexts
        PROVE  /\ t # s \/ c # Context(s) => results'[c][Id[t]] = results[c][Id[t]]
               /\ results'[Context(s)][Id[s]] = s
    <2>1. t # s => Id[t] \notin ks
      BY <1>1, <1>9, KeysApart DEF Sole
    <2> QED BY <1>1, <1>4, <1>6, <2>1, KeysApart
  <1>10. OnlyOwn'
    <2> SUFFICES ASSUME NEW t \in Steps, Sole(t), NEW c \in Contexts
                 PROVE  results'[c][Id[t]] \in {Absent, t}
      BY DEF OnlyOwn, Sole
    <2>1. results[c][Id[t]] \in {Absent, t}
      BY DEF RInv, OnlyOwn
    <2> QED BY <1>9, <2>1
  <1>11. ResultsKept'
    <2> SUFFICES ASSUME NEW t \in Steps, Sole(t)
                 PROVE  /\ branch'[t] = "done" /\ t \notin Group => results'[Parent][Id[t]] = t
                        /\ t \in Group /\ branch'[t] \in {"wrote", "done"} =>
                               results'[Context(t)][Id[t]] = t
      BY <1>1, <1>2 DEF ResultsKept, Sole
    <2>1. Parent \in Contexts /\ Context(t) \in Contexts
      BY DEF Contexts, Context
    <2>2. CASE t = s
      BY <1>1, <1>9, <2>1, <2>2
    <2>3. CASE t # s
      BY <1>2, <1>3, <1>9, <2>1, <2>3 DEF RInv, ResultsKept
    <2> QED BY <2>2, <2>3
  <1>12. WinnersHold'
    <2> SUFFICES ASSUME ~ config.isolate, NEW k \in Keys, winner[k] # Absent
                 PROVE  /\ IsParallel' /\ k \in Contended'
                        /\ Neat(k) => results'[Parent][k] = winner[k] \/ Unsettled(k)'
      BY <1>1, <1>7 DEF WinnersHold, Neat
    <2>1. /\ IsParallel /\ k \in Contended
          /\ Neat(k) => results[Parent][k] = winner[k] \/ Unsettled(k)
      BY <1>2 DEF RInv, WinnersHold
    <2>2. Contended' = Contended
      BY <1>1 DEF Contended
    <2>3. CASE Neat(k) /\ k \in ks
      <3>1. WriteKey(s) = k
        BY <1>1, <1>4, <2>3, KeysApart DEF Neat, WriteKey
      <3>2. Unsettled(k)'
        BY <1>1, <1>3, <3>1 DEF Unsettled
      <3> QED BY <1>1, <2>1, <2>2, <3>2
    <2>4. CASE k \notin ks
      <3>1. results'[Parent][k] = results[Parent][k]
        BY <1>6, <2>4 DEF Contexts
      <3>2. Unsettled(k) => Unsettled(k)'
        <4>1. branch[s] = "running"
          BY DEF Write
        <4> QED BY <1>1, <1>3, <4>1 DEF Unsettled
      <3> QED BY <1>1, <2>1, <2>2, <3>1, <3>2
    <2> QED BY <1>1, <2>1, <2>2, <2>3, <2>4
  <1> QED BY <1>2, <1>8, <1>10, <1>11, <1>12 DEF RInv, WinnerStays

\* A task returns: the compare-and-swap of a contended key.
LEMMA ReturnStep ==
    ASSUME IInv, RInv, NEW s \in Group, Return(s)
    PROVE  RInv'
  <1>1. /\ Group' = Group /\ IsParallel' = IsParallel /\ config' = config /\ Group \subseteq Steps
        /\ s \in Steps /\ \A t : Context(t)' = Context(t)
    BY SameGroup, GroupType DEF Context, IInv, Return
  <1>2. phase = "running" /\ phase' = "running" /\ branch[s] = "wrote"
    BY <1>1 DEF Return, IInv, AliveInGroup, Alive, Working
  <1>3. \A t \in Steps : branch'[t] = IF t = s THEN "done" ELSE branch[t]
    BY DEF Return, IInv, TypeOK
  <1>4. Context(s) \in Contexts /\ ResultsTyped /\ WriteKey(s) \in Keys /\ Parent \in Contexts
    BY <1>1, KeysApart DEF Context, Contexts, RInv
  <1>5. Contended' = Contended
    BY <1>1 DEF Contended
  <1>6. CASE ~ Contends(s)
    <2>1. UNCHANGED <<winner, results, suspended>>
      BY <1>6 DEF Return
    <2>2. ResultsTyped' /\ OnlyOwn'
      BY <2>1 DEF RInv, ResultsTyped, OnlyOwn, Sole
    <2>3. ResultsKept'
      <3> SUFFICES ASSUME NEW t \in Steps, Sole(t)
                   PROVE  /\ branch'[t] = "done" /\ t \notin Group => results[Parent][Id[t]] = t
                          /\ t \in Group /\ branch'[t] \in {"wrote", "done"} =>
                                 results[Context(t)][Id[t]] = t
        BY <1>1, <1>2, <2>1 DEF ResultsKept, Sole
      <3> QED BY <1>2, <1>3 DEF RInv, ResultsKept
    <2>4. WinnersHold'
      <3> SUFFICES ASSUME ~ config.isolate, NEW k \in Keys, winner[k] # Absent
                   PROVE  /\ IsParallel' /\ k \in Contended'
                          /\ Neat(k) => results[Parent][k] = winner[k] \/ Unsettled(k)'
        BY <1>1, <2>1 DEF WinnersHold, Neat
      <3>1. /\ IsParallel /\ k \in Contended
            /\ Neat(k) => results[Parent][k] = winner[k] \/ Unsettled(k)
        BY <1>2 DEF RInv, WinnersHold
      <3>2. WriteKey(s) # k
        BY <1>6, <3>1 DEF Contends
      <3>3. Unsettled(k) => Unsettled(k)'
        BY <1>1, <1>3, <3>2 DEF Unsettled
      <3> QED BY <1>1, <1>5, <3>1, <3>3
    <2> QED BY <1>2, <2>2, <2>3, <2>4 DEF RInv, WinnerStays
  <1>7. CASE Contends(s)
    <2>1. /\ winner' = [winner EXCEPT ![WriteKey(s)] = s] /\ Put(Context(s), {WriteKey(s)}, s)
          /\ suspended' = suspended /\ IsParallel /\ WriteKey(s) \in Contended
      BY <1>7 DEF Return, Contends
    <2>2. /\ results' \in [Contexts -> Entries]
          /\ \A k \in Keys : results'[Context(s)][k] =
                 IF k = WriteKey(s) THEN s ELSE results[Context(s)][k]
          /\ \A d \in Contexts : d # Context(s) => results'[d] = results[d]
      BY <1>1, <1>4, <2>1, PutEntries
    <2>3. /\ winner' \in Entries
          /\ \A k \in Keys : winner'[k] = IF k = WriteKey(s) THEN s ELSE winner[k]
      BY <1>1, <1>4, <2>1 DEF ResultsTyped, Entries
    <2>4. ResultsTyped'
      BY <1>4, <2>1, <2>2, <2>3 DEF ResultsTyped
    <2>5. ASSUME NEW t \in Steps, Sole(t), NEW c \in Contexts
          PROVE  results'[c][Id[t]] = results[c][Id[t]]
      <3>1. Id[t] # WriteKey(s) /\ Id[t] \in Keys
        BY <2>1, <2>5, SoleUncontended, KeysApart DEF IInv
      <3> QED BY <2>2, <3>1
    <2>6. OnlyOwn'
      <3> SUFFICES ASSUME NEW t \in Steps, Sole(t), NEW c \in Contexts
                   PROVE  results'[c][Id[t]] \in {Absent, t}
        BY DEF OnlyOwn, Sole
      <3> QED BY <2>5 DEF RInv, OnlyOwn
    <2>7. ResultsKept'
      <3> SUFFICES ASSUME NEW t \in Steps, Sole(t)
                   PROVE  /\ branch'[t] = "done" /\ t \notin Group => results'[Parent][Id[t]] = t
                          /\ t \in Group /\ branch'[t] \in {"wrote", "done"} =>
                                 results'[Context(t)][Id[t]] = t
        BY <1>1, <1>2 DEF ResultsKept, Sole
      <3>1. Context(t) \in Contexts
        BY DEF Contexts, Context
      <3> QED BY <1>2, <1>3, <1>4, <2>5, <3>1 DEF RInv, ResultsKept
    <2>8. WinnersHold'
      <3> SUFFICES ASSUME ~ config.isolate, NEW k \in Keys, winner'[k] # Absent
                   PROVE  /\ IsParallel' /\ k \in Contended'
                          /\ Neat(k) => results'[Parent][k] = winner'[k] \/ Unsettled(k)'
        BY <1>1 DEF WinnersHold, Neat
      <3>1. Context(s) = Parent
        BY DEF Context
      <3>2. CASE k = WriteKey(s)
        BY <1>1, <1>5, <2>1, <2>2, <2>3, <3>1, <3>2
      <3>3. CASE k # WriteKey(s)
        <4>1. /\ IsParallel /\ k \in Contended
              /\ Neat(k) => results[Parent][k] = winner[k] \/ Unsettled(k)
          BY <1>2, <2>3, <3>3 DEF RInv, WinnersHold
        <4>2. Unsettled(k) => Unsettled(k)'
          BY <1>1, <1>3, <3>3 DEF Unsettled
        <4>3. results'[Parent][k] = results[Parent][k] /\ winner'[k] = winner[k]
          BY <2>2, <2>3, <3>1, <3>3
        <4> QED BY <1>1, <1>5, <4>1, <4>2, <4>3
      <3> QED BY <3>2, <3>3
    <2> QED BY <1>2, <2>4, <2>6, <2>7, <2>8 DEF RInv, WinnerStays
  <1> QED BY <1>6, <1>7

\* A group starts: the branches are given copies of the parent's results.
LEMMA StartGroupResults ==
    ASSUME IInv, RInv, StartGroup PROVE RInv'
  <1>1. /\ Group \subseteq Steps /\ Group' = Group /\ phase = "between" /\ phase' = "running"
        /\ Parent \in Contexts /\ Parent \notin Group
    BY GroupType, SameGroup, KeysApart DEF IInv, StartGroup, Contexts
  <1>2. \A c \in Contexts : results'[c] = IF c \in Group THEN results[Parent] ELSE results[c]
    BY DEF StartGroup
  <1>3. \A k \in Keys : winner'[k] = Absent
    BY DEF StartGroup, Empty
  <1>4. ResultsTyped'
    <2>1. results' \in [Contexts -> Entries]
      BY <1>1 DEF StartGroup, RInv, ResultsTyped
    <2> QED BY <2>1 DEF StartGroup, RInv, ResultsTyped, Empty, Entries
  <1>5. OnlyOwn'
    BY <1>1, <1>2 DEF RInv, OnlyOwn, Sole
  <1>6. ResultsKept'
    <2> SUFFICES ASSUME NEW s \in Steps, Sole(s)
                 PROVE  /\ branch'[s] = "done" /\ s \notin Group => results'[Parent][Id[s]] = s
                        /\ s \in Group => branch'[s] \notin {"wrote", "done"}
      BY <1>1 DEF ResultsKept, Sole
    <2>1. branch'[s] = IF s \notin Group THEN branch[s]
                       ELSE IF IsParallel THEN "waiting" ELSE "running"
      BY DEF StartGroup
    <2>2. branch[s] = "done" => results[Parent][Id[s]] = s
      BY <1>1 DEF RInv, ResultsKept
    <2> QED BY <1>1, <1>2, <2>1, <2>2
  <1>7. WinnersHold' /\ WinnerStays'
    BY <1>1, <1>3 DEF WinnersHold, WinnerStays
  <1> QED BY <1>4, <1>5, <1>6, <1>7 DEF RInv

\* The collect-all loop stores a step's result under its own id.
LEMMA CollectKeeps ==
    ASSUME IInv, RInv
    PROVE  /\ Collected \in [Contexts -> Entries]
           /\ \A s \in Steps : Sole(s) => \A c \in Contexts :
                  Collected[c][Id[s]] = results[c][Id[s]] \/ Collected[c][Id[s]] = s
           /\ \A k \in Keys : Neat(k) /\ IsParallel /\ k \in Contended =>
                  \A c \in Contexts : Collected[c][k] = results[c][k]
  <1> DEFINE Told(c, k, s) == branch[s] = "done" /\ ~ Contends(s) /\ Context(s) = c /\ Id[s] = k
  <1>1. ASSUME NEW c \in Contexts, NEW k \in Keys
        PROVE  /\ (\E s \in Group : Told(c, k, s)) =>
                      \E s \in Group : Told(c, k, s) /\ Collected[c][k] = s
               /\ ~ (\E s \in Group : Told(c, k, s)) => Collected[c][k] = results[c][k]
    BY <1>1 DEF Collected
  <1>2. Collected \in [Contexts -> Entries]
    <2>1. \A c \in Contexts, k \in Keys : Collected[c][k] \in Steps \union {Absent}
      BY <1>1, GroupType DEF IInv, RInv, ResultsTyped, Entries
    <2>2. DOMAIN Collected = Contexts /\ \A c \in Contexts : DOMAIN Collected[c] = Keys
      BY DEF Collected
    <2>3. \A c \in Contexts : Collected[c] \in Entries
      <3> TAKE c \in Contexts
      <3>1. Collected[c] = [k \in Keys |-> Collected[c][k]]
        BY DEF Collected
      <3> HIDE DEF Collected
      <3> QED BY <2>1, <3>1 DEF Entries
    <2>4. Collected = [c \in Contexts |-> Collected[c]]
      BY DEF Collected
    <2> QED BY <2>3, <2>4
  <1>3. ASSUME NEW s \in Steps, Sole(s), NEW c \in Contexts
        PROVE  Collected[c][Id[s]] = results[c][Id[s]] \/ Collected[c][Id[s]] = s
    BY <1>1, KeysApart, GroupType DEF IInv
  <1>4. ASSUME NEW k \in Keys, Neat(k), IsParallel, k \in Contended, NEW c \in Contexts
        PROVE  Collected[c][k] = results[c][k]
    <2>1. \A s \in Group : ~ Told(c, k, s)
      BY <1>4, GroupType DEF Neat, Contends, IInv
    <2> QED BY <1>1, <1>4, <2>1
  <1> QED BY <1>2, <1>3, <1>4

LEMMA EndGroupResults ==
    ASSUME IInv, RInv, EndGroup PROVE RInv'
  <1>1. /\ Group \subseteq Steps /\ config' = config /\ branch' = branch /\ phase = "running"
        /\ phase' = "between" /\ outcome = "none" /\ winner' = winner /\ suspended' = suspended
        /\ TypeOK /\ ResultsTyped /\ OnlyOwn
    BY GroupType DEF IInv, EndGroup, setup, GroupByGroup, RInv
  <1> DEFINE rs == IF IsParallel /\ ~ config.failFast THEN Collected ELSE results
  <1>2. results' = Merged(rs)
    BY DEF EndGroup
  <1>3. /\ rs \in [Contexts -> Entries]
        /\ \A s \in Steps : Sole(s) => \A c \in Contexts :
               rs[c][Id[s]] = results[c][Id[s]] \/ rs[c][Id[s]] = s
        /\ \A k \in Keys : Neat(k) /\ IsParallel /\ k \in Contended =>
               \A c \in Contexts : rs[c][k] = results[c][k]
    BY <1>1, CollectKeeps DEF ResultsTyped
  <1> HIDE DEF rs
  <1>4. \A s \in Steps : Sole(s) => \A c \in Contexts : rs[c][Id[s]] \in {Absent, s}
    BY <1>1, <1>3 DEF OnlyOwn
  <1>5. /\ results' \in [Contexts -> Entries]
        /\ \A s \in Steps : Sole(s) =>
               /\ \A c \in Contexts : results'[c][Id[s]] \in {Absent, s}
               /\ rs[Parent][Id[s]] = s => results'[Parent][Id[s]] = s
               /\ s \in Group /\ rs[Context(s)][Id[s]] = s => results'[Parent][Id[s]] = s
        /\ ~ config.isolate => results' = rs
    BY <1>1, <1>2, <1>3, <1>4, MergeKeeps
  <1>6. ResultsTyped' /\ OnlyOwn'
    BY <1>1, <1>5 DEF ResultsTyped, OnlyOwn, Sole
  <1>7. ResultsKept'
    <2> SUFFICES ASSUME NEW s \in Steps, Sole(s), branch[s] = "done"
                 PROVE  results'[Parent][Id[s]] = s
      BY <1>1 DEF ResultsKept, Sole
    <2>1. CASE s \in Group
      <3>1. results[Context(s)][Id[s]] = s /\ Context(s) \in Contexts
        BY <1>1, <2>1 DEF RInv, ResultsKept, Context, Contexts
      <3> QED BY <1>3, <1>5, <2>1, <3>1
    <2>2. CASE s \notin Group
      <3>1. results[Parent][Id[s]] = s /\ Parent \in Contexts
        BY <1>1, <2>2 DEF RInv, ResultsKept, Contexts
      <3> QED BY <1>3, <1>5, <3>1
    <2> QED BY <2>1, <2>2
  <1>8. WinnerStays'
    <2> SUFFICES ASSUME outcome' = "none", ~ config.isolate, NEW k \in Keys,
                        winner[k] # Absent, Neat(k)
                 PROVE  results'[Parent][k] = winner[k]
      BY <1>1 DEF WinnerStays, Neat
    <2>1. /\ IsParallel /\ k \in Contended
          /\ results[Parent][k] = winner[k] \/ Unsettled(k)
      BY <1>1 DEF RInv, WinnersHold
    <2>2. Failed = {} /\ InFlight = {}
      BY DEF EndGroup
    <2>3. \A s \in Steps : branch[s] # "cancelled"
      <3>1. \A s \in Steps : branch[s] # "failed"
        BY <1>1, <2>2 DEF Failed, IInv, GroupByGroup
      <3> QED BY <1>1, <3>1 DEF IInv, CancelledByFailure
    <2>4. ~ Unsettled(k)
      BY <1>1, <2>2, <2>3 DEF Unsettled, Failed, InFlight, Alive, Working
    <2>5. results'[Parent][k] = results[Parent][k]
      BY <1>3, <1>5, <2>1 DEF Contexts
    <2> QED BY <2>1, <2>4, <2>5
  <1>9. WinnersHold'
    BY <1>1 DEF WinnersHold
  <1> QED BY <1>6, <1>7, <1>8, <1>9 DEF RInv

LEMMA CancelResults ==
    ASSUME IInv, RInv, Cancel PROVE RInv'
  <1>1. /\ Group \subseteq Steps /\ phase' = "between" /\ outcome' = "cancelled"
        /\ winner' = winner /\ suspended' = suspended /\ TypeOK /\ ResultsTyped /\ OnlyOwn
        /\ phase \in {"between", "running"}
    BY GroupType DEF IInv, Cancel, RInv, TypeOK
  <1>2. \A s \in Steps : branch'[s] = "done" => branch[s] = "done"
    BY DEF Cancel
  <1>3. /\ results' \in [Contexts -> Entries]
        /\ \A s \in Steps : Sole(s) =>
               /\ \A c \in Contexts : results'[c][Id[s]] \in {Absent, s}
               /\ results[Parent][Id[s]] = s => results'[Parent][Id[s]] = s
               /\ phase = "running" /\ s \in Group /\ results[Context(s)][Id[s]] = s =>
                      results'[Parent][Id[s]] = s
    <2>1. CASE phase = "running"
      <3>1. results' = Merged(results)
        BY <2>1 DEF Cancel
      <3>2. /\ results \in [Contexts -> Entries]
            /\ \A s \in Steps : Sole(s) => \A c \in Contexts : results[c][Id[s]] \in {Absent, s}
        BY <1>1 DEF ResultsTyped, OnlyOwn
      <3> QED BY <1>1, <3>1, <3>2, MergeKeeps
    <2>2. CASE phase # "running"
      <3>1. results' = results
        BY <2>2 DEF Cancel
      <3> QED BY <1>1, <2>2, <3>1 DEF ResultsTyped, OnlyOwn
    <2> QED BY <2>1, <2>2
  <1>4. ResultsTyped' /\ OnlyOwn'
    BY <1>1, <1>3 DEF ResultsTyped, OnlyOwn, Sole
  <1>5. ResultsKept'
    <2> SUFFICES ASSUME NEW s \in Steps, Sole(s), branch[s] = "done"
                 PROVE  results'[Parent][Id[s]] = s
      BY <1>1, <1>2 DEF ResultsKept, Sole
    <2> QED BY <1>1, <1>3 DEF RInv, ResultsKept
  <1> QED BY <1>1, <1>4, <1>5 DEF RInv, WinnersHold, WinnerStays

LEMMA RestResults ==
    ASSUME IInv, RInv, Complete \/ UNCHANGED vars PROVE RInv'
  <1>1. UNCHANGED <<setup, group, phase, branch, results, suspended, winner>>
    BY DEF Complete, vars
  <1>2. UNCHANGED <<Group, IsParallel, config, Contended>> /\ \A s : Context(s)' = Context(s)
    BY <1>1, SameGroup DEF Context, Contended
  <1>3. \A k : Unsettled(k)' = Unsettled(k) /\ Neat(k)' = Neat(k)
    BY <1>1, <1>2 DEF Unsettled, Neat
  <1>4. outcome' = "none" => outcome = "none"
    BY DEF Complete, vars
  <1>5. ResultsTyped' /\ OnlyOwn' /\ ResultsKept'
    BY <1>1, <1>2 DEF RInv, ResultsTyped, OnlyOwn, ResultsKept, Sole
  <1>6. WinnersHold'
    BY <1>1, <1>2, <1>3 DEF RInv, WinnersHold
  <1>7. WinnerStays'
    BY <1>1, <1>2, <1>4 DEF RInv, WinnerStays
  <1> QED BY <1>5, <1>6, <1>7 DEF RInv

LEMMA NextRInv ==
    ASSUME IInv, RInv, [Next]_vars PROVE RInv'
  <1>1. ASSUME NEW s \in Group, Enter(s) \/ Raise(s)
        PROVE  RInv'
    <2>1. /\ s \in Steps /\ phase = "running" /\ branch[s] \in Alive
          /\ branch[s] = "wrote" => branch' = [branch EXCEPT ![s] = "failed"]
          /\ \E to \in {"running", "failed"} : branch' = [branch EXCEPT ![s] = to]
          /\ UNCHANGED <<setup, group, phase, outcome, results, suspended, winner>>
      BY <1>1, GroupType DEF Enter, Raise, IInv, AliveInGroup, Alive, Working
    <2>2. \A t \in Steps :
              \/ branch'[t] = branch[t]
              \/ /\ branch[t] \in Alive /\ branch'[t] \in {"running", "failed", "cancelled"}
                 /\ branch[t] = "wrote" => branch'[t] # "running"
      BY <2>1 DEF IInv, TypeOK
    <2> QED BY <2>1, <2>2, NoWriteStep
  <1>2. CASE CancelSiblings
    <2>1. \A t \in Steps :
              branch'[t] = branch[t] \/ (branch[t] \in Alive /\ branch'[t] = "cancelled")
      BY <1>2 DEF CancelSiblings, InFlight
    <2> QED BY <1>2, <2>1, NoWriteStep DEF CancelSiblings
  <1>3. CASE Progress
    BY <1>1, <1>2, <1>3, StartGroupResults, EndGroupResults, RestResults, WriteStep, ReturnStep
       DEF Progress
  <1>4. CASE Ended \/ UNCHANGED vars
    BY <1>4, RestResults DEF Ended
  <1> QED BY <1>3, <1>4, CancelResults DEF Next

LEMMA ResultsInductive == Spec => [](IInv /\ RInv)
  <1> QED BY InitIInv, NextIInv, InitRInv, NextRInv, PTL DEF Spec

-----------------------------------------------------------------------------
\* Isolated or not, a step that is done has its result in the context of the
\* workflow once its group is over, by success, error or cancellation.
THEOREM ResultsAreMerged == Spec => []ResultsReachParent
  <1>1. RInv => ResultsReachParent
    BY DEF RInv, ResultsKept, ResultsReachParent, Sole
  <1> QED BY <1>1, ResultsInductive, PTL

\* A contended key keeps the value that won, if no step of another write key
\* has it for its id.
THEOREM WinnersStay == Spec => []WinnerStays
  <1>1. RInv => WinnerStays
    BY DEF RInv
  <1> QED BY <1>1, ResultsInductive, PTL
=============================================================================
