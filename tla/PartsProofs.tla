----------------------------- MODULE PartsProofs -----------------------------
(***************************************************************************)
(* What holds of the services for any number of requests, kits, states and *)
(* servers, of tool and guardrail steps for any servers, timeouts and      *)
(* configurations, and of llm and chat steps for any conversation and any  *)
(* limits. They share no state: each proof about a service needs one of    *)
(* the disjuncts of ServiceNext and leaves the others alone, and a step    *)
(* has a specification of its own.                                         *)
(***************************************************************************)
EXTENDS Services, ToolSteps, Guardrail, ModelCalls,
        FiniteSetTheorems, WellFoundedInduction, TLAPS

-----------------------------------------------------------------------------
(* Every request has a result, made or not.                                *)
Results ==
    [status : {"UNASKED", "PENDING", "APPROVED", "DENIED", "ESCALATED"},
     approver : {"nobody", "policy", "escalation"} \union Approvers]

RequestsTyped == requests \in [Approvals -> Results]

LEMMA GateStartsTyped == InitService => RequestsTyped
  <1> SUFFICES ASSUME NEW p, GateStart(p) PROVE RequestsTyped
    BY DEF InitService, ServicesStart, GateIdle
  <1> QED BY DEF GateStart, RequestsTyped, Unasked, Results

(* A step of the gate changes one request, and only one that is undecided. *)
ChangesOne ==
    \E r \in Approvals, outcome \in Results :
        /\ ~Decided(r)
        /\ requests' = [requests EXCEPT ![r] = outcome]

LEMMA GateChangesOne ==
    ASSUME GateNext PROVE UNCHANGED requests \/ ChangesOne
  <1>1. ASSUME NEW r \in Approvals, NEW level \in Levels, RequestApproval(r, level)
        PROVE  ChangesOne
    BY <1>1 DEF RequestApproval, ChangesOne, Decided, Status, Result, Results
  <1>2. ASSUME NEW r \in Approvals, NEW approver \in Approvers,
               NEW status \in {"APPROVED", "DENIED", "PENDING", "ESCALATED"},
               Resolve(r, status, approver)
        PROVE  UNCHANGED requests \/ ChangesOne
    BY <1>2 DEF Resolve, ChangesOne, Decided, Status, Unasked, Result, Results
  <1>3. ASSUME NEW r \in Approvals, TimerFires(r)
        PROVE  UNCHANGED requests \/ ChangesOne
    <2>1. Result(Escalated, "escalation") \in Results
      BY DEF Escalated, Result, Results
    <2> QED BY <1>3, <2>1 DEF TimerFires, ChangesOne, Decided, Status, Unasked
  <1> QED BY <1>1, <1>2, <1>3 DEF GateNext, Asked, Answered

LEMMA ServicesChangeOne ==
    ASSUME [ServiceNext]_serviceVars PROVE UNCHANGED requests \/ ChangesOne
  <1>1. UNCHANGED requests \/ GateNext
    BY DEF ServiceNext, serviceVars, gateVars
  <1> QED BY <1>1, GateChangesOne

LEMMA RequestsStayTyped ==
    ASSUME RequestsTyped, [ServiceNext]_serviceVars PROVE RequestsTyped'
  <1>1. CASE UNCHANGED requests
    BY <1>1 DEF RequestsTyped
  <1>2. CASE ChangesOne
    BY <1>2 DEF RequestsTyped, ChangesOne
  <1> QED BY <1>1, <1>2, ServicesChangeOne

(***************************************************************************)
(* The first decision about a request stands, whoever else answers it and  *)
(* whenever its timer fires, for any policy and any number of requests     *)
(* (adapters/approval.py).                                                 *)
(***************************************************************************)
THEOREM DecisionsStand == ServicesSpec => FirstDecisionStands
  <1>1. ASSUME RequestsTyped, [ServiceNext]_serviceVars
        PROVE  [\A r \in Approvals : Decided(r) => requests'[r] = requests[r]]_gateVars
    <2>1. CASE UNCHANGED requests
      BY <2>1
    <2>2. CASE ChangesOne
      BY <1>1, <2>2 DEF ChangesOne, RequestsTyped
    <2> QED BY <1>1, <2>1, <2>2, ServicesChangeOne
  <1> QED BY <1>1, GateStartsTyped, RequestsStayTyped, PTL DEF ServicesSpec, FirstDecisionStands

-----------------------------------------------------------------------------
(***************************************************************************)
(* The index. What every running sync has read of an item is the flag the  *)
(* user gave it last, as is the row itself, unless the item is disturbed.  *)
(***************************************************************************)
Row == [enabled : BOOLEAN, since : Int]
Rows == [Items -> Row]

IndexTyped ==
    /\ rows \in Rows
    /\ existing \in [Threads -> Rows \union {NotSyncing}]
    /\ choice \in [Items -> BOOLEAN]
    /\ moves \in Nat

ReadAsChosen ==
    \A c \in Threads : existing[c] # NotSyncing =>
        \A i \in Items \ disturbed : existing[c][i].enabled = choice[i]

IndexSound == IndexTyped /\ ChoicesSurviveSyncs /\ ReadAsChosen

LEMMA IndexStartsSound == InitService => IndexSound
  <1> SUFFICES ASSUME IndexIdle PROVE IndexSound
    BY DEF InitService, ServicesStart
  <1>1. NoRow \in Row /\ NoRow.enabled = TRUE
    BY DEF NoRow, Row
  <1>2. IndexTyped
    BY <1>1 DEF IndexIdle, IndexTyped, Rows
  <1>3. ChoicesSurviveSyncs /\ ReadAsChosen
    BY <1>1 DEF IndexIdle, ChoicesSurviveSyncs, ReadAsChosen
  <1> QED BY <1>2, <1>3 DEF IndexSound

LEMMA SyncReadsSound ==
    ASSUME IndexSound, NEW c \in Threads, NEW items, SyncReads(c, items) PROVE IndexSound'
  <1>1. existing' = [existing EXCEPT ![c] = rows] /\ UNCHANGED <<rows, choice, disturbed>>
    BY DEF SyncReads
  <1>2. IndexTyped'
    BY <1>1 DEF IndexSound, IndexTyped, SyncReads
  <1>3. \A d \in Threads : existing'[d] = IF d = c THEN rows ELSE existing[d]
    BY <1>1 DEF IndexSound, IndexTyped
  <1> QED BY <1>1, <1>2, <1>3 DEF IndexSound, ChoicesSurviveSyncs, ReadAsChosen

(* A sync that is over has nothing in hand; the others have what they had. *)
LEMMA EndSyncSound ==
    ASSUME IndexSound, NEW c \in Threads, EndSync(c), rows' \in Rows, disturbed \subseteq disturbed',
           \A i \in Items \ disturbed' : rows'[i].enabled = choice[i]
    PROVE  IndexSound'
  <1>1. existing' = [existing EXCEPT ![c] = NotSyncing] /\ choice' = choice /\ moves' = moves
    BY DEF EndSync
  <1>2. IndexTyped'
    BY <1>1 DEF IndexSound, IndexTyped
  <1>3. \A d \in Threads : existing'[d] # NotSyncing => existing'[d] = existing[d]
    BY <1>1 DEF IndexSound, IndexTyped
  <1>4. ReadAsChosen'
    BY <1>1, <1>3 DEF IndexSound, ReadAsChosen
  <1>5. ChoicesSurviveSyncs'
    BY <1>1 DEF ChoicesSurviveSyncs
  <1> QED BY <1>2, <1>4, <1>5 DEF IndexSound

LEMMA SyncWritesSound ==
    ASSUME IndexSound, NEW c \in Threads, SyncWrites(c) PROVE IndexSound'
  <1>1. /\ existing[c] \in Rows /\ moves \in Nat /\ rows \in Rows
        /\ \A i \in Items \ disturbed : rows[i].enabled = choice[i] /\ existing[c][i].enabled = choice[i]
    BY DEF IndexSound, IndexTyped, ChoicesSurviveSyncs, ReadAsChosen, SyncWrites
  <1>2. /\ disturbed' = disturbed \union {i \in Items \ found[c] : ~rows[i].enabled}
        /\ EndSync(c)
    BY DEF SyncWrites
  <1>3. NoRow \in Row /\ NoRow.enabled = TRUE
    BY DEF NoRow, Row
  <1>4. \A i \in Items :
           /\ rows'[i] \in Row
           /\ i \notin disturbed' => rows'[i].enabled = choice[i]
    <2> SUFFICES ASSUME NEW i \in Items
                 PROVE  /\ rows'[i] \in Row
                        /\ i \notin disturbed' => rows'[i].enabled = choice[i]
      OBVIOUS
    <2>0. i \notin disturbed' => rows[i].enabled = choice[i] /\ existing[c][i].enabled = choice[i]
      BY <1>1, <1>2
    <2>1. CASE i \notin found[c]
      <3>1. rows'[i] = NoRow
        BY <2>1 DEF SyncWrites
      <3>2. rows[i].enabled \in BOOLEAN
        BY <1>1 DEF Rows, Row
      <3>3. i \notin disturbed' => rows[i].enabled
        BY <1>2, <2>1
      <3> QED BY <1>3, <2>0, <3>1, <3>2, <3>3
    <2>2. CASE i \in found[c] /\ existing[c][i] # NoRow
      <3>1. rows'[i] = existing[c][i]
        BY <2>2 DEF SyncWrites
      <3> QED BY <1>1, <2>0, <3>1 DEF Rows
    <2>3. CASE i \in found[c] /\ existing[c][i] = NoRow
      <3>1. rows'[i] = [enabled |-> TRUE, since |-> moves]
        BY <2>3 DEF SyncWrites
      <3>2. rows'[i].enabled = TRUE /\ rows'[i] \in Row
        BY <1>1, <3>1 DEF Row
      <3> QED BY <1>3, <2>0, <2>3, <3>2
    <2> QED BY <2>1, <2>2, <2>3
  <1>5. rows' \in Rows
    BY <1>4 DEF SyncWrites, Rows
  <1> QED BY <1>2, <1>4, <1>5, EndSyncSound

LEMMA SyncFailsSound ==
    ASSUME IndexSound, NEW c \in Threads, SyncFails(c) PROVE IndexSound'
  BY EndSyncSound DEF SyncFails, IndexSound, IndexTyped, ChoicesSurviveSyncs

LEMMA SetEnabledSound ==
    ASSUME IndexSound, NEW i \in Items, NEW on \in BOOLEAN, SetEnabled(i, on) PROVE IndexSound'
  <1>1. existing' = existing /\ moves' = moves + 1
    BY DEF SetEnabled
  <1>2. CASE rows[i] = NoRow
    <2>1. UNCHANGED <<rows, choice, disturbed>>
      BY <1>2 DEF SetEnabled
    <2> QED BY <1>1, <2>1 DEF IndexSound, IndexTyped, ChoicesSurviveSyncs, ReadAsChosen
  <1>3. CASE rows[i] # NoRow
    <2>1. /\ rows' = [rows EXCEPT ![i].enabled = on]
          /\ choice' = [choice EXCEPT ![i] = on]
          /\ disturbed' =
               IF \E c \in Threads : existing[c] # NotSyncing /\ existing[c][i].enabled # on
               THEN disturbed \union {i} ELSE disturbed \ {i}
      BY <1>3 DEF SetEnabled
    <2>2. /\ rows' \in Rows /\ rows'[i].enabled = on /\ choice'[i] = on
          /\ \A j \in Items \ {i} : rows'[j] = rows[j] /\ choice'[j] = choice[j]
      BY <2>1 DEF IndexSound, IndexTyped, Rows, Row
    <2>3. IndexTyped'
      BY <1>1, <2>1, <2>2 DEF IndexSound, IndexTyped
    <2>4. \A j \in Items \ disturbed' : j = i \/ j \in Items \ disturbed
      BY <2>1
    <2>5. ChoicesSurviveSyncs'
      BY <2>2, <2>4 DEF IndexSound, ChoicesSurviveSyncs
    <2>6. ReadAsChosen'
      <3> SUFFICES ASSUME NEW c \in Threads, existing[c] # NotSyncing, NEW j \in Items \ disturbed'
                   PROVE  existing[c][j].enabled = choice'[j]
        BY <1>1 DEF ReadAsChosen
      <3>1. CASE j = i
        BY <2>1, <2>2, <3>1
      <3>2. CASE j # i
        BY <2>2, <2>4, <3>2 DEF IndexSound, ReadAsChosen
      <3> QED BY <3>1, <3>2
    <2> QED BY <2>3, <2>5, <2>6 DEF IndexSound
  <1> QED BY <1>2, <1>3

LEMMA IndexStaysSound ==
    ASSUME IndexSound, [ServiceNext]_serviceVars PROVE IndexSound'
  <1>1. IndexNext \/ UNCHANGED indexVars
    BY DEF ServiceNext, serviceVars
  <1>2. CASE UNCHANGED indexVars
    BY <1>2 DEF indexVars, IndexSound, IndexTyped, ChoicesSurviveSyncs, ReadAsChosen
  <1> QED
    BY <1>1, <1>2, SyncReadsSound, SyncWritesSound, SyncFailsSound, SetEnabledSound DEF IndexNext

(***************************************************************************)
(* However many syncs overlap, whatever each of them finds and however     *)
(* toggles fall between their steps, an item has the flag the user gave it *)
(* last, unless a sync deleted its row while it was switched off, or it    *)
(* was switched over while a sync that had read the other flag was under   *)
(* way, and not again since (adapters/index_store.py).                     *)
(***************************************************************************)
THEOREM ChoicesStand == ServicesSpec => []ChoicesSurviveSyncs
  <1>1. IndexSound => ChoicesSurviveSyncs
    BY DEF IndexSound
  <1> QED BY <1>1, IndexStartsSound, IndexStaysSound, PTL DEF ServicesSpec

-----------------------------------------------------------------------------
(* A set of numbers has a least one.                                       *)
LEMMA LeastOf ==
    ASSUME NEW S, S \subseteq Nat, S # {} PROVE \E n \in S : \A m \in S : n <= m
  <1>1. IsWellFoundedOn(OpToRel(<,Nat), Nat)
    BY NatLessThanWellFounded
  <1>2. PICK x \in S : \A y \in S : ~ (<<y, x>> \in OpToRel(<, Nat))
    BY <1>1, WFMin
  <1>3. ASSUME NEW y \in S PROVE x <= y
    <2>1. ~(<<y, x>> \in {ss \in Nat \X Nat : ss[1] < ss[2]})
      BY <1>2 DEF OpToRel
    <2>2. x \in Nat /\ y \in Nat
      OBVIOUS
    <2>3. ~(y < x)
      BY <2>1, <2>2
    <2> QED BY <2>2, <2>3
  <1> QED BY <1>3

(***************************************************************************)
(* The state file. No save under way, nor the context itself, is older     *)
(* than the floor; and the results a save has in hand are no older than    *)
(* its position.                                                           *)
(***************************************************************************)
Save == [stage : {"write", "rename"}, position : Nat, results : Nat, cut : BOOLEAN,
         awaited : BOOLEAN]
File == [position : Nat, results : Nat, cut : BOOLEAN]

StateTyped ==
    /\ live \in [position : Nat, results : Nat]
    /\ saves \in [Threads -> Save \union {NoSave}]
    /\ file \in File \union {NoFile}
    /\ floor \in Int

NotOlder(position, results) == floor <= position /\ position <= results

InHand(save) ==
    /\ NotOlder(save.position, save.results)
    /\ save.position <= live.position
    /\ save.results <= live.results

StateSound ==
    /\ StateTyped
    /\ NotOlder(live.position, live.results)
    /\ \A c \in Threads : saves[c] # NoSave => InHand(saves[c])
    /\ SavedStatesSurvive

LEMMA StateStartsSound == InitService => StateSound
  <1> SUFFICES ASSUME StateIdle PROVE StateSound
    BY DEF InitService, ServicesStart
  <1>1. StateTyped
    BY DEF StateIdle, StateTyped, Nowhere, NoFile
  <1> QED BY <1>1 DEF StateIdle, StateSound, NotOlder, SavedStatesSurvive, Nowhere, NoFile

(* The context goes on.                                                    *)
LEMMA ContextSound ==
    ASSUME StateSound, StepStores \/ StepRecorded PROVE StateSound'
  <1>1. /\ UNCHANGED <<saves, file, floor>> /\ live' \in [position : Nat, results : Nat]
        /\ live'.position >= live.position /\ live'.results >= live.results
        /\ live'.position <= live'.results
    BY DEF StateSound, StateTyped, NotOlder, StepStores, StepRecorded
  <1>2. StateTyped'
    BY <1>1 DEF StateSound, StateTyped
  <1>3. NotOlder(live.position, live.results)'
    BY <1>1 DEF StateSound, StateTyped, NotOlder
  <1>4. ASSUME NEW c \in Threads, saves'[c] # NoSave
        PROVE  InHand(saves[c])'
    <2>1. saves[c] # NoSave /\ saves[c] \in Save
      BY <1>1, <1>4 DEF StateSound, StateTyped
    <2> QED BY <1>1, <2>1 DEF StateSound, StateTyped, InHand, NotOlder, Save
  <1> QED BY <1>1, <1>2, <1>3, <1>4 DEF StateSound, SavedStatesSurvive

(* A save that begins, goes on or ends without a rename.                   *)
LEMMA OneSaveSound ==
    ASSUME StateSound, NEW c \in Threads, NEW now \in Save \union {NoSave},
           saves' = [saves EXCEPT ![c] = now], UNCHANGED <<live, file, floor>>,
           now # NoSave => InHand(now)
    PROVE  StateSound'
  <1>1. StateTyped'
    BY DEF StateSound, StateTyped
  <1>2. \A d \in Threads : saves'[d] = IF d = c THEN now ELSE saves[d]
    BY DEF StateSound, StateTyped
  <1>3. ASSUME NEW d \in Threads, saves'[d] # NoSave
        PROVE  InHand(saves[d])'
    BY <1>2, <1>3 DEF StateSound, InHand, NotOlder
  <1> QED BY <1>1, <1>3 DEF StateSound, NotOlder, SavedStatesSurvive

LEMMA SaveSound ==
    ASSUME StateSound, NEW c \in Threads, Checkpoint(c) \/ WriteTemporary(c) \/ CancelSave(c)
    PROVE  StateSound'
  <1>1. /\ saves[c] \in Save \union {NoSave} /\ live \in [position : Nat, results : Nat]
        /\ floor \in Int /\ saves = [d \in Threads |-> saves[d]]
        /\ NotOlder(live.position, live.results)
        /\ saves[c] # NoSave => InHand(saves[c])
    BY DEF StateSound, StateTyped
  <1>2. CASE Checkpoint(c)
    <2> DEFINE now == [stage |-> "write", position |-> live.position,
                       results |-> live.results, cut |-> FALSE, awaited |-> TRUE]
    <2>1. /\ now \in Save /\ saves' = [saves EXCEPT ![c] = now] /\ UNCHANGED <<live, file, floor>>
          /\ now.position = live.position /\ now.results = live.results
      BY <1>1, <1>2 DEF Checkpoint, Save
    <2>2. InHand(now)
      BY <1>1, <2>1 DEF InHand
    <2> HIDE DEF now
    <2> QED BY <2>1, <2>2, OneSaveSound
  <1>3. CASE EndSave(c) /\ UNCHANGED <<live, file, floor>>
    BY <1>3, OneSaveSound DEF EndSave
  <1>4. CASE WriteTemporary(c) /\ ~EndSave(c)
    <2>1. saves[c].stage = "write" /\ UNCHANGED <<live, file, floor>>
      BY <1>4 DEF WriteTemporary
    <2>2. saves[c] # NoSave /\ saves[c] \in Save
      BY <1>1, <2>1 DEF NoSave
    <2>3. PICK oldest \in saves[c].results .. live.results, short \in BOOLEAN :
              saves' = [saves EXCEPT ![c].stage = "rename", ![c].results = oldest, ![c].cut = short]
      BY <1>4 DEF WriteTemporary
    <2> DEFINE now == [saves[c] EXCEPT !.stage = "rename", !.results = oldest, !.cut = short]
    <2>4. saves' = [saves EXCEPT ![c] = now]
      BY <1>1, <2>3
    <2>5. /\ saves[c].results \in Nat /\ live.results \in Nat /\ saves[c].position \in Nat
          /\ oldest \in Nat /\ oldest >= saves[c].results /\ oldest <= live.results
      BY <1>1, <2>2 DEF Save
    <2>6. now \in Save /\ now.position = saves[c].position /\ now.results = oldest
      BY <2>2, <2>5 DEF Save
    <2>7. InHand(now)
      BY <1>1, <2>2, <2>5, <2>6 DEF InHand, NotOlder
    <2> HIDE DEF now
    <2> QED BY <2>1, <2>4, <2>6, <2>7, OneSaveSound
  <1>5. CASE CancelSave(c) /\ ~EndSave(c)
    <2>1. /\ saves[c] # NoSave /\ saves[c] \in Save /\ UNCHANGED <<live, file, floor>>
          /\ saves' = [saves EXCEPT ![c].awaited = FALSE]
      BY <1>1, <1>5 DEF CancelSave
    <2> DEFINE now == [saves[c] EXCEPT !.awaited = FALSE]
    <2>2. saves' = [saves EXCEPT ![c] = now]
      BY <1>1, <2>1
    <2>3. now \in Save /\ now.position = saves[c].position /\ now.results = saves[c].results
      BY <2>1 DEF Save
    <2>4. InHand(now)
      BY <1>1, <2>1, <2>3 DEF InHand
    <2> HIDE DEF now
    <2> QED BY <2>1, <2>2, <2>3, <2>4, OneSaveSound
  <1> QED BY <1>2, <1>3, <1>4, <1>5 DEF WriteTemporary, CancelSave

(* The least of the positions under way is at or above the old floor, and  *)
(* at or below that of the file and those of the saves that go on.         *)
LEMMA FloorIsLeast ==
    ASSUME StateSound, NEW c \in Threads, saves[c].stage = "rename"
    PROVE  /\ c \in UnderWay /\ saves[c] \in Save /\ FloorAfter(c) \in Int
           /\ FloorAfter(c) # Nowhere => ~saves[c].cut
           /\ \A d \in UnderWay : FloorAfter(c) <= saves[d].position
           /\ FloorAfter(c) <= live.position
  <1>1. saves[c] # NoSave
    BY DEF NoSave
  <1>2. c \in UnderWay /\ saves[c] \in Save /\ saves[c].cut \in BOOLEAN /\ saves[c].awaited \in BOOLEAN
    BY <1>1 DEF UnderWay, StateSound, StateTyped, Save
  <1>3. \A d \in UnderWay : saves[d].position \in Nat /\ floor <= saves[d].position
    BY DEF UnderWay, StateSound, StateTyped, InHand, NotOlder, Save
  <1>4. /\ floor \in Int /\ floor <= live.position /\ live.position \in Nat
        /\ saves[c].position <= live.position
    BY <1>1 DEF StateSound, StateTyped, InHand, NotOlder
  <1>5. CASE saves[c].cut
    <2>1. FloorAfter(c) = -1 /\ Nowhere = -1
      BY <1>5 DEF FloorAfter, Nowhere
    <2> QED BY <1>2, <1>3, <1>4, <2>1
  <1>6. CASE ~saves[c].cut /\ ~saves[c].awaited
    <2>1. FloorAfter(c) = floor
      BY <1>6 DEF FloorAfter
    <2> QED BY <1>2, <1>3, <1>4, <1>6, <2>1
  <1>7. CASE ~saves[c].cut /\ saves[c].awaited
    <2> DEFINE S == {saves[d].position : d \in UnderWay}
    <2>1. S \subseteq Nat /\ saves[c].position \in S
      BY <1>2, <1>3
    <2>2. PICK n \in S : \A m \in S : n <= m
      BY <2>1, LeastOf
    <2>3. Min(S) \in S /\ \A m \in S : Min(S) <= m
      BY <2>2 DEF Min
    <2>4. FloorAfter(c) = Min(S)
      BY <1>7 DEF FloorAfter
    <2>5. \A d \in UnderWay : Min(S) <= saves[d].position
      BY <2>3
    <2> HIDE DEF S
    <2>6. Min(S) \in Nat
      BY <2>1, <2>3
    <2> QED BY <1>2, <1>3, <1>4, <1>7, <2>4, <2>5, <2>6
  <1> QED BY <1>2, <1>5, <1>6, <1>7

LEMMA RenameSound ==
    ASSUME StateSound, NEW c \in Threads, Rename(c) PROVE StateSound'
  <1>1. /\ saves[c].stage = "rename" /\ file' = Written(c) /\ floor' = FloorAfter(c)
        /\ saves' = [saves EXCEPT ![c] = NoSave] /\ live' = live
    BY DEF Rename, EndSave
  <1>2. /\ c \in UnderWay /\ saves[c] \in Save /\ floor' \in Int
        /\ floor' # Nowhere => ~saves[c].cut
        /\ \A d \in UnderWay : floor' <= saves[d].position
        /\ floor' <= live.position
    BY <1>1, FloorIsLeast
  <1>3. /\ file'.position = saves[c].position /\ file'.results = saves[c].results
        /\ file'.cut = saves[c].cut /\ file' \in File
    BY <1>1, <1>2 DEF Written, File, Save
  <1>4. StateTyped'
    BY <1>1, <1>2, <1>3 DEF StateSound, StateTyped
  <1>5. ASSUME NEW d \in Threads, saves'[d] # NoSave PROVE InHand(saves[d])'
    <2>1. saves'[d] = saves[d] /\ d \in UnderWay
      BY <1>1, <1>5 DEF StateSound, StateTyped, UnderWay
    <2>2. InHand(saves[d]) /\ floor' <= saves[d].position
      BY <1>2, <2>1 DEF StateSound, UnderWay
    <2> QED BY <1>1, <2>1, <2>2 DEF InHand, NotOlder
  <1>6. NotOlder(live.position, live.results)'
    BY <1>1, <1>2 DEF StateSound, NotOlder
  <1>7. InHand(saves[c])
    BY <1>2 DEF StateSound, UnderWay
  <1>8. SavedStatesSurvive'
    <2>1. file' # NoFile
      BY <1>3 DEF File, NoFile, Nowhere
    <2>2. floor' <= file'.position /\ file'.position <= file'.results
      BY <1>2, <1>3, <1>7 DEF InHand, NotOlder
    <2> QED BY <1>2, <1>3, <1>4, <2>1, <2>2 DEF SavedStatesSurvive, StateTyped, File
  <1> QED BY <1>4, <1>5, <1>6, <1>8 DEF StateSound

(* A new process has what the file holds, and no saves.                    *)
LEMMA RestSound ==
    ASSUME StateSound, Crash \/ DeleteState PROVE StateSound'
  <1>1. CASE Crash
    <2>1. /\ UNCHANGED <<file, floor>> /\ \A c \in Threads : saves'[c] = NoSave
          /\ saves' \in [Threads -> Save \union {NoSave}]
      BY <1>1 DEF Crash
    <2>2. CASE file = NoFile \/ file.cut
      <3>1. live' = [position |-> 0, results |-> 0] /\ floor = -1 /\ floor' = -1
        BY <1>1, <2>1, <2>2 DEF Crash, StateSound, SavedStatesSurvive, Nowhere
      <3> QED BY <2>1, <3>1 DEF StateSound, StateTyped, NotOlder, SavedStatesSurvive
    <2>3. CASE file # NoFile /\ ~file.cut
      <3>1. live' = [position |-> file.position, results |-> file.results] /\ file \in File
        BY <1>1, <2>3 DEF Crash, StateSound, StateTyped
      <3>2. floor <= file.position /\ file.position <= file.results
        BY <2>3, <3>1 DEF StateSound, StateTyped, SavedStatesSurvive, Nowhere, File
      <3> QED BY <2>1, <3>1, <3>2 DEF StateSound, StateTyped, NotOlder, SavedStatesSurvive, File
    <2> QED BY <2>2, <2>3
  <1>2. CASE DeleteState
    <2>1. file' = NoFile /\ floor' = -1 /\ Nowhere = -1 /\ UNCHANGED <<live, saves>>
      BY <1>2 DEF DeleteState, Nowhere
    <2>2. StateTyped' /\ SavedStatesSurvive'
      BY <2>1 DEF StateSound, StateTyped, SavedStatesSurvive, NoFile
    <2>3. NotOlder(live.position, live.results)'
      BY <2>1 DEF StateSound, StateTyped, NotOlder
    <2>4. ASSUME NEW c \in Threads, saves[c] # NoSave PROVE InHand(saves[c])'
      <3>1. saves[c] \in Save /\ InHand(saves[c])
        BY <2>4 DEF StateSound, StateTyped
      <3> QED BY <2>1, <3>1 DEF InHand, NotOlder, Save
    <2> QED BY <2>1, <2>2, <2>3, <2>4 DEF StateSound
  <1> QED BY <1>1, <1>2

LEMMA StateStaysSound ==
    ASSUME StateSound, [ServiceNext]_serviceVars PROVE StateSound'
  <1>1. StateNext \/ UNCHANGED stateVars
    BY DEF ServiceNext, serviceVars
  <1>2. CASE UNCHANGED stateVars
    BY <1>2 DEF stateVars, StateSound, StateTyped, InHand, NotOlder, SavedStatesSurvive
  <1> QED BY <1>1, <1>2, ContextSound, SaveSound, RenameSound, RestSound DEF StateNext, SaveGoesOn

(***************************************************************************)
(* For any number of saves at once: from the rename of one that is awaited *)
(* on, and unless the file is deleted or a short write is renamed, a       *)
(* restart finds a whole file, no older than that save and the saves then  *)
(* under way; and no file claims a position beyond the results in it       *)
(* (adapters/state_store.py, InterruptibleContext in domain/models.py).    *)
(***************************************************************************)
THEOREM SavesStand == ServicesSpec => []SavedStatesSurvive
  <1>1. StateSound => SavedStatesSurvive
    BY DEF StateSound
  <1> QED BY <1>1, StateStartsSound, StateStaysSound, PTL DEF ServicesSpec

-----------------------------------------------------------------------------
(***************************************************************************)
(* The MCP clients. They are built in the order of the declarations, so no *)
(* server has two of them; until the closing begins none is disconnected,  *)
(* and then those before next are.                                         *)
(***************************************************************************)
ClientsTyped ==
    /\ clients \in Seq(McpServers)
    /\ closed \in [McpServers -> Nat]
    /\ next \in Nat
    /\ cancelledLate \in BOOLEAN

InOrder == \A m, n \in DOMAIN clients : m < n => clients[m] < clients[n]

ClosedBefore(k) ==
    \A s \in McpServers :
        closed[s] = IF \E n \in DOMAIN clients : n < k /\ clients[n] = s THEN 1 ELSE 0

Opening ==
    /\ closed = ZeroClosed /\ cancelledLate = FALSE
    /\ wiring = "compose" => composition \in Compositions /\ clients = <<>>
    /\ wiring = "build" => /\ Named(composition) \subseteq McpServers
                           /\ \A n \in DOMAIN clients : clients[n] < next

WiringSound ==
    /\ ClientsTyped /\ InOrder
    /\ wiring \in {"idle", "compose", "build", "run"} => Opening
    /\ wiring = "close" => next \in 1 .. Len(clients) + 1 /\ ClosedBefore(next)
    /\ wiring = "over"  => EveryClientIsClosed
    /\ wiring \in {"idle", "compose", "build", "run", "close", "over"}

LEMMA WiringStartsSound == InitService => WiringSound
  <1> SUFFICES ASSUME NEW c, NEW place, WiringStart(c, place),
                      \/ c \in Compositions /\ place = "compose"
                      \/ place = "idle"
               PROVE  WiringSound
    BY DEF InitService, ServicesStart, WiringIdle
  <1>1. /\ composition = c /\ wiring = place /\ clients = <<>> /\ next = 1
        /\ closed = ZeroClosed /\ cancelledLate = FALSE
    BY DEF WiringStart
  <1>2. ClientsTyped
    <2>1. clients \in Seq(McpServers)
      BY <1>1
    <2>2. closed \in [McpServers -> Nat]
      BY <1>1 DEF ZeroClosed
    <2>3. next \in Nat /\ cancelledLate \in BOOLEAN
      BY <1>1
    <2> QED BY <2>1, <2>2, <2>3 DEF ClientsTyped
  <1>3. InOrder
    BY <1>1 DEF InOrder
  <1>4. Opening /\ wiring \in {"idle", "compose"}
    BY <1>1 DEF Opening
  <1> QED BY <1>2, <1>3, <1>4 DEF WiringSound

LEMMA UnrefusedAreKnown ==
    ASSUME NEW c \in Compositions, Refusals(c) = {} PROVE Named(c) \subseteq McpServers
  <1>1. ASSUME NEW s \in c.steps, StepRefusals(c, s) = {} PROVE s.server \in McpServers
    BY <1>1, CompositionsAssumption DEF StepRefusals
  <1>2. \A s \in c.steps : StepRefusals(c, s) = {}
    BY DEF Refusals
  <1> QED BY <1>1, <1>2 DEF Named

LEMMA ComposeSound == ASSUME WiringSound, ComposeMcp PROVE WiringSound'
  <1>1. /\ ClientsTyped' /\ clients' = <<>> /\ closed' = ZeroClosed /\ cancelledLate' = FALSE
        /\ composition' = composition /\ composition \in Compositions
    BY DEF WiringSound, Opening, ClientsTyped, ComposeMcp, RefuseComposition
  <1>2. wiring' \in {"run", "over", "build"}
    BY DEF ComposeMcp, RefuseComposition
  <1>3. wiring' = "build" => Refusals(composition) = {}
    BY DEF ComposeMcp, RefuseComposition
  <1>4. wiring' = "over" => EveryClientIsClosed'
    BY <1>1 DEF EveryClientIsClosed, ZeroClosed
  <1> QED BY <1>1, <1>2, <1>3, <1>4, UnrefusedAreKnown DEF WiringSound, Opening, InOrder, Named

LEMMA BuildSound == ASSUME WiringSound, BuildClient PROVE WiringSound'
  <1>1. PICK s \in ToBuild :
           \/ clients' = Append(clients, s) /\ next' = s + 1 /\ wiring' = wiring
           \/ /\ wiring' = IF clients = <<>> THEN "over" ELSE "close"
              /\ next' = 1 /\ clients' = clients
    BY DEF BuildClient
  <1>2. /\ wiring = "build" /\ Opening /\ composition' = composition
        /\ closed' = ZeroClosed /\ cancelledLate' = FALSE
    BY DEF WiringSound, Opening, BuildClient
  <1>3. s \in McpServers /\ s \in Nat /\ s >= next
    BY <1>2, CompositionsAssumption DEF ToBuild, Opening
  <1>4. CASE clients' = Append(clients, s) /\ next' = s + 1 /\ wiring' = wiring
    <2>1. ClientsTyped'
      <3>1. clients' \in Seq(McpServers)
        BY <1>3, <1>4 DEF WiringSound, ClientsTyped
      <3>2. closed' \in [McpServers -> Nat]
        BY <1>2 DEF ZeroClosed
      <3>3. next' \in Nat
        BY <1>3, <1>4
      <3>4. cancelledLate' \in BOOLEAN
        BY <1>2
      <3> QED BY <3>1, <3>2, <3>3, <3>4 DEF ClientsTyped
    <2>2. \A n \in DOMAIN clients' : clients'[n] = IF n \in DOMAIN clients THEN clients[n] ELSE s
      BY <1>4 DEF WiringSound, ClientsTyped
    <2>3. DOMAIN clients' = 1 .. Len(clients) + 1 /\ DOMAIN clients = 1 .. Len(clients)
          /\ Len(clients) \in Nat /\ \A n \in DOMAIN clients : clients[n] \in Nat
      <3>1. clients \in Seq(McpServers) /\ clients \in Seq(Nat)
        BY CompositionsAssumption DEF WiringSound, ClientsTyped
      <3>2. clients' = Append(clients, s) /\ s \in Nat
        BY <1>3, <1>4
      <3> QED BY <3>1, <3>2
    <2>4. InOrder'
      BY <1>2, <1>3, <2>2, <2>3 DEF WiringSound, InOrder, Opening, ClientsTyped
    <2>5. \A n \in DOMAIN clients' : clients'[n] < next'
      BY <1>2, <1>3, <1>4, <2>2, <2>3 DEF WiringSound, Opening, ClientsTyped
    <2> QED BY <1>2, <1>4, <2>1, <2>4, <2>5 DEF WiringSound, Opening, Named
  <1>5. CASE /\ wiring' = IF clients = <<>> THEN "over" ELSE "close"
             /\ next' = 1 /\ clients' = clients
    <2>1. ClientsTyped' /\ InOrder'
      BY <1>2, <1>5 DEF WiringSound, ClientsTyped, InOrder, ZeroClosed
    <2>2. wiring' = "over" => EveryClientIsClosed'
      BY <1>2, <1>5 DEF EveryClientIsClosed, ZeroClosed
    <2>3. next' \in 1 .. Len(clients') + 1 /\ ClosedBefore(next)'
      BY <1>2, <1>5 DEF WiringSound, ClientsTyped, ClosedBefore, ZeroClosed
    <2> QED BY <1>5, <2>1, <2>2, <2>3 DEF WiringSound
  <1> QED BY <1>1, <1>4, <1>5

LEMMA RunSound == ASSUME WiringSound, AllBuilt \/ WorkflowEnds PROVE WiringSound'
  <1>1. CASE AllBuilt
    BY <1>1 DEF AllBuilt, WiringSound, ClientsTyped, InOrder, Opening
  <1>2. CASE WorkflowEnds
    <2>1. ClientsTyped' /\ InOrder' /\ wiring' = "close" /\ next' = 1 /\ closed' = ZeroClosed
      BY <1>2 DEF WorkflowEnds, WiringSound, ClientsTyped, InOrder, Opening
    <2>2. next' \in 1 .. Len(clients') + 1 /\ ClosedBefore(next)'
      BY <2>1 DEF ClientsTyped, ClosedBefore, ZeroClosed
    <2> QED BY <2>1, <2>2 DEF WiringSound
  <1> QED BY <1>1, <1>2

LEMMA DisconnectSound == ASSUME WiringSound, Disconnect PROVE WiringSound'
  <1>1. /\ wiring = "close" /\ wiring' = "close" /\ clients' = clients
        /\ next' = next + 1
        /\ closed' = [closed EXCEPT ![clients[next]] = @ + 1]
        /\ next \in DOMAIN clients /\ ClosedBefore(next)
    <2>1. wiring = "close" /\ wiring' = "close" /\ clients' = clients /\ next <= Len(clients)
      BY DEF Disconnect
    <2>2. /\ next' = next + 1
          /\ closed' = [closed EXCEPT ![clients[next]] = @ + 1]
      BY DEF Disconnect, ClosedHow
    <2>3. ClosedBefore(next)
      BY <2>1 DEF WiringSound
    <2>4. next \in DOMAIN clients
      <3>1. clients \in Seq(McpServers) /\ next \in 1 .. Len(clients) + 1
        BY <2>1 DEF WiringSound, ClientsTyped
      <3> QED BY <2>1, <3>1
    <2> QED BY <2>1, <2>2, <2>3, <2>4
  <1>2. clients[next] \in McpServers /\ closed[clients[next]] = 0
    <2>1. clients[next] \in McpServers
      BY <1>1 DEF WiringSound, ClientsTyped
    <2>2. \A n \in DOMAIN clients : n < next => clients[n] # clients[next]
      BY <1>1, <2>1, CompositionsAssumption DEF WiringSound, ClientsTyped, InOrder
    <2> QED BY <1>1, <2>1, <2>2 DEF ClosedBefore
  <1>3. ClientsTyped' /\ InOrder'
    <2>1. cancelledLate' \in BOOLEAN
      BY DEF Disconnect, ClosedHow
    <2> QED BY <1>1, <1>2, <2>1 DEF WiringSound, ClientsTyped, InOrder
  <1>4. ClosedBefore(next)'
    <2> SUFFICES ASSUME NEW s \in McpServers
                 PROVE  closed'[s] = IF \E n \in DOMAIN clients : n < next + 1 /\ clients[n] = s
                                     THEN 1 ELSE 0
      BY <1>1 DEF ClosedBefore
    <2>1. CASE s = clients[next]
      BY <1>1, <1>2, <2>1 DEF WiringSound, ClientsTyped
    <2>2. CASE s # clients[next]
      BY <1>1, <1>2, <2>2 DEF WiringSound, ClientsTyped, ClosedBefore
    <2> QED BY <2>1, <2>2
  <1> QED BY <1>1, <1>3, <1>4 DEF WiringSound, ClientsTyped

LEMMA AllClosedSound == ASSUME WiringSound, AllClosed PROVE WiringSound'
  <1>1. /\ wiring' = "over" /\ clients' = clients /\ closed' = closed
        /\ ClosedBefore(next) /\ next = Len(clients) + 1
        /\ cancelledLate' => ending' = "cancelled"
    BY DEF WiringSound, AllClosed, ClientsTyped
  <1>2. \A n \in DOMAIN clients : n < next
    BY <1>1 DEF WiringSound, ClientsTyped
  <1>3. EveryClientIsClosed'
    BY <1>1, <1>2 DEF ClosedBefore, EveryClientIsClosed
  <1> QED BY <1>1, <1>3 DEF AllClosed, WiringSound, ClientsTyped, InOrder

LEMMA WiringStaysSound ==
    ASSUME WiringSound, [ServiceNext]_serviceVars PROVE WiringSound'
  <1>1. WiringNext \/ UNCHANGED wiringVars
    BY DEF ServiceNext, serviceVars
  <1>2. CASE UNCHANGED wiringVars
    BY <1>2 DEF wiringVars, WiringSound, ClientsTyped, InOrder, Opening, ClosedBefore,
                EveryClientIsClosed, Named
  <1> QED BY <1>1, <1>2, ComposeSound, BuildSound, RunSound, DisconnectSound, AllClosedSound
          DEF WiringNext

(***************************************************************************)
(* Every client that was built was asked to disconnect exactly once when   *)
(* the command is over, however composition, run and disconnects end, for  *)
(* any servers (cli/mcp_composition.py).                                   *)
(***************************************************************************)
THEOREM ClientsAreClosed == ServicesSpec => []EveryClientIsClosed
  <1>1. WiringSound => EveryClientIsClosed
    BY DEF WiringSound, EveryClientIsClosed
  <1> QED BY <1>1, WiringStartsSound, WiringStaysSound, PTL DEF ServicesSpec
-----------------------------------------------------------------------------
(***************************************************************************)
(* The listener. What _consume has collected are the data lines of the     *)
(* block, and its type tells whether there is an event line among them,    *)
(* also in what is left when a connection breaks.                          *)
(***************************************************************************)
Line == [kind : {"data", "event", "comment", "id"}, line : Nat]

Increasing(d) == \A i, j \in DOMAIN d : i < j => d[i] < d[j]

Below(d, n) == \A i \in DOMAIN d : d[i] < n

Elements(d) == {d[i] : i \in DOMAIN d}

LinesOf(kind) == {block[i].line : i \in PlacesOf(kind)}

BlockSound ==
    /\ lines \in Nat
    /\ block \in Seq(Line)
    /\ data \in Seq(Nat) /\ Below(data, lines)
    /\ Increasing(data)
    /\ Elements(data) = LinesOf("data")
    /\ eventType = "named" <=> PlacesOf("event") # {}
    /\ listener = "calling" => event = [data |-> data, event |-> eventType]

LEMMA ListenerStartsSound == InitService => BlockSound
  <1> SUFFICES ASSUME NEW source, SSEStart(source) PROVE BlockSound
    BY DEF InitService, ServicesStart, SSEIdle
  <1>1. \A kind : PlacesOf(kind) = {}
    BY DEF SSEStart, PlacesOf
  <1>2. LinesOf("data") = {} /\ Elements(data) = {}
    BY <1>1 DEF SSEStart, LinesOf, Elements
  <1>3. data = <<>> /\ block = <<>> /\ Increasing(data) /\ Below(data, lines)
    BY DEF SSEStart, Increasing, Below
  <1>4. data \in Seq(Nat) /\ block \in Seq(Line)
    BY <1>3
  <1> QED BY <1>1, <1>2, <1>3, <1>4 DEF SSEStart, BlockSound

(* The block and what was collected of it are forgotten together. *)
LEMMA ForgetSound ==
    ASSUME lines' \in Nat, block' = <<>>, data' = <<>>, eventType' = "message",
           listener' # "calling"
    PROVE  BlockSound'
  <1>1. \A kind : PlacesOf(kind)' = {}
    BY DEF PlacesOf
  <1>2. LinesOf("data")' = {} /\ Elements(data') = {}
    BY <1>1 DEF LinesOf, Elements
  <1>3. Increasing(data') /\ Below(data', lines')
    BY DEF Increasing, Below
  <1>4. data' \in Seq(Nat) /\ block' \in Seq(Line)
    OBVIOUS
  <1> QED BY <1>1, <1>2, <1>3, <1>4 DEF BlockSound

(* Both are left alone. *)
LEMMA LeftAloneSound ==
    ASSUME BlockSound, UNCHANGED <<block, data, eventType>>,
           lines' \in {lines, lines + 1},
           listener' = "calling" => event' = [data |-> data, event |-> eventType]
    PROVE  BlockSound'
  <1>1. \A kind : PlacesOf(kind)' = PlacesOf(kind)
    BY DEF PlacesOf
  <1>2. LinesOf("data")' = LinesOf("data")
    BY <1>1 DEF LinesOf
  <1>3. lines \in Nat /\ lines' \in Nat /\ lines <= lines' /\ data \in Seq(Nat)
    BY DEF BlockSound
  <1>4. Below(data', lines')
    BY <1>3 DEF BlockSound, Below
  <1> QED BY <1>1, <1>2, <1>3, <1>4 DEF BlockSound

(* A line joins the block, and the data if it is one of them. *)
LEMMA LineReadSound ==
    ASSUME BlockSound, ReadLine PROVE BlockSound'
  <1>1. PICK kind \in {"data", "event", "comment", "id"} :
           /\ block' = Append(block, [kind |-> kind, line |-> lines])
           /\ data' = IF kind = "data" THEN Append(data, lines) ELSE data
           /\ eventType' = IF kind = "event" THEN "named" ELSE eventType
    BY DEF ReadLine
  <1>2. listener' # "calling" /\ lines' = lines + 1 /\ lines \in Nat
    BY DEF ReadLine, BlockSound
  <1> DEFINE n == Len(block) + 1
  <1>3. /\ DOMAIN block' = DOMAIN block \union {n} /\ n \notin DOMAIN block
        /\ block'[n] = [kind |-> kind, line |-> lines]
        /\ \A i \in DOMAIN block : block'[i] = block[i]
        /\ block' \in Seq(Line)
    <2>1. block \in Seq(Line) /\ [kind |-> kind, line |-> lines] \in Line
      BY <1>2 DEF BlockSound, Line
    <2> QED BY <1>1, <2>1
  <1> HIDE DEF n
  <1>4. \A k : PlacesOf(k)' = IF k = kind THEN PlacesOf(k) \union {n} ELSE PlacesOf(k)
    BY <1>3 DEF PlacesOf
  <1>5. LinesOf("data")' = IF kind = "data" THEN LinesOf("data") \union {lines}
                                            ELSE LinesOf("data")
    BY <1>3, <1>4 DEF LinesOf, PlacesOf
  <1>6. data \in Seq(Nat) /\ Below(data, lines)
    BY DEF BlockSound
  <1>7. data' \in Seq(Nat)
    BY <1>1, <1>2, <1>6
  <1>8. Increasing(data') /\ Below(data', lines') /\ Elements(data') = LinesOf("data")'
    <2>1. CASE kind # "data"
      BY <1>1, <1>2, <1>5, <1>6, <2>1 DEF BlockSound, Below
    <2>2. CASE kind = "data"
      <3> DEFINE m == Len(data) + 1
      <3>1. data' = Append(data, lines)
        BY <1>1, <2>2
      <3>2. /\ DOMAIN data' = DOMAIN data \union {m} /\ m \notin DOMAIN data
            /\ data'[m] = lines
            /\ \A i \in DOMAIN data : data'[i] = data[i] /\ data[i] \in Nat /\ i < m
            /\ m \in Nat
        BY <1>2, <1>6, <3>1
      <3> HIDE DEF m
      <3>3. Below(data', lines')
        BY <1>2, <1>6, <3>2 DEF Below
      <3>5. DOMAIN data \subseteq Nat
        BY <1>6
      <3>6. Increasing(data')
        BY <1>6, <3>2, <3>5 DEF Increasing, Below, BlockSound
      <3>4. Elements(data') = Elements(data) \union {lines}
        BY <3>2 DEF Elements
      <3> QED BY <1>5, <2>2, <3>3, <3>4, <3>6 DEF BlockSound
    <2> QED BY <2>1, <2>2
  <1>9. eventType' = "named" <=> PlacesOf("event")' # {}
    BY <1>1, <1>4 DEF BlockSound
  <1> QED BY <1>2, <1>3, <1>7, <1>8, <1>9 DEF BlockSound

LEMMA ListenerStaysSound ==
    ASSUME BlockSound, [ServiceNext]_serviceVars PROVE BlockSound'
  <1>1. SSENext \/ UNCHANGED sseVars
    BY DEF ServiceNext, serviceVars
  <1>2. CASE UNCHANGED sseVars
    BY <1>2, LeftAloneSound DEF sseVars, BlockSound
  <1>3. CASE Connect \/ Called
    BY <1>3, ForgetSound DEF Connect, Called, BlockSound
  <1>4. CASE \/ StartListening \/ Disconnected \/ CallbackFails \/ Reconnect \/ StopListening
    BY <1>4, LeftAloneSound
       DEF StartListening, Disconnected, CallbackFails, Reconnect, StopListening, Break
  <1>5. CASE ReadBlank
    <2>1. lines \in Nat /\ lines' = lines + 1
      BY <1>5 DEF ReadBlank, BlockSound
    <2>2. CASE data = <<>>
      BY <1>5, <2>1, <2>2, ForgetSound DEF ReadBlank
    <2>3. CASE data # <<>>
      BY <1>5, <2>1, <2>3, LeftAloneSound DEF ReadBlank
    <2> QED BY <2>2, <2>3
  <1> QED BY <1>1, <1>2, <1>3, <1>4, <1>5, LineReadSound DEF SSENext

(***************************************************************************)
(* An event that is handed over is made of all data lines of its block in  *)
(* the order they came, and named if one of the block's lines names it,    *)
(* after any lines, reconnections and failures of the callback             *)
(* (event_driven.py:517).                                                  *)
(***************************************************************************)
THEOREM EventsStayWhole == ServicesSpec => []EventsAreWhole
  <1>1. BlockSound => EventsAreWhole
    <2> SUFFICES ASSUME BlockSound, listener = "calling" PROVE EventsAreWhole
      BY DEF EventsAreWhole
    <2>1. event.data = data /\ event.event = eventType
      BY DEF BlockSound
    <2> QED BY <2>1 DEF BlockSound, EventsAreWhole, Increasing, Elements, LinesOf
  <1> QED BY <1>1, ListenerStartsSound, ListenerStaysSound, PTL DEF ServicesSpec
-----------------------------------------------------------------------------
(***************************************************************************)
(* The bridge. What the client has heard and what waits in the queue are   *)
(* together what the thread put, in that order.                            *)
(***************************************************************************)
Utterances == ({"text"} \X Nat) \union {Error}

HeardEvents ==
    [event : {"error"}]
    \union [event : {"done"}, session : {"given", "created", "none"}]
    \union [event : {"text_chunk"}, text : Utterances \union {NoText},
            session : {"created", "none"}]

QueueItems == Utterances \union {End}

EverPut == IF reader = "over" THEN Append(uttered, End) ELSE uttered

Taken == IF talk = "over" THEN Cardinality(TextPlaces) + 1 ELSE Cardinality(TextPlaces)

BridgeTyped ==
    /\ heard \in Seq(HeardEvents)
    /\ uttered \in Seq(Utterances)
    /\ bridge \in Seq(QueueItems)
    /\ session \in {"none", "given", "created"}
    /\ received \in Nat

(* The queue is what was put and not yet taken. *)
QueueIsRest ==
    /\ Len(EverPut) = Taken + Len(bridge)
    /\ \A j \in DOMAIN bridge : bridge[j] = EverPut[Taken + j]

HeardInOrder ==
    \A i \in TextPlaces : Place(i) \in DOMAIN uttered /\ heard[i].text = uttered[Place(i)]

DoneIsLast ==
    /\ \A i \in Dones : talk = "over" /\ i = Len(heard) /\ heard[i].session # "none"
    /\ talk = "over" => Cardinality(TextPlaces) = Len(uttered) /\ reader = "over"
    /\ talk \in {"get", "register", "asleep"} => session # "none"
    /\ talk \in {"fetch", "open"} => reader = "none"

BridgeSound == BridgeTyped /\ QueueIsRest /\ HeardInOrder /\ DoneIsLast

LEMMA UtterancesSpeak ==
    \A u \in Utterances : u # End /\ u # NoText
  BY DEF Utterances, Error, End, NoText

LEMMA TextsFinite ==
    ASSUME BridgeTyped
    PROVE  IsFiniteSet(TextPlaces) /\ Cardinality(TextPlaces) \in Nat
  <1>1. Len(heard) \in Nat /\ TextPlaces \subseteq 1 .. Len(heard)
    BY DEF BridgeTyped, TextPlaces
  <1>2. IsFiniteSet(1 .. Len(heard))
    BY <1>1, FS_Interval
  <1>3. IsFiniteSet(TextPlaces)
    BY <1>1, <1>2, FS_Subset
  <1> QED BY <1>3, FS_CardinalityType

LEMMA BridgeStartsSound == InitService => BridgeSound
  <1> SUFFICES ASSUME NEW place \in {"fetch", "idle"}, NEW id \in {"none", "given"},
                      BridgeStart(place, id)
               PROVE  BridgeSound
    BY DEF InitService, ServicesStart, BridgeIdle
  <1>1. heard = <<>> /\ uttered = <<>> /\ bridge = <<>> /\ talk = place /\ reader = "none"
        /\ session = id /\ received = 0
    BY DEF BridgeStart
  <1>2. TextPlaces = {} /\ Dones = {}
    BY <1>1 DEF TextPlaces, Dones
  <1>3. BridgeTyped
    BY <1>1 DEF BridgeTyped
  <1>4. QueueIsRest
    BY <1>1, <1>2, FS_EmptySet DEF QueueIsRest, Taken, EverPut
  <1> QED BY <1>1, <1>2, <1>3, <1>4 DEF BridgeSound, HeardInOrder, DoneIsLast

(* The client hears one more event. *)
LEMMA HearsOneMore ==
    ASSUME BridgeTyped, NEW e \in HeardEvents, heard' = Append(heard, e),
           NEW n, n = Len(heard) + 1
    PROVE  /\ heard' \in Seq(HeardEvents) /\ Len(heard') = n
           /\ \A i \in TextPlaces : heard'[i] = heard[i] /\ Place(i)' = Place(i)
           /\ \A i \in Dones' : i \in Dones \/ (i = n /\ heard'[i] = e)
           /\ e.event # "text_chunk" \/ e.text = NoText => TextPlaces' = TextPlaces
           /\ e.event = "text_chunk" /\ e.text # NoText =>
                 /\ TextPlaces' = TextPlaces \union {n}
                 /\ heard'[n] = e
                 /\ Cardinality(TextPlaces') = Cardinality(TextPlaces) + 1
                 /\ Place(n)' = Cardinality(TextPlaces) + 1
  <1>1. /\ DOMAIN heard' = DOMAIN heard \union {n} /\ n \notin DOMAIN heard
        /\ heard'[n] = e /\ \A i \in DOMAIN heard : heard'[i] = heard[i] /\ i < n /\ i \in Nat
        /\ heard' \in Seq(HeardEvents) /\ Len(heard') = n /\ n \in Nat
    BY DEF BridgeTyped
  <1>2. \A i \in DOMAIN heard : IsText(i)' = IsText(i)
    BY <1>1 DEF IsText
  <1>3. IsText(n)' <=> e.event = "text_chunk" /\ e.text # NoText
    BY <1>1 DEF IsText
  <1>4. TextPlaces \subseteq TextPlaces' /\ TextPlaces' \subseteq TextPlaces \union {n}
        /\ (n \in TextPlaces' <=> IsText(n)') /\ n \notin TextPlaces
    BY <1>1, <1>2 DEF TextPlaces
  <1>5. \A i \in TextPlaces : Place(i)' = Place(i)
    <2> TAKE i \in TextPlaces
    <2>1. i \in DOMAIN heard /\ i < n /\ i \in Nat
      BY <1>1 DEF TextPlaces
    <2>2. {j \in TextPlaces' : j <= i} = {j \in TextPlaces : j <= i}
      BY <1>1, <1>4, <2>1
    <2> QED BY <2>2 DEF Place
  <1>6. \A i \in Dones' : i \in Dones \/ (i = n /\ heard'[i] = e)
    BY <1>1 DEF Dones
  <1>7. CASE e.event # "text_chunk" \/ e.text = NoText
    <2>1. TextPlaces' = TextPlaces
      BY <1>3, <1>4, <1>7
    <2> QED BY <1>1, <1>5, <1>6, <1>7, <2>1 DEF TextPlaces
  <1>8. CASE e.event = "text_chunk" /\ e.text # NoText
    <2>1. TextPlaces' = TextPlaces \union {n} /\ n \notin TextPlaces
      BY <1>3, <1>4, <1>8
    <2>2. Cardinality(TextPlaces') = Cardinality(TextPlaces) + 1
      BY <2>1, TextsFinite, FS_AddElement
    <2>3. {j \in TextPlaces' : j <= n} = TextPlaces'
      BY <1>1, <2>1 DEF TextPlaces
    <2>4. Place(n)' = Cardinality(TextPlaces')
      BY <2>3 DEF Place
    <2> QED BY <1>1, <1>5, <1>6, <1>8, <2>1, <2>2, <2>4 DEF TextPlaces
  <1> QED BY <1>7, <1>8
(* What was put and what was heard stay as they are. *)
LEMMA BridgeLeftSound ==
    ASSUME BridgeSound, UNCHANGED <<heard, uttered, bridge>>, EverPut' = EverPut,
           session' \in {"none", "given", "created"}, received' \in Nat,
           \/ UNCHANGED <<talk, session, reader>>
           \/ talk # "over" /\ talk' \in {"open", "get", "register", "asleep", "gone"},
           talk' \in {"get", "register", "asleep"} => session' # "none",
           talk' = "open" => reader' = "none",
           talk' \in {"fetch", "over"} => UNCHANGED <<talk, reader>>
    PROVE  BridgeSound'
  <1>1. TextPlaces' = TextPlaces /\ Dones' = Dones /\ \A i : Place(i)' = Place(i')
    BY DEF TextPlaces, IsText, Dones, Place
  <1>2. BridgeTyped'
    BY DEF BridgeSound, BridgeTyped
  <1>3. Taken' = Taken
    BY <1>1 DEF Taken
  <1>4. QueueIsRest'
    BY <1>3 DEF BridgeSound, QueueIsRest
  <1>5. HeardInOrder'
    BY <1>1 DEF BridgeSound, HeardInOrder
  <1>6. DoneIsLast'
    BY <1>1 DEF BridgeSound, DoneIsLast
  <1> QED BY <1>2, <1>4, <1>5, <1>6 DEF BridgeSound

(* The thread puts an item. *)
LEMMA PutSound ==
    ASSUME BridgeSound, NEW item \in QueueItems, Put(item), talk # "over",
           EverPut' = Append(EverPut, item),
           uttered' \in Seq(Utterances), DOMAIN uttered \subseteq DOMAIN uttered',
           \A i \in DOMAIN uttered : uttered'[i] = uttered[i],
           talk \in {"fetch", "open"} => reader' = "none", received' \in Nat
    PROVE  BridgeSound'
  <1>1. /\ UNCHANGED <<heard, talk, session>> /\ bridge' = Append(bridge, item)
        /\ bridge \in Seq(QueueItems) /\ uttered \in Seq(Utterances)
    BY DEF Put, BridgeSound, BridgeTyped
  <1>2. TextPlaces' = TextPlaces /\ Dones' = Dones /\ \A i : Place(i)' = Place(i')
    BY <1>1 DEF TextPlaces, IsText, Dones, Place
  <1>3. Taken' = Taken /\ Taken \in Nat
    BY <1>1, <1>2, TextsFinite DEF Taken, BridgeSound
  <1>4. BridgeTyped'
    BY <1>1 DEF BridgeSound, BridgeTyped
  <1>5. EverPut \in Seq(QueueItems)
    <2>1. uttered \in Seq(QueueItems) /\ End \in QueueItems
      BY <1>1 DEF QueueItems
    <2> QED BY <2>1 DEF EverPut
  <1>6. QueueIsRest'
    <2> DEFINE put == EverPut
               k == Len(bridge)
               t == Taken
    <2>1. /\ Len(put) = t + k /\ t \in Nat /\ k \in Nat
          /\ put \in Seq(QueueItems) /\ EverPut' = Append(put, item)
          /\ \A j \in 1 .. k : bridge[j] = put[t + j]
      <3>1. bridge \in Seq(QueueItems) /\ DOMAIN bridge = 1 .. Len(bridge) /\ Len(bridge) \in Nat
        BY <1>1
      <3>2. QueueIsRest
        BY DEF BridgeSound
      <3> QED BY <1>3, <1>5, <3>1, <3>2 DEF QueueIsRest
    <2> HIDE DEF put, k, t
    <2>2. Len(Append(put, item)) = t + (k + 1)
      BY <2>1
    <2>3. /\ \A j \in 1 .. k : Append(put, item)[t + j] = put[t + j]
          /\ Append(put, item)[t + (k + 1)] = item
      <3>1. \A j \in 1 .. k : t + j \in 1 .. Len(put)
        BY <2>1
      <3>2. t + (k + 1) = Len(put) + 1
        BY <2>1
      <3>3. /\ \A i \in 1 .. Len(put) : Append(put, item)[i] = put[i]
            /\ Append(put, item)[Len(put) + 1] = item
        BY <2>1
      <3> QED BY <3>1, <3>2, <3>3
    <2>4. /\ Len(bridge') = k + 1 /\ DOMAIN bridge' = 1 .. k + 1
          /\ \A j \in 1 .. k : bridge'[j] = bridge[j]
          /\ bridge'[k + 1] = item
      BY <1>1 DEF k
    <2>5. \A j \in 1 .. k + 1 : j \in 1 .. k \/ j = k + 1
      BY <2>1
    <2>6. \A j \in DOMAIN bridge' : bridge'[j] = Append(put, item)[t + j]
      BY <2>1, <2>3, <2>4, <2>5
    <2>7. Taken' = t /\ EverPut' = Append(put, item)
      BY <1>3, <2>1 DEF t
    <2> QED BY <2>2, <2>4, <2>6, <2>7 DEF QueueIsRest
  <1>7. HeardInOrder'
    BY <1>1, <1>2 DEF BridgeSound, HeardInOrder
  <1>8. DoneIsLast'
    BY <1>1, <1>2 DEF BridgeSound, DoneIsLast
  <1> QED BY <1>4, <1>6, <1>7, <1>8 DEF BridgeSound

LEMMA ThreadSound ==
    ASSUME BridgeSound, ThreadNext PROVE BridgeSound'
  <1>1. reader \in {"stream", "ending", "failed"}
    BY DEF ThreadNext, StreamEvent, StreamFails, StreamEnds, RunFails, Sentinel
  <1>2. talk \notin {"over", "fetch", "open"} /\ uttered \in Seq(Utterances)
    BY <1>1 DEF BridgeSound, DoneIsLast, BridgeTyped
  <1>n. received' \in Nat
    BY DEF BridgeSound, BridgeTyped, ThreadNext, StreamEvent, StreamFails, StreamEnds, RunFails, Sentinel
  <1>3. ASSUME StaySilent, reader' \in {"stream", "ending"}
        PROVE  BridgeSound'
    <2>1. EverPut' = EverPut
      BY <1>1, <1>3 DEF EverPut, StaySilent
    <2>2. /\ UNCHANGED <<heard, uttered, bridge, talk, session>>
          /\ session \in {"none", "given", "created"}
          /\ talk \in {"get", "register", "asleep"} => session # "none"
      BY <1>3 DEF StaySilent, BridgeSound, BridgeTyped, DoneIsLast
    <2>3. UNCHANGED <<talk, session, reader>> \/ talk # "over"
      BY <1>2
    <2>4. TextPlaces' = TextPlaces /\ Dones' = Dones /\ \A i : Place(i)' = Place(i')
      BY <2>2 DEF TextPlaces, IsText, Dones, Place
    <2>5. BridgeTyped' /\ HeardInOrder' /\ DoneIsLast'
      BY <1>2, <1>n, <2>2, <2>4 DEF BridgeSound, BridgeTyped, HeardInOrder, DoneIsLast
    <2>6. Taken' = Taken
      BY <2>2, <2>4 DEF Taken
    <2>7. QueueIsRest'
      BY <2>1, <2>2, <2>6 DEF BridgeSound, QueueIsRest
    <2> QED BY <2>5, <2>7 DEF BridgeSound
  <1>4. ASSUME NEW text \in Utterances, Say(text), reader' \in {"stream", "ending", "failed"}
        PROVE  BridgeSound'
    <2>1. uttered' = Append(uttered, text) /\ Put(text) /\ text \in QueueItems
      BY <1>4 DEF Say, QueueItems
    <2>2. EverPut' = Append(EverPut, text)
      BY <1>1, <1>4, <2>1 DEF EverPut
    <2>3. /\ uttered' \in Seq(Utterances) /\ DOMAIN uttered \subseteq DOMAIN uttered'
          /\ \A i \in DOMAIN uttered : uttered'[i] = uttered[i]
      BY <1>2, <2>1
    <2> QED BY <1>2, <1>n, <2>1, <2>2, <2>3, PutSound
  <1>5. CASE StreamEvent
    <2>1. <<"text", received + 1>> \in Utterances \/ StaySilent
      <3>1. received \in Nat
        BY DEF BridgeSound, BridgeTyped
      <3> QED BY <3>1 DEF Utterances
    <2> QED BY <1>3, <1>4, <1>5, <2>1 DEF StreamEvent
  <1>6. CASE StreamFails
    BY <1>3, <1>4, <1>6 DEF StreamFails, Utterances
  <1>7. CASE StreamEnds
    BY <1>3, <1>7 DEF StreamEnds
  <1>8. CASE Sentinel
    <2>1. Put(End) /\ uttered' = uttered /\ End \in QueueItems /\ reader' = "over"
      BY <1>8 DEF Sentinel, QueueItems
    <2>2. EverPut' = Append(EverPut, End)
      BY <1>1, <2>1 DEF EverPut
    <2> QED BY <1>2, <1>n, <2>1, <2>2, PutSound
  <1>9. CASE RunFails
    BY <1>4, <1>9 DEF RunFails, Utterances
  <1> QED BY <1>5, <1>6, <1>7, <1>8, <1>9 DEF ThreadNext

(* An event without a text, other than the last one, is heard. *)
LEMMA AsideSound ==
    ASSUME BridgeSound, NEW e \in HeardEvents, heard' = Append(heard, e),
           e.event = "error" \/ (e.event = "text_chunk" /\ e.text = NoText),
           UNCHANGED <<uttered, bridge>>, EverPut' = EverPut,
           talk # "over", talk' \in {"get", "failed"}, received' \in Nat,
           session' \in {"none", "given", "created"}, talk' = "get" => session' # "none"
    PROVE  BridgeSound'
  <1> PICK n : n = Len(heard) + 1
    OBVIOUS
  <1>1. /\ heard' \in Seq(HeardEvents) /\ TextPlaces' = TextPlaces
        /\ \A i \in TextPlaces : heard'[i] = heard[i] /\ Place(i)' = Place(i)
        /\ \A i \in Dones' : i \in Dones \/ (i = n /\ heard'[i] = e)
    <2>1. BridgeTyped
      BY DEF BridgeSound
    <2>2. e.event # "text_chunk" \/ e.text = NoText
      OBVIOUS
    <2>3. /\ heard' \in Seq(HeardEvents)
          /\ \A i \in TextPlaces : heard'[i] = heard[i] /\ Place(i)' = Place(i)
          /\ \A i \in Dones' : i \in Dones \/ (i = n /\ heard'[i] = e)
      BY <2>1, HearsOneMore, Zenon
    <2>4. TextPlaces' = TextPlaces
      BY <2>1, <2>2, HearsOneMore, Zenon
    <2> QED BY <2>3, <2>4
  <1>2. Dones' = {}
    BY <1>1 DEF BridgeSound, DoneIsLast, Dones
  <1>3. BridgeTyped'
    BY <1>1 DEF BridgeSound, BridgeTyped
  <1>4. Taken' = Taken
    BY <1>1 DEF Taken
  <1>5. QueueIsRest'
    BY <1>4 DEF BridgeSound, QueueIsRest
  <1>6. HeardInOrder'
    BY <1>1 DEF BridgeSound, HeardInOrder
  <1>7. DoneIsLast'
    BY <1>2 DEF DoneIsLast
  <1> QED BY <1>3, <1>5, <1>6, <1>7 DEF BridgeSound

(* The head of the queue is the first that was put and not yet taken. *)
LEMMA GetSound ==
    ASSUME BridgeSound, Get, bridge # <<>> PROVE BridgeSound'
  <1> PICK n : n = Len(heard) + 1
    OBVIOUS
  <1>1. /\ bridge' = Tail(bridge) /\ talk = "get" /\ session # "none"
        /\ UNCHANGED <<session, reader, uttered, received>> /\ EverPut' = EverPut
        /\ Dones = {} /\ BridgeTyped
    BY DEF Get, threadVars, BridgeSound, DoneIsLast, EverPut
  <1>2. Taken = Cardinality(TextPlaces) /\ Taken \in Nat
    BY <1>1, TextsFinite DEF Taken
  <1>3. /\ Len(bridge) \in Nat \ {0} /\ Head(bridge) = bridge[1] /\ 1 \in DOMAIN bridge
        /\ Head(bridge) \in QueueItems /\ bridge' \in Seq(QueueItems)
        /\ Len(bridge') = Len(bridge) - 1
        /\ \A j \in DOMAIN bridge' : j + 1 \in DOMAIN bridge /\ bridge'[j] = bridge[j + 1] /\ j \in Nat
    BY <1>1 DEF BridgeTyped
  <1>4. /\ Len(EverPut) = Taken + Len(bridge)
        /\ \A j \in DOMAIN bridge : bridge[j] = EverPut[Taken + j]
    BY DEF BridgeSound, QueueIsRest
  <1>5. Head(bridge) = EverPut[Taken + 1] /\ Taken + 1 <= Len(EverPut)
    BY <1>2, <1>3, <1>4
  <1>6. uttered \in Seq(Utterances) /\ Len(uttered) \in Nat
        /\ \A i \in 1 .. Len(uttered) : uttered[i] \in Utterances
    BY <1>1 DEF BridgeTyped
  <1>7. /\ reader # "over" => EverPut = uttered
        /\ reader = "over" => /\ Len(EverPut) = Len(uttered) + 1
                              /\ EverPut[Len(uttered) + 1] = End
                              /\ \A i \in 1 .. Len(uttered) : EverPut[i] = uttered[i]
    <2>1. reader # "over" => EverPut = uttered
      BY DEF EverPut
    <2>2. CASE reader = "over"
      <3>1. EverPut = Append(uttered, End)
        BY <2>2 DEF EverPut
      <3>2. uttered \in Seq(QueueItems) /\ End \in QueueItems
        BY <1>6 DEF QueueItems
      <3> QED BY <2>2, <3>1, <3>2
    <2> QED BY <2>1, <2>2
  <1>8. ASSUME Taken' = Taken + 1
        PROVE  QueueIsRest'
    <2>1. Len(EverPut') = Taken' + Len(bridge')
      BY <1>1, <1>2, <1>3, <1>4, <1>8
    <2>2. ASSUME NEW j \in DOMAIN bridge'
          PROVE  bridge'[j] = EverPut'[Taken' + j]
      <3>1. bridge'[j] = EverPut[Taken + (j + 1)] /\ j \in Nat
        BY <1>3, <1>4, <2>2
      <3>2. Taken + (j + 1) = Taken' + j
        BY <1>2, <1>8, <3>1
      <3> QED BY <1>1, <3>1, <3>2
    <2> QED BY <2>1, <2>2 DEF QueueIsRest
  <1>9. CASE Head(bridge) = End
    <2>1. talk' = "over" /\ heard' = Append(heard, [event |-> "done", session |-> session])
      BY <1>9 DEF Get
    <2> DEFINE e == [event |-> "done", session |-> session]
    <2>2. e \in HeardEvents /\ e.event = "done" /\ e.session = session
      BY <1>1 DEF HeardEvents, BridgeTyped
    <2>3. heard' = Append(heard, e)
      BY <2>1
    <2> HIDE DEF e
    <2>4. /\ heard' \in Seq(HeardEvents) /\ TextPlaces' = TextPlaces /\ Len(heard') = n
          /\ \A i \in TextPlaces : heard'[i] = heard[i] /\ Place(i)' = Place(i)
          /\ \A i \in Dones' : i \in Dones \/ (i = n /\ heard'[i] = e)
      BY <1>1, <2>2, <2>3, HearsOneMore
    <2>5. reader = "over" /\ Cardinality(TextPlaces) = Len(uttered)
      <3>1. Taken + 1 \notin 1 .. Len(uttered) \/ EverPut[Taken + 1] # uttered[Taken + 1]
        BY <1>5, <1>6, <1>9, UtterancesSpeak
      <3>2. reader = "over"
        BY <1>2, <1>5, <1>6, <1>7, <3>1
      <3>3. Taken + 1 = Len(uttered) + 1
        BY <1>2, <1>5, <1>6, <1>7, <3>1, <3>2
      <3> QED BY <1>2, <1>6, <3>2, <3>3
    <2>6. Taken' = Taken + 1
      BY <1>2, <2>1, <2>4 DEF Taken
    <2>7. BridgeTyped'
      BY <1>1, <1>3, <2>4 DEF BridgeTyped
    <2>8. HeardInOrder'
      BY <1>1, <2>4 DEF BridgeSound, HeardInOrder
    <2>9. DoneIsLast'
      <3>1. \A i \in Dones' : i = Len(heard') /\ heard'[i].session # "none"
        BY <1>1, <2>2, <2>4
      <3>2. Cardinality(TextPlaces') = Len(uttered') /\ reader' = "over" /\ talk' = "over"
        BY <1>1, <2>1, <2>4, <2>5
      <3> QED BY <3>1, <3>2 DEF DoneIsLast
    <2> QED BY <1>8, <2>6, <2>7, <2>8, <2>9 DEF BridgeSound
  <1>10. CASE Head(bridge) # End
    <2>1. /\ talk' = "get"
          /\ heard' = Append(heard, [event |-> "text_chunk", text |-> Head(bridge),
                                     session |-> "none"])
      BY <1>1, <1>10 DEF Get
    <2> DEFINE e == [event |-> "text_chunk", text |-> Head(bridge), session |-> "none"]
    <2>2. Head(bridge) \in Utterances /\ Head(bridge) # NoText
      BY <1>3, <1>10, UtterancesSpeak DEF QueueItems
    <2>3. /\ e \in HeardEvents /\ e.event = "text_chunk" /\ e.text = Head(bridge)
          /\ heard' = Append(heard, e)
      BY <2>1, <2>2 DEF HeardEvents
    <2> HIDE DEF e
    <2>4. /\ heard' \in Seq(HeardEvents) /\ TextPlaces' = TextPlaces \union {n} /\ heard'[n] = e
          /\ \A i \in TextPlaces : heard'[i] = heard[i] /\ Place(i)' = Place(i)
          /\ \A i \in Dones' : i \in Dones \/ (i = n /\ heard'[i] = e)
          /\ Cardinality(TextPlaces') = Cardinality(TextPlaces) + 1
          /\ Place(n)' = Cardinality(TextPlaces) + 1
      BY <1>1, <2>2, <2>3, HearsOneMore
    <2>5. Taken' = Taken + 1
      BY <1>2, <2>1, <2>4 DEF Taken
    <2>6. Taken + 1 \in DOMAIN uttered /\ uttered[Taken + 1] = Head(bridge)
      BY <1>2, <1>5, <1>6, <1>7, <1>10
    <2>7. BridgeTyped'
      BY <1>1, <1>3, <2>4 DEF BridgeTyped
    <2>8. HeardInOrder'
      BY <1>1, <1>2, <2>3, <2>4, <2>6 DEF BridgeSound, HeardInOrder
    <2>9. DoneIsLast'
      <3>1. Dones' = {}
        BY <1>1, <2>3, <2>4 DEF Dones
      <3> QED BY <1>1, <2>1, <3>1 DEF DoneIsLast
    <2> QED BY <1>8, <2>5, <2>7, <2>8, <2>9 DEF BridgeSound
  <1> QED BY <1>9, <1>10

LEMMA TalkSound ==
    ASSUME BridgeSound, TalkNext \/ ClientLeaves PROVE BridgeSound'
  <1>1. /\ session \in {"none", "given", "created"} /\ received \in Nat
        /\ talk \in {"get", "register", "asleep"} => session # "none"
        /\ talk \in {"fetch", "open"} => reader = "none"
    BY DEF BridgeSound, BridgeTyped, DoneIsLast
  <1>2. CASE AgentFetched
    <2>1. UNCHANGED <<heard, uttered, bridge, received, session>> /\ talk = "fetch"
          /\ \/ talk' = "open" /\ reader' = reader /\ session = "none"
             \/ talk' = "get" /\ reader' = "stream" /\ session # "none"
      BY <1>2 DEF AgentFetched, StartThread, threadVars
    <2>2. EverPut' = EverPut
      BY <1>1, <2>1 DEF EverPut
    <2> QED BY <1>1, <2>1, <2>2, BridgeLeftSound
  <1>3. CASE SessionOpened
    <2> DEFINE e == [event |-> "text_chunk", text |-> NoText, session |-> "created"]
    <2>1. UNCHANGED <<uttered, bridge, received>> /\ talk = "open" /\ talk' = "get"
          /\ reader' = "stream" /\ session' = "created" /\ heard' = Append(heard, e)
      BY <1>3 DEF SessionOpened, StartThread
    <2>2. EverPut' = EverPut
      BY <1>1, <2>1 DEF EverPut
    <2>3. e \in HeardEvents /\ e.event = "text_chunk" /\ e.text = NoText
      BY DEF HeardEvents
    <2> HIDE DEF e
    <2> QED BY <1>1, <2>1, <2>2, <2>3, AsideSound
  <1>4. CASE TalkFails
    <2> DEFINE e == [event |-> "error"]
    <2>1. UNCHANGED <<uttered, bridge, received, reader, session>>
          /\ talk \in {"fetch", "open"} /\ talk' = "failed" /\ heard' = Append(heard, e)
      BY <1>4 DEF TalkFails, threadVars
    <2>2. EverPut' = EverPut
      BY <2>1 DEF EverPut
    <2>3. e \in HeardEvents /\ e.event = "error"
      BY DEF HeardEvents
    <2> HIDE DEF e
    <2> QED BY <1>1, <2>1, <2>2, <2>3, AsideSound
  <1>5. CASE Get /\ bridge # <<>>
    BY <1>5, GetSound
  <1>6. CASE (Get /\ bridge = <<>>) \/ Register \/ Wake \/ ClientLeaves
    <2>1. /\ UNCHANGED <<heard, uttered, received, reader, session>> /\ bridge' = bridge
          /\ \/ talk = "get" /\ talk' = "register"
             \/ talk = "register" /\ talk' = "asleep"
             \/ talk = "asleep" /\ talk' = "get"
             \/ talk # "over" /\ talk' = "gone"
      BY <1>6 DEF Get, Register, Wake, ClientLeaves, threadVars, TalkOver
    <2>2. EverPut' = EverPut
      BY <2>1 DEF EverPut
    <2> QED BY <1>1, <2>1, <2>2, BridgeLeftSound
  <1> QED BY <1>2, <1>3, <1>4, <1>5, <1>6 DEF TalkNext

LEMMA BridgeStaysSound ==
    BridgeSound /\ [ServiceNext]_serviceVars => BridgeSound'
  <1> SUFFICES ASSUME BridgeSound, [ServiceNext]_serviceVars PROVE BridgeSound'
    OBVIOUS
  <1>1. CASE BridgeNext
    BY <1>1, ThreadSound, TalkSound DEF BridgeNext
  <1>2. CASE UNCHANGED bridgeVars
    BY <1>2 DEF bridgeVars, BridgeSound, BridgeTyped, QueueIsRest, HeardInOrder, DoneIsLast,
                EverPut, Taken, TextPlaces, IsText, Place, Dones
  <1> QED BY <1>1, <1>2 DEF ServiceNext, serviceVars

(***************************************************************************)
(* The client of a chat hears the texts in the order the agent's thread    *)
(* put them in the queue of the other loop, and "done" only after the last *)
(* one, whatever the two loops and the client do in between                *)
(* (serve/agent_engine/adapter.py).                                        *)
(***************************************************************************)
THEOREM ChunksStayInOrder == ServicesSpec => []ChunksInOrder
  <1>1. BridgeSound => ChunksInOrder
    BY DEF BridgeSound, HeardInOrder, DoneIsLast, ChunksInOrder
  <1> QED BY <1>1, BridgeStartsSound, BridgeStaysSound, PTL DEF ServicesSpec

-----------------------------------------------------------------------------
(* Tool steps.                                                             *)

(* A step that waits for a server has what is left of its timeout.         *)
BudgetIsShared ==
    /\ spent \in Nat
    /\ where \in {"start", "discover", "validate", "call", "local", "over"}
    /\ where # "over" => request \in ToolRequests
    /\ where = "start" => spent = 0
    /\ where \in {"discover", "validate", "call"} => request.kind = "mcp"
    /\ where = "validate" => left = NoTimeout
    /\ where \in {"discover", "call"} =>
          IF request.timeout = NoTimeout THEN left = NoTimeout
          ELSE left = request.timeout - spent /\ left \in Nat

(* The timeout of a step that calls a server. *)
LEMMA TimeoutType ==
    ASSUME BudgetIsShared, where # "over", request.kind = "mcp"
    PROVE  request.timeout \in Nat \union {NoTimeout}
  BY ToolAssumption DEF BudgetIsShared

LEMMA StartIsShared == ToolStart => BudgetIsShared
  BY DEF ToolStart, BudgetIsShared

(* A step that ends keeps what it spent. *)
LEMMA RefusedIsShared ==
    ASSUME BudgetIsShared, NEW how, Refuse(how) PROVE BudgetIsShared'
  BY DEF BudgetIsShared, Refuse

(* An await begins with all that is left. *)
LEMMA AwaitIsShared ==
    ASSUME BudgetIsShared, where # "over", request.kind = "mcp",
           NEW place \in {"discover", "call"}, GoTo(place, Remaining),
           request.timeout = NoTimeout \/ Remaining >= 0
    PROVE  BudgetIsShared'
  <1>1. request.timeout \in Nat \union {NoTimeout} /\ spent \in Nat
    BY TimeoutType DEF BudgetIsShared
  <1>2. request' = request /\ spent' = spent /\ where' = place /\ left' = Remaining
    BY DEF GoTo
  <1>3. IF request'.timeout = NoTimeout THEN left' = NoTimeout
        ELSE left' = request'.timeout - spent' /\ left' \in Nat
    BY <1>1, <1>2 DEF Remaining, NoTimeout
  <1> QED BY <1>1, <1>2, <1>3 DEF BudgetIsShared

LEMMA StartMcpStep ==
    ASSUME BudgetIsShared, StartMcp PROVE BudgetIsShared'
  <1>1. where = "start" /\ request.kind = "mcp" /\ spent = 0
    BY DEF BudgetIsShared, StartMcp
  <1>2. request.timeout = NoTimeout \/ Remaining >= 0
    BY <1>1, TimeoutType DEF Remaining
  <1>3. CASE \E how \in {"no server", "not allowed", "unresolved", "no validator"} : Refuse(how)
    BY <1>3, RefusedIsShared
  <1>4. CASE \E place \in {"discover", "call"} : GoTo(place, Remaining)
    BY <1>1, <1>2, <1>4, AwaitIsShared
  <1>5. CASE GoTo("validate", NoTimeout)
    BY <1>1, <1>5 DEF BudgetIsShared, GoTo
  <1> QED BY <1>3, <1>4, <1>5 DEF StartMcp

LEMMA ValidatedStep ==
    ASSUME BudgetIsShared, Validated PROVE BudgetIsShared'
  <1>1. where = "validate" /\ request.kind = "mcp" /\ spent \in Nat
    BY DEF BudgetIsShared, Validated
  <1>2. CASE \E how \in {"not listed", "invalid arguments", "timed out"} : Refuse(how)
    BY <1>2, RefusedIsShared
  <1>3. CASE GoTo("call", Remaining) /\ (request.timeout = NoTimeout \/ ~(Remaining <= 0))
    <2>1. request.timeout = NoTimeout \/ Remaining >= 0
      BY <1>1, <1>3, TimeoutType DEF Remaining
    <2> QED BY <1>1, <1>3, <2>1, AwaitIsShared
  <1> QED BY <1>2, <1>3 DEF Validated

LEMMA TickStep ==
    ASSUME BudgetIsShared, Tick PROVE BudgetIsShared'
  <1>1. spent' = spent + 1 /\ spent \in Nat /\ where' = where /\ request' = request
        /\ where \in {"discover", "validate", "call", "local"}
    BY DEF BudgetIsShared, Tick
  <1>2. where = "validate" => left' = NoTimeout
    BY DEF BudgetIsShared, Tick
  <1>3. ASSUME where \in {"discover", "call"}
        PROVE  IF request.timeout = NoTimeout THEN left' = NoTimeout
               ELSE left' = request.timeout - spent' /\ left' \in Nat
    <2>1. request.timeout \in Nat \union {NoTimeout}
      BY <1>3, TimeoutType DEF BudgetIsShared
    <2> QED BY <1>1, <1>3, <2>1 DEF BudgetIsShared, Tick, NoTimeout
  <1> QED BY <1>1, <1>2, <1>3 DEF BudgetIsShared

LEMMA NextIsShared ==
    ASSUME BudgetIsShared, [ToolProgress \/ Tick]_toolVars PROVE BudgetIsShared'
  <1>1. CASE StartWithoutTool
    BY <1>1, RefusedIsShared DEF StartWithoutTool
  <1>2. CASE StartLocal
    <2>1. CASE \E how : Refuse(how)
      BY <2>1, RefusedIsShared
    <2>2. CASE \E limit : GoTo("local", limit)
      BY <1>2, <2>2 DEF BudgetIsShared, GoTo, StartLocal
    <2> QED BY <1>2, <2>1, <2>2 DEF StartLocal
  <1>3. CASE Discovered
    BY <1>3 DEF BudgetIsShared, Discovered
  <1>4. CASE LocalEnds \/ DiscoveryFails \/ CallEnds \/ TimesOut
    BY <1>4, RefusedIsShared DEF LocalEnds, DiscoveryFails, CallEnds, TimesOut
  <1>5. CASE NextStep
    BY <1>5 DEF NextStep, BudgetIsShared
  <1>6. CASE UNCHANGED toolVars
    BY <1>6 DEF toolVars, BudgetIsShared
  <1> QED BY <1>1, <1>2, <1>3, <1>4, <1>5, <1>6, StartMcpStep, ValidatedStep, TickStep
         DEF ToolProgress

(* However long discovery and validation took, a step never awaits a       *)
(* server longer than its timeout.                                         *)
THEOREM BudgetHolds == ToolSpec => []StepKeepsItsBudget
  <1>1. BudgetIsShared => StepKeepsItsBudget
    <2> SUFFICES ASSUME BudgetIsShared, where \in {"discover", "call"},
                        request.timeout # NoTimeout
                 PROVE  spent <= request.timeout
      BY DEF StepKeepsItsBudget
    <2>1. request.timeout \in Nat /\ spent \in Nat
      BY TimeoutType DEF BudgetIsShared
    <2>2. request.timeout - spent \in Nat
      BY DEF BudgetIsShared
    <2> QED BY <2>1, <2>2
  <1> QED BY <1>1, StartIsShared, NextIsShared, PTL DEF ToolSpec

-----------------------------------------------------------------------------
(* Guardrail steps.                                                        *)

(* Where data is under repair, its errors are its own; and a verdict is    *)
(* true when it is returned.                                               *)
RepairIsSound ==
    /\ VerdictTellsTheTruth
    /\ stage \in {"repair", "asked"} => lastErrors # "none"
    /\ stage # "over" => verdict.how = "none"

TrueVerdict(v) ==
    v.how = "returned" =>
        IF v.valid THEN Errors(v.data) = "none"
        ELSE v.errors # "none" /\ About(v.errors, v.data)

LEMMA EndsTruly ==
    ASSUME NEW v, TrueVerdict(v), EndGuard(v) PROVE RepairIsSound'
  <1>1. verdict' = v /\ stage' = "over" /\ check' = check
    BY DEF EndGuard
  <1>2. \A d : Errors(d)' = Errors(d)
    BY <1>1 DEF Errors
  <1>3. \A errors, d : About(errors, d)' <=> About(errors, d)
    BY <1>1, <1>2 DEF About
  <1>4. VerdictTellsTheTruth'
    BY <1>1, <1>2, <1>3 DEF VerdictTellsTheTruth, TrueVerdict
  <1> QED BY <1>1, <1>4 DEF RepairIsSound

LEMMA RaisedIsTrue == ASSUME NEW code, code # "returned" PROVE TrueVerdict(Raised(code))
  BY DEF TrueVerdict, Raised

LEMMA ValidIsTrue ==
    ASSUME NEW d, Errors(d) = "none" PROVE TrueVerdict(Returned(TRUE, d, "none"))
  BY DEF TrueVerdict, Returned

LEMMA InvalidIsTrue ==
    ASSUME NEW d, NEW errors, errors # "none", About(errors, d)
    PROVE  TrueVerdict(Returned(FALSE, d, errors))
  BY DEF TrueVerdict, Returned

(* Data goes to the next repair with the errors found in it. *)
LEMMA RepairGoesOn ==
    ASSUME RepairIsSound, stage # "over", check' = check, verdict' = verdict,
           stage' \in {"repair", "asked"}, lastErrors' # "none", About(lastErrors', lastData')
    PROVE  RepairIsSound'
  <1>1. \A d : Errors(d)' = Errors(d)
    BY DEF Errors
  <1>2. \A errors, d : About(errors, d)' <=> About(errors, d)
    BY <1>1 DEF About
  <1>3. verdict'.how = "none"
    BY DEF RepairIsSound
  <1>4. VerdictTellsTheTruth'
    BY <1>2, <1>3 DEF VerdictTellsTheTruth
  <1> QED BY <1>3, <1>4 DEF RepairIsSound

LEMMA CorrectIsTrue ==
    ASSUME Errors(check.data) # "none", check.strategy = "correct" PROVE TrueVerdict(Correct)
  <1> DEFINE d == check.data
             read == IF d \in Texts THEN Read(d) ELSE "nothing"
  <1>1. CASE read = "nothing"
    <2>1. Correct = Returned(FALSE, d, Errors(d))
      BY <1>1 DEF Correct
    <2> QED BY <2>1, InvalidIsTrue DEF About
  <1>2. CASE read # "nothing" /\ Errors(read) = "none"
    <2>1. Correct = Returned(TRUE, read, "none")
      BY <1>2 DEF Correct
    <2> QED BY <1>2, <2>1, ValidIsTrue
  <1>3. CASE read # "nothing" /\ Errors(read) # "none"
    <2>1. Correct = Returned(FALSE, d, Errors(read))
      BY <1>3 DEF Correct
    <2>2. d \in Texts /\ read = Read(d)
      BY <1>3
    <2>3. About(Errors(read), d)
      BY <2>2 DEF About
    <2> QED BY <1>3, <2>1, <2>3, InvalidIsTrue
  <1> QED BY <1>1, <1>2, <1>3

LEMMA ValidateStep ==
    ASSUME RepairIsSound, ValidateData PROVE RepairIsSound'
  <1> DEFINE d == check.data
  <1>1. stage = "start"
    BY DEF ValidateData
  <1>2. ASSUME NEW code \in {"missing config", "invalid strategy", "validation failed", "no provider"},
               EndGuard(Raised(code))
        PROVE  RepairIsSound'
    BY <1>2, RaisedIsTrue, EndsTruly
  <1>3. CASE Errors(d) = "none" /\ EndGuard(Returned(TRUE, d, "none"))
    BY <1>3, ValidIsTrue, EndsTruly
  <1>4. CASE Errors(d) # "none" /\ EndGuard(Returned(FALSE, d, Errors(d)))
    BY <1>4, InvalidIsTrue, EndsTruly DEF About
  <1>5. CASE Errors(d) # "none" /\ check.strategy = "correct" /\ EndGuard(Correct)
    BY <1>5, CorrectIsTrue, EndsTruly
  <1>6. CASE /\ Errors(d) # "none"
             /\ lastData' = d /\ lastErrors' = Errors(d) /\ stage' = "repair"
             /\ UNCHANGED <<check, attempt, verdict>>
    <2>1. About(lastErrors', lastData')
      BY <1>6 DEF About
    <2> QED BY <1>1, <1>6, <2>1, RepairGoesOn
  <1> QED BY <1>2, <1>3, <1>4, <1>5, <1>6 DEF ValidateData

LEMMA AskStep ==
    ASSUME RepairIsSound, AskForRepair PROVE RepairIsSound'
  <1>1. stage = "repair" /\ About(lastErrors, lastData) /\ lastErrors # "none"
    BY DEF AskForRepair, RepairIsSound, VerdictTellsTheTruth
  <1>2. CASE EndGuard(Returned(FALSE, lastData, lastErrors))
    BY <1>1, <1>2, InvalidIsTrue, EndsTruly
  <1>3. CASE EndGuard(Raised("TypeError"))
    BY <1>3, RaisedIsTrue, EndsTruly
  <1>4. CASE stage' = "asked" /\ UNCHANGED <<check, lastData, lastErrors, verdict>>
    BY <1>1, <1>4, RepairGoesOn
  <1> QED BY <1>2, <1>3, <1>4 DEF AskForRepair

LEMMA AnswerStep ==
    ASSUME RepairIsSound, RepairAnswered PROVE RepairIsSound'
  <1>1. stage = "asked"
    BY DEF RepairAnswered
  <1>2. CASE EndGuard(Raised("TypeError"))
    BY <1>2, RaisedIsTrue, EndsTruly
  <1>3. CASE \E content \in Texts : Read(content) # "nothing" /\ Repaired(content)
    <2>1. PICK content \in Texts : Read(content) # "nothing" /\ Repaired(content)
      BY <1>3
    <2> DEFINE read == Read(content)
    <2>2. CASE Errors(read) = "none"
      <3>1. EndGuard(Returned(TRUE, read, "none"))
        BY <2>1, <2>2 DEF Repaired
      <3> QED BY <2>2, <3>1, ValidIsTrue, EndsTruly
    <2>3. CASE Errors(read) # "none"
      <3>1. lastData' = read /\ lastErrors' = Errors(read) /\ stage' = "repair"
            /\ UNCHANGED <<check, attempt, verdict>>
        BY <2>1, <2>3 DEF Repaired
      <3>2. About(lastErrors', lastData')
        BY <3>1 DEF About
      <3> QED BY <1>1, <2>3, <3>1, <3>2, RepairGoesOn
    <2> QED BY <2>2, <2>3
  <1>4. CASE \E content \in Texts : Read(content) = "nothing" /\ NotJson(content)
    <2>1. PICK content \in Texts : Read(content) = "nothing" /\ NotJson(content)
      BY <1>4
    <2>2. lastData' = content /\ lastErrors' = "not JSON" /\ stage' = "repair"
          /\ UNCHANGED <<check, attempt, verdict>>
      BY <2>1 DEF NotJson
    <2>3. About(lastErrors', lastData')
      BY <2>1, <2>2 DEF About
    <2> QED BY <1>1, <2>2, <2>3, RepairGoesOn
  <1> QED BY <1>2, <1>3, <1>4 DEF RepairAnswered

LEMMA GuardStutters ==
    ASSUME RepairIsSound, UNCHANGED guardVars PROVE RepairIsSound'
  <1>1. UNCHANGED <<check, stage, lastData, lastErrors, verdict>>
    BY DEF guardVars
  <1>2. \A d : Errors(d)' = Errors(d)
    BY <1>1 DEF Errors
  <1>3. \A errors, d : About(errors, d)' <=> About(errors, d)
    BY <1>1, <1>2 DEF About
  <1>4. VerdictTellsTheTruth'
    BY <1>1, <1>2, <1>3 DEF RepairIsSound, VerdictTellsTheTruth
  <1> QED BY <1>1, <1>4 DEF RepairIsSound

(***************************************************************************)
(* Data a guardrail calls valid does validate, and the errors it reports,  *)
(* or has a model repair, are those of the data beside them: for every     *)
(* configuration, any number of repairs and whatever the model answers     *)
(* (guardrail.py:343).                                                     *)
(***************************************************************************)
THEOREM VerdictsAreTrue == GuardSpec => []VerdictTellsTheTruth
  <1>1. GuardStart => RepairIsSound
    BY DEF GuardStart, RepairIsSound, VerdictTellsTheTruth
  <1>2. ASSUME RepairIsSound, [GuardNext]_guardVars PROVE RepairIsSound'
    <2>1. CASE RepairFails
      BY <2>1, RaisedIsTrue, EndsTruly DEF RepairFails
    <2> QED BY <1>2, <2>1, ValidateStep, AskStep, AnswerStep, GuardStutters DEF GuardNext
  <1>3. RepairIsSound => VerdictTellsTheTruth
    BY DEF RepairIsSound
  <1> QED BY <1>1, <1>2, <1>3, PTL DEF GuardSpec
-----------------------------------------------------------------------------
(* Induction over the numbers, by the least counterexample: a set with 0   *)
(* in it, and with n also n + 1, has every one.                            *)
LEMMA Inductive ==
    ASSUME NEW S, S \subseteq Nat, 0 \in S, \A n \in Nat : n \in S => n + 1 \in S PROVE S = Nat
  <1> SUFFICES ASSUME S # Nat PROVE FALSE
    OBVIOUS
  <1>1. PICK n \in Nat \ S : \A m \in Nat \ S : n <= m
    BY LeastOf
  <1>2. n # 0 /\ n - 1 \in Nat
    BY <1>1
  <1>3. n - 1 \in S
    BY <1>1, <1>2
  <1> QED BY <1>1, <1>2, <1>3

(* A function defined by recursion on its argument exists.                 *)
Recurs(f, base, follow, n) ==
    f[0] = base /\ \A i \in 1 .. n : f[i] = follow[i][f[i - 1]]

(* The function that applies follow step by step exists.                   *)
LEMMA Recursion ==
    ASSUME NEW S, NEW base \in S, NEW n \in Nat, NEW follow \in [1 .. n -> [S -> S]]
    PROVE  \E f \in [0 .. n -> S] : Recurs(f, base, follow, n)
  <1> DEFINE Ok(f, k) == f[0] = base /\ \A i \in 1 .. k : f[i] = follow[i][f[i - 1]]
             Good == {k \in Nat : k <= n => \E f \in [0 .. k -> S] : Ok(f, k)}
  <1>1. 0 \in Good
    <2>1. Ok([i \in 0 .. 0 |-> base], 0) /\ [i \in 0 .. 0 |-> base] \in [0 .. 0 -> S]
      OBVIOUS
    <2> QED BY <2>1
  <1>2. ASSUME NEW k \in Nat, k \in Good PROVE k + 1 \in Good
    <2> SUFFICES ASSUME k + 1 <= n PROVE \E f \in [0 .. k + 1 -> S] : Ok(f, k + 1)
      OBVIOUS
    <2>1. PICK f \in [0 .. k -> S] : Ok(f, k)
      BY <1>2
    <2> DEFINE g == [i \in 0 .. k + 1 |-> IF i = k + 1 THEN follow[k + 1][f[k]] ELSE f[i]]
    <2>2. k + 1 \in 1 .. n /\ k \in 0 .. k
      OBVIOUS
    <2>3. follow[k + 1] \in [S -> S] /\ f[k] \in S
      BY <2>2
    <2>4. follow[k + 1][f[k]] \in S
      BY <2>3
    <2>5. g \in [0 .. k + 1 -> S]
      <3>1. ASSUME NEW i \in 0 .. k + 1 PROVE g[i] \in S
        BY <2>4, <3>1
      <3> QED BY <3>1
    <2>6. Ok(g, k + 1)
      <3>1. g[0] = base
        BY <2>1
      <3>2. ASSUME NEW i \in 1 .. k + 1 PROVE g[i] = follow[i][g[i - 1]]
        <4>1. CASE i = k + 1
          BY <4>1
        <4>2. CASE i \in 1 .. k
          <5>1. f[i] = follow[i][f[i - 1]]
            BY <2>1, <4>2
          <5>2. g[i] = f[i] /\ g[i - 1] = f[i - 1]
            BY <4>2
          <5> QED BY <5>1, <5>2
        <4> QED BY <4>1, <4>2
      <3> QED BY <3>1, <3>2
    <2> HIDE DEF g, Ok
    <2> QED BY <2>5, <2>6
  <1>3. Good = Nat
    <2>1. Good \subseteq Nat
      OBVIOUS
    <2> HIDE DEF Good
    <2> QED BY <1>1, <1>2, <2>1, Inductive
  <1>4. n \in Good
    BY <1>3
  <1> QED BY <1>4 DEF Recurs

(* Some is all without the messages that place leaves out.                 *)
Picks(place, some, all) ==
    /\ place \in [1 .. Len(some) -> 1 .. Len(all)]
    /\ \A i, j \in 1 .. Len(some) : i < j => place[i] < place[j]
    /\ \A i \in 1 .. Len(some) : some[i] = all[place[i]]

PartUpTo(f, seq, keep) ==
    f = [i \in 0 .. Len(seq) |->
           IF i = 0 THEN <<>>
           ELSE IF i \in keep THEN Append(f[i - 1], seq[i]) ELSE f[i - 1]]

(* Part is the function it is defined by, at the last position.            *)
LEMMA PartRecursion ==
    ASSUME NEW S, NEW seq \in Seq(S), NEW keep
    PROVE  \E f : /\ f[0] = <<>>
                  /\ \A i \in 1 .. Len(seq) :
                        f[i] = IF i \in keep THEN Append(f[i - 1], seq[i]) ELSE f[i - 1]
                  /\ Part(seq, keep) = f[Len(seq)]
  <1> DEFINE n == Len(seq)
             T == Seq(S)
             follow == [i \in 1 .. n |-> [x \in T |-> IF i \in keep THEN Append(x, seq[i]) ELSE x]]
             base == <<>>
  <1>1. n \in Nat /\ base \in T
    OBVIOUS
  <1>2. follow \in [1 .. n -> [T -> T]]
    <2>1. ASSUME NEW i \in 1 .. n, NEW x \in T
          PROVE  (IF i \in keep THEN Append(x, seq[i]) ELSE x) \in T
      OBVIOUS
    <2> QED BY <2>1
  <1>3. PICK g \in [0 .. n -> T] : Recurs(g, base, follow, n)
    <2> HIDE DEF follow, T, n, base
    <2> QED BY <1>1, <1>2, Recursion
  <1>4. g[0] = base /\ \A i \in 1 .. n : g[i] = follow[i][g[i - 1]]
    BY <1>3 DEF Recurs
  <1>5. PartUpTo(g, seq, keep)
    <2>1. ASSUME NEW i \in 0 .. n
          PROVE  g[i] = IF i = 0 THEN <<>>
                        ELSE IF i \in keep THEN Append(g[i - 1], seq[i]) ELSE g[i - 1]
      <3>1. CASE i = 0
        BY <1>4, <3>1
      <3>2. CASE i \in 1 .. n
        <4>1. i - 1 \in 0 .. n
          BY <3>2
        <4>2. g[i - 1] \in T
          BY <4>1
        <4>3. g[i] = follow[i][g[i - 1]]
          BY <1>4, <3>2
        <4>4. follow[i][g[i - 1]] = IF i \in keep THEN Append(g[i - 1], seq[i]) ELSE g[i - 1]
          BY <3>2, <4>2
        <4> QED BY <3>2, <4>3, <4>4
      <3> QED BY <3>1, <3>2
    <2>2. g = [i \in 0 .. n |-> g[i]]
      OBVIOUS
    <2> QED BY <2>1, <2>2, Zenon DEF PartUpTo
  <1> DEFINE f == CHOOSE g1 : PartUpTo(g1, seq, keep)
  <1>6. PartUpTo(f, seq, keep)
    BY <1>5, Zenon
  <1>7. Part(seq, keep) = f[n]
    BY Zenon DEF Part, PartUpTo
  <1>8. f[0] = <<>> /\ \A i \in 1 .. n : f[i] = IF i \in keep THEN Append(f[i - 1], seq[i]) ELSE f[i - 1]
    <2> HIDE DEF f
    <2>1. ASSUME NEW i \in 0 .. n
          PROVE  f[i] = IF i = 0 THEN <<>> ELSE IF i \in keep THEN Append(f[i - 1], seq[i]) ELSE f[i - 1]
      BY <1>6, Zenon DEF PartUpTo
    <2> QED BY <1>1, <2>1
  <1> QED BY <1>7, <1>8

(* What a part has from the first n positions is a pick of them.           *)
LEMMA PartIsPicked ==
    ASSUME NEW S, NEW seq \in Seq(S), NEW keep
    PROVE  /\ Part(seq, keep) \in Seq(S)
           /\ \E place : /\ Picks(place, Part(seq, keep), seq)
                         /\ \A i \in 1 .. Len(Part(seq, keep)) : place[i] \in keep
                         /\ \A k \in keep \intersect (1 .. Len(seq)) :
                               \E i \in 1 .. Len(Part(seq, keep)) : place[i] = k
  <1> DEFINE n == Len(seq)
  <1>1. PICK f : /\ f[0] = <<>>
                 /\ \A i \in 1 .. n : f[i] = IF i \in keep THEN Append(f[i - 1], seq[i]) ELSE f[i - 1]
                 /\ Part(seq, keep) = f[n]
    BY PartRecursion, Zenon
  <1>2. f[0] = <<>> /\ \A i \in 1 .. n : f[i] = IF i \in keep THEN Append(f[i - 1], seq[i]) ELSE f[i - 1]
    BY <1>1, Zenon
  <1> DEFINE Chosen(k, place) ==
                 /\ place \in [1 .. Len(f[k]) -> 1 .. k]
                 /\ \A i, j \in 1 .. Len(f[k]) : i < j => place[i] < place[j]
                 /\ \A i \in 1 .. Len(f[k]) : f[k][i] = seq[place[i]]
                 /\ \A i \in 1 .. Len(f[k]) : place[i] \in keep
                 /\ \A p \in keep \intersect (1 .. k) : \E i \in 1 .. Len(f[k]) : place[i] = p
             Good == {k \in Nat : k <= n => f[k] \in Seq(S) /\ \E place : Chosen(k, place)}
  <1>3. 0 \in Good
    <2>1. f[0] \in Seq(S)
      BY <1>2
    <2>2. Chosen(0, <<>>)
      BY <1>2
    <2> QED BY <2>1, <2>2
  <1>4. ASSUME NEW k \in Nat, k \in Good PROVE k + 1 \in Good
    <2> SUFFICES ASSUME k + 1 <= n PROVE f[k + 1] \in Seq(S) /\ \E place : Chosen(k + 1, place)
      OBVIOUS
    <2>1. f[k] \in Seq(S) /\ k + 1 \in 1 .. n /\ n \in Nat
      BY <1>4
    <2>2. PICK place : Chosen(k, place)
      BY <1>4
    <2>3. CASE k + 1 \notin keep
      <3>1. f[k + 1] = f[k]
        BY <1>2, <2>1, <2>3
      <3>2. Chosen(k + 1, place)
        BY <2>1, <2>2, <2>3, <3>1
      <3> QED BY <2>1, <3>1, <3>2
    <2>4. CASE k + 1 \in keep
      <3>1. f[k + 1] = Append(f[k], seq[k + 1])
        <4>1. (k + 1) - 1 = k
          OBVIOUS
        <4> QED BY <1>2, <2>1, <2>4, <4>1
      <3>2. f[k + 1] \in Seq(S) /\ Len(f[k + 1]) = Len(f[k]) + 1
        BY <2>1, <3>1
      <3> DEFINE m == Len(f[k])
                 more == [i \in 1 .. m + 1 |-> IF i = m + 1 THEN k + 1 ELSE place[i]]
      <3>3. m \in Nat /\ f[k + 1][m + 1] = seq[k + 1] /\ \A i \in 1 .. m : f[k + 1][i] = f[k][i]
        BY <2>1, <3>1
      <3>4. \A i \in 1 .. m : place[i] \in 1 .. k /\ more[i] = place[i]
        BY <2>2, <3>3
      <3>5. more[m + 1] = k + 1
        BY <3>3
      <3> HIDE DEF m
      <3>6. more \in [1 .. m + 1 -> 1 .. k + 1]
        <4> SUFFICES ASSUME NEW i \in 1 .. m + 1 PROVE more[i] \in 1 .. k + 1
          OBVIOUS
        <4>1. CASE i = m + 1
          BY <3>5, <4>1
        <4>2. CASE i \in 1 .. m
          <5>1. place[i] \in 1 .. k /\ more[i] = place[i]
            BY <3>4, <4>2
          <5> HIDE DEF more
          <5> QED BY <2>1, <5>1
        <4> QED BY <3>3, <4>1, <4>2
      <3>7. \A i, j \in 1 .. m + 1 : i < j => more[i] < more[j]
        <4> SUFFICES ASSUME NEW i \in 1 .. m + 1, NEW j \in 1 .. m + 1, i < j
                     PROVE  more[i] < more[j]
          BY Zenon
        <4>1. CASE j = m + 1
          <5>1. i \in 1 .. m
            BY <3>3, <4>1
          <5>2. more[i] \in 1 .. k /\ more[j] = k + 1
            BY <3>4, <3>5, <4>1, <5>1
          <5> HIDE DEF more
          <5> QED BY <5>2
        <4>2. CASE j \in 1 .. m
          <5>1. i \in 1 .. m
            BY <3>3, <4>2
          <5>2. place[i] < place[j]
            BY <2>2, <4>2, <5>1 DEF m
          <5> QED BY <3>4, <4>2, <5>1, <5>2
        <4> QED BY <3>3, <4>1, <4>2
      <3>8. \A i \in 1 .. m + 1 : f[k + 1][i] = seq[more[i]] /\ more[i] \in keep
        <4> SUFFICES ASSUME NEW i \in 1 .. m + 1 PROVE f[k + 1][i] = seq[more[i]] /\ more[i] \in keep
          BY Zenon
        <4>1. CASE i = m + 1
          BY <2>4, <3>3, <3>5, <4>1
        <4>2. CASE i \in 1 .. m
          <5>1. f[k][i] = seq[place[i]] /\ place[i] \in keep
            BY <2>2, <4>2 DEF m
          <5> QED BY <3>3, <3>4, <4>2, <5>1
        <4> QED BY <3>3, <4>1, <4>2
      <3>9. \A p \in keep \intersect (1 .. k + 1) : \E i \in 1 .. m + 1 : more[i] = p
        <4> SUFFICES ASSUME NEW p \in keep \intersect (1 .. k + 1) PROVE \E i \in 1 .. m + 1 : more[i] = p
          BY Zenon
        <4>1. CASE p = k + 1
          BY <3>3, <3>5, <4>1
        <4>2. CASE p \in 1 .. k
          <5>1. PICK i \in 1 .. m : place[i] = p
            BY <2>2, <4>2 DEF m
          <5> QED BY <3>3, <3>4, <5>1
        <4> QED BY <4>1, <4>2
      <3>10. Len(f[k + 1]) = m + 1
        BY <3>2 DEF m
      <3> HIDE DEF more
      <3>11. Chosen(k + 1, more)
        BY <3>6, <3>7, <3>8, <3>9, <3>10, Zenon
      <3> QED BY <3>2, <3>11
    <2> QED BY <2>3, <2>4
  <1>5. Good = Nat
    <2>1. Good \subseteq Nat
      OBVIOUS
    <2> HIDE DEF Good
    <2> QED BY <1>3, <1>4, <2>1, Inductive
  <1>6. n \in Nat /\ n \in Good
    BY <1>5
  <1>7. f[n] \in Seq(S) /\ \E place : Chosen(n, place)
    <2> HIDE DEF Chosen
    <2> QED BY <1>6
  <1>8. PICK place : Chosen(n, place)
    BY <1>7, Zenon
  <1>9. Picks(place, f[n], seq)
    BY <1>8 DEF Picks
  <1>10. /\ \A i \in 1 .. Len(f[n]) : place[i] \in keep
         /\ \A p \in keep \intersect (1 .. Len(seq)) : \E i \in 1 .. Len(f[n]) : place[i] = p
    BY <1>8
  <1>11. Part(seq, keep) = f[n]
    BY <1>1
  <1> HIDE DEF Chosen, Good
  <1> QED BY <1>7, <1>9, <1>10, <1>11, Zenon

(* So is Tokens.                                                           *)
LEMMA TokensRecursion ==
    ASSUME NEW list \in Seq(Messages)
    PROVE  \E f : /\ f[0] = 0
                  /\ \A i \in 1 .. Len(list) : f[i] = f[i - 1] + list[i].cost
                  /\ Tokens(list) = f[Len(list)]
  <1> DEFINE n == Len(list)
             follow == [i \in 1 .. n |-> [x \in Nat |-> x + list[i].cost]]
             Sums(f) == f = [i \in 0 .. n |-> IF i = 0 THEN 0 ELSE f[i - 1] + list[i].cost]
  <1>1. n \in Nat /\ 0 \in Nat
    OBVIOUS
  <1>2. ASSUME NEW i \in 1 .. n PROVE list[i].cost \in Nat
    <2>1. list[i] \in Messages
      OBVIOUS
    <2> QED BY <2>1 DEF Messages
  <1>3. follow \in [1 .. n -> [Nat -> Nat]]
    <2>1. ASSUME NEW i \in 1 .. n, NEW x \in Nat PROVE x + list[i].cost \in Nat
      <3>1. list[i].cost \in Nat
        BY <1>2
      <3> QED BY <3>1
    <2> QED BY <2>1
  <1>4. PICK g \in [0 .. n -> Nat] : Recurs(g, 0, follow, n)
    <2> HIDE DEF follow, n
    <2> QED BY <1>1, <1>3, Recursion
  <1>5. Sums(g)
    <2>1. ASSUME NEW i \in 0 .. n PROVE g[i] = IF i = 0 THEN 0 ELSE g[i - 1] + list[i].cost
      <3>1. CASE i = 0
        BY <1>4, <3>1 DEF Recurs
      <3>2. CASE i \in 1 .. n
        <4>1. g[i] = follow[i][g[i - 1]]
          BY <1>4, <3>2 DEF Recurs
        <4>2. i - 1 \in 0 .. n
          BY <3>2
        <4>3. g[i - 1] \in Nat
          BY <4>2
        <4> QED BY <3>2, <4>1, <4>3
      <3> QED BY <3>1, <3>2
    <2>2. g = [i \in 0 .. n |-> g[i]]
      OBVIOUS
    <2> QED BY <2>1, <2>2, Zenon
  <1> DEFINE f == CHOOSE s : Sums(s)
  <1>6. Sums(f)
    <2> HIDE DEF Sums
    <2> QED BY <1>5, Zenon
  <1>7. Tokens(list) = f[n]
    BY Zenon DEF Tokens
  <1>8. f[0] = 0 /\ \A i \in 1 .. n : f[i] = f[i - 1] + list[i].cost
    <2> HIDE DEF f
    <2>1. ASSUME NEW i \in 0 .. n
          PROVE  f[i] = IF i = 0 THEN 0 ELSE f[i - 1] + list[i].cost
      BY <1>6, Zenon
    <2> QED BY <1>1, <2>1
  <1> QED BY <1>7, <1>8

(* The tokens of two parts of a conversation add up.                       *)
LEMMA TokensAddUp ==
    ASSUME NEW some \in Seq(Messages), NEW more \in Seq(Messages)
    PROVE  /\ Tokens(some) \in Nat
           /\ Tokens(more) \in Nat
           /\ Tokens(some \o more) = Tokens(some) + Tokens(more)
  <1> DEFINE m == Len(some)
             n == Len(more)
             all == some \o more
  <1>1. m \in Nat /\ n \in Nat /\ all \in Seq(Messages) /\ Len(all) = m + n
    OBVIOUS
  <1>2. PICK f : f[0] = 0 /\ (\A i \in 1 .. m : f[i] = f[i - 1] + some[i].cost) /\ Tokens(some) = f[m]
    BY TokensRecursion, Zenon
  <1>3. PICK g : g[0] = 0 /\ (\A i \in 1 .. n : g[i] = g[i - 1] + more[i].cost) /\ Tokens(more) = g[n]
    BY TokensRecursion, Zenon
  <1>4. PICK h : h[0] = 0 /\ (\A i \in 1 .. m + n : h[i] = h[i - 1] + all[i].cost) /\ Tokens(all) = h[m + n]
    <2> HIDE DEF all, m, n
    <2> QED BY <1>1, TokensRecursion
  <1>5. /\ \A i \in 1 .. m : all[i] = some[i] /\ some[i].cost \in Nat
        /\ \A i \in 1 .. n : all[m + i] = more[i] /\ more[i].cost \in Nat
    <2>1. ASSUME NEW i \in 1 .. m PROVE all[i] = some[i] /\ some[i].cost \in Nat
      <3>1. some[i] \in Messages
        OBVIOUS
      <3> QED BY <3>1 DEF Messages
    <2>2. ASSUME NEW i \in 1 .. n PROVE all[m + i] = more[i] /\ more[i].cost \in Nat
      <3>1. more[i] \in Messages
        OBVIOUS
      <3> QED BY <3>1 DEF Messages
    <2> QED BY <2>1, <2>2
  <1> HIDE DEF all, m, n
  <1> DEFINE First == {k \in Nat : k <= m => f[k] \in Nat /\ h[k] = f[k]}
             Second == {k \in Nat : k <= n => g[k] \in Nat /\ h[m + k] = f[m] + g[k]}
  <1>6. First = Nat
    <2>1. First \subseteq Nat /\ 0 \in First
      BY <1>2, <1>4
    <2>2. ASSUME NEW k \in Nat, k \in First PROVE k + 1 \in First
      <3> SUFFICES ASSUME k + 1 <= m PROVE f[k + 1] \in Nat /\ h[k + 1] = f[k + 1]
        OBVIOUS
      <3>1. k + 1 \in 1 .. m /\ k + 1 \in 1 .. m + n /\ (k + 1) - 1 = k
        BY <1>1
      <3>2. f[k + 1] = f[k] + some[k + 1].cost /\ h[k + 1] = h[k] + all[k + 1].cost
        BY <1>2, <1>4, <3>1
      <3>3. f[k] \in Nat /\ h[k] = f[k]
        BY <1>1, <2>2
      <3>4. all[k + 1] = some[k + 1] /\ some[k + 1].cost \in Nat
        BY <1>5, <3>1
      <3> HIDE DEF First
      <3> QED BY <3>2, <3>3, <3>4
    <2> HIDE DEF First
    <2> QED BY <2>1, <2>2, Inductive
  <1>7. f[m] \in Nat /\ h[m] = f[m]
    <2>1. m \in First
      BY <1>1, <1>6
    <2> QED BY <1>1, <2>1
  <1>8. Second = Nat
    <2>1. Second \subseteq Nat /\ 0 \in Second
      BY <1>1, <1>3, <1>7
    <2>2. ASSUME NEW k \in Nat, k \in Second PROVE k + 1 \in Second
      <3> SUFFICES ASSUME k + 1 <= n PROVE g[k + 1] \in Nat /\ h[m + (k + 1)] = f[m] + g[k + 1]
        OBVIOUS
      <3>1. /\ k + 1 \in 1 .. n /\ m + (k + 1) \in 1 .. m + n
            /\ (k + 1) - 1 = k /\ (m + (k + 1)) - 1 = m + k
        BY <1>1
      <3>2. g[k + 1] = g[k] + more[k + 1].cost /\ h[m + (k + 1)] = h[m + k] + all[m + (k + 1)].cost
        BY <1>3, <1>4, <3>1
      <3>3. all[m + (k + 1)] = more[k + 1] /\ more[k + 1].cost \in Nat
        BY <1>5, <3>1
      <3>4. g[k] \in Nat /\ h[m + k] = f[m] + g[k]
        BY <1>1, <2>2
      <3> HIDE DEF Second
      <3> QED BY <1>7, <3>2, <3>3, <3>4
    <2> HIDE DEF Second
    <2> QED BY <2>1, <2>2, Inductive
  <1>9. g[n] \in Nat /\ h[m + n] = f[m] + g[n]
    <2>1. n \in Second
      BY <1>1, <1>8
    <2> QED BY <1>1, <2>1
  <1> QED BY <1>2, <1>3, <1>4, <1>7, <1>9 DEF all

-----------------------------------------------------------------------------
(* A conversation in which every call has its answers, and no other has.   *)
Whole(list) ==
    /\ list \in Seq(Messages)
    /\ WellFormed(list)
    /\ \A i \in 1 .. Len(list) : list[i].role = "tool" => \E id \in Nat : list[i].ids = {id}
    /\ \A i, j \in 1 .. Len(list) :
          (MakesCalls(list[i]) /\ MakesCalls(list[j]) /\ i # j) =>
              list[i].ids \intersect list[j].ids = {}

(* What is picked with a call and with an answer.                          *)
KeepsPairs(place, some, all) ==
    \A i \in 1 .. Len(some) :
        /\ all[place[i]].role = "tool" =>
              \A j \in 1 .. place[i] - 1 :
                  (MakesCalls(all[j]) /\ all[place[i]].ids \subseteq all[j].ids
                     /\ \A k \in j + 1 .. place[i] - 1 : all[k].role = "tool") =>
                      \E h \in 1 .. Len(some) : place[h] = j
        /\ MakesCalls(all[place[i]]) =>
              \A j \in place[i] + 1 .. Len(all) :
                  (all[j].role = "tool" /\ all[j].ids \subseteq all[place[i]].ids) =>
                      \E h \in 1 .. Len(some) : place[h] = j

(* Picked positions keep their order, read backwards.                      *)
LEMMA PicksAreOrdered ==
    ASSUME NEW some, NEW all, Len(some) \in Nat, Len(all) \in Nat, NEW place, Picks(place, some, all),
           NEW i \in 1 .. Len(some), NEW j \in 1 .. Len(some), place[i] < place[j]
    PROVE  i < j
  <1> SUFFICES ASSUME ~(i < j) PROVE FALSE
    OBVIOUS
  <1>1. place[i] \in Nat /\ place[j] \in Nat
    BY DEF Picks
  <1>2. CASE i = j
    BY <1>1, <1>2
  <1>3. CASE j < i
    <2>1. place[j] < place[i]
      BY <1>3 DEF Picks
    <2> QED BY <1>1, <2>1
  <1> QED BY <1>2, <1>3

(* What is picked from a whole conversation, with each call its answers and*)
(* with each answer its call, is whole.                                    *)
LEMMA WholeWhenPaired ==
    ASSUME NEW all, Whole(all), NEW some \in Seq(Messages), NEW place,
           Picks(place, some, all), KeepsPairs(place, some, all)
    PROVE  Whole(some)
  <1>1. /\ Len(some) \in Nat /\ Len(all) \in Nat
        /\ DOMAIN some = 1 .. Len(some) /\ DOMAIN all = 1 .. Len(all)
    BY DEF Whole
  <1>2. \A i \in 1 .. Len(some) : place[i] \in 1 .. Len(all) /\ some[i] = all[place[i]]
    BY DEF Picks
  <1>3. ASSUME NEW i \in 1 .. Len(some), some[i].role = "tool"
        PROVE  \E j \in 1 .. i - 1 :
                  /\ MakesCalls(some[j])
                  /\ some[i].ids \subseteq some[j].ids
                  /\ \A k \in j + 1 .. i - 1 : some[k].role = "tool"
    <2>1. PICK p \in 1 .. place[i] - 1 :
              /\ MakesCalls(all[p])
              /\ all[place[i]].ids \subseteq all[p].ids
              /\ \A k \in p + 1 .. place[i] - 1 : all[k].role = "tool"
      BY <1>1, <1>2, <1>3 DEF Whole, WellFormed
    <2>2. PICK j \in 1 .. Len(some) : place[j] = p
      BY <1>2, <1>3, <2>1 DEF KeepsPairs
    <2>3. place[j] < place[i]
      BY <1>1, <1>2, <2>1, <2>2
    <2>4. j < i
      BY <1>1, <2>3, PicksAreOrdered
    <2>5. ASSUME NEW k \in j + 1 .. i - 1 PROVE some[k].role = "tool"
      <3>1. k \in 1 .. Len(some)
        BY <1>1
      <3>2. place[j] < place[k] /\ place[k] < place[i]
        BY <1>1, <3>1 DEF Picks
      <3> QED BY <1>1, <1>2, <2>1, <2>2, <3>1, <3>2
    <2> QED BY <1>1, <1>2, <2>1, <2>2, <2>4, <2>5
  <1>4. ASSUME NEW i \in 1 .. Len(some), MakesCalls(some[i]), NEW id \in some[i].ids
        PROVE  \E j \in i + 1 .. Len(some) : some[j].role = "tool" /\ some[j].ids = {id}
    <2>1. PICK p \in place[i] + 1 .. Len(all) : all[p].role = "tool" /\ all[p].ids = {id}
      BY <1>1, <1>2, <1>4 DEF Whole, WellFormed
    <2>2. PICK j \in 1 .. Len(some) : place[j] = p
      BY <1>2, <1>4, <2>1 DEF KeepsPairs
    <2>3. place[i] < place[j]
      BY <1>1, <1>2, <2>1, <2>2
    <2>4. i < j
      BY <1>1, <2>3, PicksAreOrdered
    <2> QED BY <1>1, <1>2, <2>1, <2>2, <2>4
  <1>5. WellFormed(some)
    BY <1>1, <1>3, <1>4, Zenon DEF WellFormed
  <1>6. ASSUME NEW i \in 1 .. Len(some), some[i].role = "tool" PROVE \E id \in Nat : some[i].ids = {id}
    <2>1. place[i] \in 1 .. Len(all) /\ some[i] = all[place[i]]
      BY <1>2
    <2> QED BY <1>6, <2>1, Zenon DEF Whole
  <1>7. ASSUME NEW i \in 1 .. Len(some), NEW j \in 1 .. Len(some),
               MakesCalls(some[i]), MakesCalls(some[j]), i # j
        PROVE  some[i].ids \intersect some[j].ids = {}
    <2>1. place[i] # place[j]
      <3>1. CASE i < j
        BY <1>1, <1>2, <3>1 DEF Picks
      <3>2. CASE j < i
        BY <1>1, <1>2, <3>2 DEF Picks
      <3> QED BY <1>1, <1>7, <3>1, <3>2
    <2>2. /\ place[i] \in 1 .. Len(all) /\ some[i] = all[place[i]]
          /\ place[j] \in 1 .. Len(all) /\ some[j] = all[place[j]]
      BY <1>2
    <2>3. all[place[i]].ids \intersect all[place[j]].ids = {}
      BY <1>7, <2>1, <2>2, Zenon DEF Whole
    <2> QED BY <2>2, <2>3
  <1> QED BY <1>5, <1>6, <1>7, Zenon DEF Whole

(* Min and Max of positions are what their names say.                      *)
LEMMA LeastPosition ==
    ASSUME NEW S, S \subseteq Nat, S # {} PROVE Min(S) \in S /\ \A m \in S : Min(S) <= m
  <1>1. \E n \in S : \A m \in S : n <= m
    BY LeastOf
  <1> QED BY <1>1 DEF Min

LEMMA LastPosition ==
    ASSUME NEW n \in Nat, NEW S, S \subseteq 0 .. n, S # {} PROVE Max(S) \in S /\ \A m \in S : Max(S) >= m
  <1> DEFINE T == {n - x : x \in S}
  <1>1. T \subseteq Nat /\ T # {}
    OBVIOUS
  <1>2. PICK t \in T : \A u \in T : t <= u
    BY <1>1, LeastOf
  <1>3. PICK x \in S : t = n - x
    BY <1>2
  <1>4. \A m \in S : x >= m
    <2> SUFFICES ASSUME NEW m \in S PROVE x >= m
      OBVIOUS
    <2>1. n - m \in T
      OBVIOUS
    <2>2. t <= n - m
      BY <1>2, <2>1
    <2>3. x \in 0 .. n /\ m \in 0 .. n
      OBVIOUS
    <2> QED BY <1>3, <2>2, <2>3
  <1>5. \E y \in S : \A m \in S : y >= m
    BY <1>4
  <1> QED BY <1>5 DEF Max

-----------------------------------------------------------------------------
(* The system messages come out of a whole conversation, and the others    *)
(* stay whole.                                                             *)
LEMMA RolesAreApart == ASSUME NEW m PROVE ~(IsSystem(m) /\ (m.role = "tool" \/ MakesCalls(m)))
  BY DEF IsSystem, MakesCalls

LEMMA SystemIsApart ==
    ASSUME NEW list, Whole(list)
    PROVE  /\ OfSystem(list) \in Seq(Messages)
           /\ \A i \in 1 .. Len(OfSystem(list)) : IsSystem(OfSystem(list)[i])
           /\ Whole(NotOfSystem(list))
  <1>1. list \in Seq(Messages) /\ DOMAIN list = 1 .. Len(list) /\ Len(list) \in Nat
    BY DEF Whole
  <1> DEFINE system == {i \in DOMAIN list : IsSystem(list[i])}
             others == {i \in DOMAIN list : ~IsSystem(list[i])}
             rest == Part(list, others)
             front == Part(list, system)
  <1>2. front \in Seq(Messages) /\ rest \in Seq(Messages)
    BY <1>1, PartIsPicked
  <1>3. PICK place : Picks(place, front, list) /\ \A i \in 1 .. Len(front) : place[i] \in system
    <2> HIDE DEF system
    <2> QED BY <1>1, PartIsPicked
  <1>4. \A i \in 1 .. Len(front) : IsSystem(front[i])
    <2> HIDE DEF front
    <2> QED BY <1>3 DEF Picks
  <1>5. PICK spot : /\ Picks(spot, rest, list)
                    /\ \A i \in 1 .. Len(rest) : spot[i] \in others
                    /\ \A k \in others \intersect (1 .. Len(list)) : \E i \in 1 .. Len(rest) : spot[i] = k
    <2> HIDE DEF others
    <2> QED BY <1>1, PartIsPicked
  <1>6. KeepsPairs(spot, rest, list)
    <2> HIDE DEF rest
    <2>1. ASSUME NEW i \in 1 .. Len(rest), list[spot[i]].role = "tool",
                 NEW j \in 1 .. spot[i] - 1, MakesCalls(list[j])
          PROVE  \E h \in 1 .. Len(rest) : spot[h] = j
      <3>1. spot[i] \in 1 .. Len(list)
        BY <1>5 DEF Picks
      <3>2. j \in 1 .. Len(list)
        BY <1>1, <3>1
      <3>3. j \in others
        BY <1>1, <2>1, <3>2, RolesAreApart
      <3> QED BY <1>5, <3>2, <3>3
    <2>2. ASSUME NEW i \in 1 .. Len(rest), NEW j \in spot[i] + 1 .. Len(list), list[j].role = "tool"
          PROVE  \E h \in 1 .. Len(rest) : spot[h] = j
      <3>1. spot[i] \in 1 .. Len(list)
        BY <1>5 DEF Picks
      <3>2. j \in 1 .. Len(list)
        BY <1>1, <3>1
      <3>3. j \in others
        BY <1>1, <2>2, <3>2, RolesAreApart
      <3> QED BY <1>5, <3>2, <3>3
    <2> HIDE DEF others
    <2> QED BY <2>1, <2>2, Zenon DEF KeepsPairs
  <1>7. Whole(rest)
    <2> HIDE DEF rest
    <2> QED BY <1>2, <1>5, <1>6, WholeWhenPaired
  <1> QED BY <1>2, <1>4, <1>7 DEF OfSystem, NotOfSystem

(* Without calls before it that is not whole, a list keeps its end.        *)
LEMMA EndStaysWhole ==
    ASSUME NEW list, Whole(list), NEW from \in 1 .. Len(list), list[from].role # "tool"
    PROVE  /\ Whole(SubSeq(list, from, Len(list)))
           /\ Picks([i \in 1 .. Len(list) - from + 1 |-> from + i - 1], SubSeq(list, from, Len(list)), list)
           /\ Len(SubSeq(list, from, Len(list))) = Len(list) - from + 1
  <1> DEFINE n == Len(list)
             end == SubSeq(list, from, n)
             m == n - from + 1
             place == [i \in 1 .. m |-> from + i - 1]
  <1>1. list \in Seq(Messages) /\ n \in Nat /\ m \in Nat
    BY DEF Whole
  <1>2. end \in Seq(Messages) /\ Len(end) = m /\ \A i \in 1 .. m : end[i] = list[from + i - 1]
    BY <1>1
  <1>3. \A i \in 1 .. m : place[i] = from + i - 1 /\ place[i] \in from .. n
    BY <1>1
  <1>4. place \in [1 .. m -> 1 .. n]
    BY <1>1
  <1>5. \A j \in from .. n : j - from + 1 \in 1 .. m /\ place[j - from + 1] = j
    BY <1>1
  <1> HIDE DEF end, place
  <1>6. Picks(place, end, list)
    BY <1>2, <1>3, <1>4 DEF Picks
  <1>7. KeepsPairs(place, end, list)
    <2>1. ASSUME NEW i \in 1 .. m, list[place[i]].role = "tool", NEW j \in 1 .. place[i] - 1,
                 \A k \in j + 1 .. place[i] - 1 : list[k].role = "tool"
          PROVE  \E h \in 1 .. m : place[h] = j
      <3>1. place[i] # from
        BY <2>1
      <3>2. j >= from
        BY <1>3, <2>1, <3>1
      <3>3. j \in from .. n
        BY <1>1, <1>3, <3>2
      <3> QED BY <1>5, <3>3
    <2>2. ASSUME NEW i \in 1 .. m, NEW j \in place[i] + 1 .. n PROVE \E h \in 1 .. m : place[h] = j
      <3>1. j \in from .. n
        BY <1>1, <1>3
      <3> QED BY <1>5, <3>1
    <2>3. Len(end) = m
      BY <1>2
    <2> HIDE DEF m
    <2> QED BY <2>1, <2>2, <2>3, Zenon DEF KeepsPairs
  <1>8. Whole(end)
    BY <1>2, <1>6, <1>7, WholeWhenPaired
  <1> QED BY <1>2, <1>6, <1>8 DEF end, place

(* What is picked is a subsequence; a subsequence is not longer, and one of*)
(* a subsequence is one of the whole.                                      *)
LEMMA PicksAreSubsequences ==
    ASSUME NEW some \in Seq(Messages), NEW all \in Seq(Messages), NEW place, Picks(place, some, all)
    PROVE  IsSubsequence(some, all)
  <1>1. DOMAIN some = 1 .. Len(some) /\ DOMAIN all = 1 .. Len(all)
    OBVIOUS
  <1> QED BY <1>1, Zenon DEF Picks, IsSubsequence

LEMMA SubsequencesAreShorter ==
    ASSUME NEW some \in Seq(Messages), NEW all \in Seq(Messages), IsSubsequence(some, all)
    PROVE  Len(some) <= Len(all)
  <1> DEFINE m == Len(some)
             n == Len(all)
  <1>1. m \in Nat /\ n \in Nat /\ DOMAIN some = 1 .. m /\ DOMAIN all = 1 .. n
    OBVIOUS
  <1>2. PICK place \in [1 .. m -> 1 .. n] : \A i, j \in 1 .. m : i < j => place[i] < place[j]
    BY <1>1, Zenon DEF IsSubsequence
  <1> HIDE DEF m, n
  <1> DEFINE Good == {k \in Nat : k + 1 <= m => place[k + 1] >= k + 1}
  <1>3. 0 \in Good
    BY <1>1, <1>2
  <1>4. ASSUME NEW k \in Nat, k \in Good PROVE k + 1 \in Good
    <2> SUFFICES ASSUME (k + 1) + 1 <= m PROVE place[(k + 1) + 1] >= (k + 1) + 1
      OBVIOUS
    <2>1. k + 1 \in 1 .. m /\ (k + 1) + 1 \in 1 .. m
      BY <1>1
    <2>2. place[k + 1] < place[(k + 1) + 1] /\ place[k + 1] \in 1 .. n /\ place[(k + 1) + 1] \in 1 .. n
      BY <1>2, <2>1
    <2>3. place[k + 1] >= k + 1
      BY <1>1, <1>4
    <2> HIDE DEF Good
    <2> QED BY <1>1, <2>2, <2>3
  <1>5. Good = Nat
    <2>1. Good \subseteq Nat
      OBVIOUS
    <2> HIDE DEF Good
    <2> QED BY <1>3, <1>4, <2>1, Inductive
  <1>6. CASE m = 0
    BY <1>1, <1>6 DEF m, n
  <1>7. CASE m > 0
    <2>1. m - 1 \in Nat /\ (m - 1) + 1 = m
      BY <1>1, <1>7
    <2>2. m - 1 \in Good
      BY <1>5, <2>1
    <2>3. place[m] >= m
      BY <1>1, <2>1, <2>2
    <2>4. place[m] \in 1 .. n
      BY <1>1, <1>2, <1>7
    <2> HIDE DEF Good
    <2>5. m <= n
      BY <1>1, <2>3, <2>4
    <2> QED BY <2>5 DEF m, n
  <1> QED BY <1>1, <1>6, <1>7

LEMMA SubsequencesCompose ==
    ASSUME NEW some \in Seq(Messages), NEW more \in Seq(Messages), NEW all \in Seq(Messages),
           IsSubsequence(some, more), IsSubsequence(more, all)
    PROVE  IsSubsequence(some, all)
  <1>1. PICK f \in [DOMAIN some -> DOMAIN more] :
            /\ \A i, j \in DOMAIN some : i < j => f[i] < f[j]
            /\ \A i \in DOMAIN some : some[i] = more[f[i]]
    BY Zenon DEF IsSubsequence
  <1>2. PICK g \in [DOMAIN more -> DOMAIN all] :
            /\ \A i, j \in DOMAIN more : i < j => g[i] < g[j]
            /\ \A i \in DOMAIN more : more[i] = all[g[i]]
    BY Zenon DEF IsSubsequence
  <1> DEFINE h == [i \in DOMAIN some |-> g[f[i]]]
  <1>3. \A i \in DOMAIN some : f[i] \in DOMAIN more /\ g[f[i]] \in DOMAIN all /\ h[i] = g[f[i]]
    BY Zenon
  <1>4. h \in [DOMAIN some -> DOMAIN all]
    BY <1>3, Zenon
  <1> HIDE DEF h
  <1>5. \A i, j \in DOMAIN some : i < j => h[i] < h[j]
    BY <1>1, <1>2, <1>3, Zenon
  <1>6. \A i \in DOMAIN some : some[i] = all[h[i]]
    BY <1>1, <1>2, <1>3, Zenon
  <1> QED BY <1>4, <1>5, <1>6, Zenon DEF IsSubsequence

(* Nothing is whole, and a subsequence of everything; everything is one of *)
(* itself.                                                                 *)
LEMMA NothingIsWhole == Whole(<<>>)
  <1>1. <<>> \in Seq(Messages) /\ Len(<<>>) = 0 /\ DOMAIN <<>> = {}
    OBVIOUS
  <1>2. WellFormed(<<>>)
    BY <1>1 DEF WellFormed
  <1> QED BY <1>1, <1>2 DEF Whole

LEMMA NothingIsASubsequence == ASSUME NEW all \in Seq(Messages) PROVE IsSubsequence(<<>>, all)
  <1> DEFINE none == <<>>
  <1>1. none \in Seq(Messages) /\ Len(none) = 0
    OBVIOUS
  <1>2. Picks(<<>>, none, all)
    BY DEF Picks
  <1> HIDE DEF none
  <1>3. IsSubsequence(none, all)
    BY <1>1, <1>2, PicksAreSubsequences
  <1> QED BY <1>3 DEF none

LEMMA AllIsASubsequence == ASSUME NEW all \in Seq(Messages) PROVE IsSubsequence(all, all)
  <1>1. Picks([i \in 1 .. Len(all) |-> i], all, all)
    BY DEF Picks
  <1> QED BY <1>1, PicksAreSubsequences

(* No assistant that waits for answers is last in a whole conversation.    *)
TrailingUpTo(f, list, n) ==
    f = [k \in 0 .. n |->
           IF k = 0 \/ ~MakesCalls(list[k]) THEN k ELSE f[WithoutLastCalls(list, k)]]

(* Dropping calls from the end comes to an end ...                         *)
LEMMA LastCallsGo ==
    ASSUME NEW list, NEW n \in Nat, n # 0 PROVE WithoutLastCalls(list, n) \in 0 .. n - 1
  <1> DEFINE stay == {i \in 1 .. n - 1 :
                        ~(list[i].role = "tool" /\ list[i].ids \subseteq list[n].ids)}
  <1>1. CASE stay = {}
    BY <1>1 DEF WithoutLastCalls
  <1>2. CASE stay # {}
    <2>1. stay \subseteq 0 .. n
      OBVIOUS
    <2> HIDE DEF stay
    <2>2. Max(stay) \in stay
      BY <1>2, <2>1, LastPosition
    <2> QED BY <1>2, <2>2 DEF WithoutLastCalls, stay
  <1> QED BY <1>1, <1>2

(* ... so the function it is defined by exists ...                         *)
LEMMA TrailingUpToExists ==
    ASSUME NEW list, NEW n \in Nat PROVE \E f : TrailingUpTo(f, list, n)
  <1> DEFINE body(f, k) == IF k = 0 \/ ~MakesCalls(list[k]) THEN k ELSE f[WithoutLastCalls(list, k)]
             Good == {m \in Nat : \E f : f = [k \in 0 .. m |-> body(f, k)]}
  <1>1. 0 \in Good
    <2> DEFINE f == [k \in 0 .. 0 |-> 0]
    <2>1. ASSUME NEW k \in 0 .. 0 PROVE f[k] = body(f, k)
      OBVIOUS
    <2>2. f = [k \in 0 .. 0 |-> f[k]]
      OBVIOUS
    <2> HIDE DEF f, body
    <2>3. f = [k \in 0 .. 0 |-> body(f, k)]
      BY <2>1, <2>2, Zenon
    <2> QED BY <2>3
  <1>2. ASSUME NEW m \in Nat, m \in Good PROVE m + 1 \in Good
    <2>1. PICK f : f = [k \in 0 .. m |-> body(f, k)]
      BY <1>2, Zenon
    <2> DEFINE g == [k \in 0 .. m + 1 |-> IF k = m + 1 THEN body(f, k) ELSE f[k]]
    <2>2. ASSUME NEW k \in 0 .. m + 1 PROVE g[k] = body(g, k)
      <3>1. g[k] = body(f, k)
        <4>1. CASE k = m + 1
          BY <4>1
        <4>2. CASE k \in 0 .. m
          <5>1. f[k] = body(f, k)
            <6> HIDE DEF body
            <6> QED BY <2>1, <4>2
          <5>2. g[k] = f[k]
            BY <4>2
          <5> QED BY <5>1, <5>2
        <4> QED BY <4>1, <4>2
      <3>2. body(g, k) = body(f, k)
        <4>1. CASE k = 0
          BY <4>1
        <4>2. CASE k # 0
          <5>1. WithoutLastCalls(list, k) \in 0 .. m
            BY <4>2, LastCallsGo
          <5>2. g[WithoutLastCalls(list, k)] = f[WithoutLastCalls(list, k)]
            BY <5>1
          <5> HIDE DEF g
          <5> QED BY <5>2
        <4> QED BY <4>1, <4>2
      <3> QED BY <3>1, <3>2
    <2>3. g = [k \in 0 .. m + 1 |-> g[k]]
      OBVIOUS
    <2> HIDE DEF g, body
    <2>4. g = [k \in 0 .. m + 1 |-> body(g, k)]
      BY <2>2, <2>3, Zenon
    <2> QED BY <2>4
  <1>3. Good = Nat
    <2>1. Good \subseteq Nat
      OBVIOUS
    <2> HIDE DEF Good
    <2> QED BY <1>1, <1>2, <2>1, Inductive
  <1>4. \E f : f = [k \in 0 .. n |-> body(f, k)]
    <2> HIDE DEF body
    <2> QED BY <1>3
  <1> QED BY <1>4, Zenon DEF TrailingUpTo

(* ... and drops nothing of a conversation that is whole.                  *)
LEMMA WholeEndsAnswered ==
    ASSUME NEW list, Whole(list) PROVE DropTrailingCalls(list) = list
  <1> DEFINE n == Len(list)
             f == CHOOSE g : TrailingUpTo(g, list, n)
  <1>1. list \in Seq(Messages) /\ n \in Nat /\ DOMAIN list = 1 .. n
    BY DEF Whole
  <1>2. TrailingUpTo(f, list, n)
    <2> HIDE DEF n
    <2> QED BY <1>1, TrailingUpToExists
  <1>3. DropTrailingCalls(list) = SubSeq(list, 1, f[n])
    BY Zenon DEF DropTrailingCalls, TrailingUpTo
  <1>4. n = 0 \/ ~MakesCalls(list[n])
    <2> SUFFICES ASSUME n # 0, MakesCalls(list[n]) PROVE FALSE
      OBVIOUS
    <2>1. n \in 1 .. n /\ list[n].ids # {}
      BY <1>1 DEF MakesCalls
    <2>2. PICK id : id \in list[n].ids
      BY <2>1
    <2>3. \E j \in n + 1 .. n : TRUE
      BY <1>1, <2>1, <2>2 DEF Whole, WellFormed
    <2> QED BY <1>1, <2>3
  <1>5. f[n] = n
    <2> HIDE DEF f
    <2>1. n \in 0 .. n
      BY <1>1
    <2> QED BY <1>2, <1>4, <2>1, Zenon DEF TrailingUpTo
  <1> QED BY <1>1, <1>3, <1>5

(* The limit of messages leaves a whole end of the conversation that is    *)
(* within it.                                                              *)
LEMMA CountKeepsWhole ==
    ASSUME NEW list, Whole(list), NEW max, max = NoLimit \/ max \in Nat
    PROVE  /\ Whole(LimitCount(list, max))
           /\ IsSubsequence(LimitCount(list, max), list)
           /\ max \notin {NoLimit, 0} => Len(LimitCount(list, max)) <= max
  <1> DEFINE n == Len(list)
             end == LastOf(list, max)
             from == IF max = 0 THEN 1 ELSE n - max + 1
             stay == {i \in DOMAIN end : end[i].role # "tool"}
  <1>1. list \in Seq(Messages) /\ n \in Nat
    BY DEF Whole
  <1>2. CASE ~(max # NoLimit /\ n > max)
    <2>1. LimitCount(list, max) = list
      BY <1>2 DEF LimitCount
    <2> QED BY <1>1, <1>2, <2>1, AllIsASubsequence
  <1>3. CASE max # NoLimit /\ n > max
    <2>1. max \in Nat
      BY <1>3
    <2>2. LimitCount(list, max) = DropTrailingCalls(DropLeadingTools(end))
      BY <1>3 DEF LimitCount
    <2>3. from \in 1 .. n /\ end = SubSeq(list, from, n)
      <3>1. CASE max = 0
        <4>1. SubSeq(list, 1, n) = list
          BY <1>1
        <4> QED BY <1>1, <1>3, <3>1, <4>1 DEF LastOf
      <3>2. CASE max # 0
        <4>1. end = SubSeq(list, n - max + 1, n)
          BY <3>2 DEF LastOf
        <4>2. n - max + 1 \in 1 .. n
          BY <1>1, <1>3, <2>1, <3>2
        <4> HIDE DEF end
        <4> QED BY <3>2, <4>1, <4>2
      <3> QED BY <3>1, <3>2
    <2> DEFINE m == n - from + 1
    <2>4. end \in Seq(Messages) /\ Len(end) = m /\ DOMAIN end = 1 .. m
          /\ (\A i \in 1 .. m : end[i] = list[from + i - 1]) /\ (max # 0 => m <= max) /\ m \in Nat
      <3>1. max # 0 => from = n - max + 1
        OBVIOUS
      <3> HIDE DEF end, from
      <3> QED BY <1>1, <1>3, <2>1, <2>3, <3>1
    <2>5. CASE stay = {}
      <3>1. DropLeadingTools(end) = <<>>
        BY <2>5 DEF DropLeadingTools
      <3>2. LimitCount(list, max) = <<>>
        BY <2>2, <3>1, NothingIsWhole, WholeEndsAnswered
      <3> QED BY <1>1, <2>1, <3>2, NothingIsWhole, NothingIsASubsequence
    <2>6. CASE stay # {}
      <3> DEFINE p == Min(stay)
                 first == from + p - 1
      <3>1. p \in stay
        <4>1. stay \subseteq Nat
          BY <2>4
        <4> HIDE DEF stay
        <4> QED BY <2>6, <4>1, LeastPosition
      <3>2. p \in 1 .. m /\ end[p].role # "tool"
        BY <2>4, <3>1
      <3>3. DropLeadingTools(end) = SubSeq(end, p, Len(end))
        BY <2>6 DEF DropLeadingTools
      <3> HIDE DEF p
      <3>4. first \in 1 .. n /\ list[first].role # "tool"
        <4>1. end[p] = list[from + p - 1]
          <5> HIDE DEF end, from
          <5> QED BY <2>4, <3>2
        <4> HIDE DEF end, from
        <4>2. from + p - 1 \in 1 .. n
          BY <1>1, <2>3, <3>2
        <4> QED BY <3>2, <4>1, <4>2
      <3>5. SubSeq(end, p, Len(end)) = SubSeq(list, first, n)
        <4> DEFINE a == SubSeq(end, p, Len(end))
                   b == SubSeq(list, first, n)
        <4>1. a \in Seq(Messages) /\ Len(a) = m - p + 1 /\ \A i \in 1 .. m - p + 1 : a[i] = end[p + i - 1]
          <5> HIDE DEF end, m
          <5> QED BY <2>4, <3>2
        <4>2. b \in Seq(Messages) /\ Len(b) = n - first + 1 /\ \A i \in 1 .. n - first + 1 : b[i] = list[first + i - 1]
          <5> HIDE DEF first
          <5> QED BY <1>1, <3>4
        <4>3. n - first + 1 = m - p + 1
          BY <1>1, <2>3, <3>2
        <4>4. ASSUME NEW i \in 1 .. m - p + 1 PROVE a[i] = b[i]
          <5>1. p + i - 1 \in 1 .. m
            BY <2>4, <3>2
          <5>2. end[p + i - 1] = list[from + (p + i - 1) - 1]
            BY <2>4, <5>1
          <5>3. from + (p + i - 1) - 1 = first + i - 1
            BY <2>3, <3>2
          <5> HIDE DEF a, b, end, first
          <5> QED BY <4>1, <4>2, <4>3, <5>2, <5>3
        <4> HIDE DEF a, b
        <4>5. a = b
          BY <4>1, <4>2, <4>3, <4>4
        <4> QED BY <4>5 DEF a, b
      <3> DEFINE rest == SubSeq(list, first, n)
      <3> HIDE DEF first
      <3>6. Whole(rest) /\ Len(rest) = n - first + 1 /\ \E place : Picks(place, rest, list)
        BY <3>4, EndStaysWhole
      <3>7. rest \in Seq(Messages)
        BY <3>6 DEF Whole
      <3>8. LimitCount(list, max) = rest
        BY <2>2, <3>3, <3>5, <3>6, WholeEndsAnswered
      <3>9. IsSubsequence(rest, list)
        <4> HIDE DEF rest
        <4> QED BY <1>1, <3>6, <3>7, PicksAreSubsequences
      <3>10. n - first + 1 <= m
        BY <1>1, <2>3, <3>2, <3>4 DEF first
      <3>11. max # 0 => Len(rest) <= max
        <4> HIDE DEF rest
        <4> QED BY <1>1, <2>1, <2>4, <3>4, <3>6, <3>10
      <3> HIDE DEF rest
      <3> QED BY <3>6, <3>8, <3>9, <3>11
    <2> QED BY <2>5, <2>6
  <1> QED BY <1>2, <1>3

(* With an assistant go the answers to its calls, with other text nothing. *)
LEMMA AnswersAreThePartners ==
    ASSUME NEW dropped, MakesCalls(dropped), NEW rest
    PROVE  Partners(dropped, rest)
             = {m \in ToSet(rest) : m.role = "tool" /\ m.ids \subseteq dropped.ids}
  <1>1. dropped.role # "tool"
    BY DEF MakesCalls
  <1> DEFINE answers == {m \in ToSet(rest) : m.role = "tool" /\ m.ids \subseteq dropped.ids}
  <1> QED BY <1>1, Zenon DEF Partners

LEMMA TextHasNoPartners ==
    ASSUME NEW dropped, ~MakesCalls(dropped), dropped.role # "tool", NEW rest
    PROVE  Partners(dropped, rest) = {}
  BY Zenon DEF Partners

(* With its partners the oldest message goes and the rest stays whole.     *)
LEMMA OldestGoes ==
    ASSUME NEW list, Whole(list), list # <<>>
    PROVE  /\ Whole(WithoutOldest(list))
           /\ IsSubsequence(WithoutOldest(list), list)
           /\ Len(WithoutOldest(list)) < Len(list)
  <1> DEFINE n == Len(list)
             rest == Tail(list)
             partners == Partners(Head(list), rest)
             keep == {i \in 2 .. n : list[i] \notin partners}
             some == Part(list, keep)
  <1>1. /\ list \in Seq(Messages) /\ n \in Nat /\ n > 0 /\ DOMAIN list = 1 .. n
        /\ Head(list) = list[1] /\ rest \in Seq(Messages) /\ Len(rest) = n - 1
        /\ DOMAIN rest = 1 .. n - 1 /\ \A i \in 1 .. n - 1 : rest[i] = list[i + 1]
    BY DEF Whole
  <1>2. WithoutOldest(list) = some
    BY DEF WithoutOldest
  <1>3. some \in Seq(Messages)
    BY <1>1, PartIsPicked
  <1>4. PICK place : /\ Picks(place, some, list)
                     /\ \A i \in 1 .. Len(some) : place[i] \in keep
                     /\ \A k \in keep \intersect (1 .. n) : \E i \in 1 .. Len(some) : place[i] = k
    <2> HIDE DEF keep
    <2> QED BY <1>1, PartIsPicked
  <1>5. list[1].role # "tool"
    <2> SUFFICES ASSUME list[1].role = "tool" PROVE FALSE
      OBVIOUS
    <2>1. \E j \in 1 .. 1 - 1 : MakesCalls(list[j])
      <3>1. 1 \in DOMAIN list
        BY <1>1
      <3> QED BY <3>1, Zenon DEF Whole, WellFormed
    <2> QED BY <2>1
  <1>6. ASSUME NEW m \in partners
        PROVE  MakesCalls(list[1]) /\ m.role = "tool" /\ m.ids \subseteq list[1].ids
    <2>1. MakesCalls(Head(list))
      BY <1>1, <1>5, <1>6, TextHasNoPartners
    <2>2. partners = {x \in ToSet(rest) : x.role = "tool" /\ x.ids \subseteq Head(list).ids}
      BY <2>1, AnswersAreThePartners
    <2> QED BY <1>1, <1>6, <2>1, <2>2
  <1>7. ASSUME MakesCalls(list[1]), NEW i \in 2 .. n,
               list[i].role = "tool", list[i].ids \subseteq list[1].ids
        PROVE  list[i] \in partners
    <2>1. partners = {x \in ToSet(rest) : x.role = "tool" /\ x.ids \subseteq Head(list).ids}
      BY <1>1, <1>7, AnswersAreThePartners
    <2>2. list[i] = rest[i - 1] /\ i - 1 \in DOMAIN rest
      BY <1>1
    <2>3. list[i] \in ToSet(rest)
      BY <2>2 DEF ToSet
    <2> QED BY <1>1, <1>7, <2>1, <2>3
  <1> HIDE DEF rest, partners, some
  <1>8. \A i \in 1 .. Len(some) : place[i] \in 2 .. n /\ list[place[i]] \notin partners
    BY <1>4
  <1>9. \A k \in 2 .. n : list[k] \notin partners => \E i \in 1 .. Len(some) : place[i] = k
    <2> SUFFICES ASSUME NEW k \in 2 .. n, list[k] \notin partners
                 PROVE  \E i \in 1 .. Len(some) : place[i] = k
      BY Zenon
    <2>1. k \in keep \intersect (1 .. n)
      BY <1>1
    <2> HIDE DEF keep
    <2> QED BY <1>4, <2>1
  <1> HIDE DEF keep
  <1>10. KeepsPairs(place, some, list)
    <2>1. ASSUME NEW i \in 1 .. Len(some), list[place[i]].role = "tool",
                 NEW j \in 1 .. place[i] - 1, MakesCalls(list[j]),
                 list[place[i]].ids \subseteq list[j].ids
          PROVE  \E h \in 1 .. Len(some) : place[h] = j
      <3>1. place[i] \in 2 .. n /\ list[place[i]] \notin partners
        BY <1>8
      <3>2. j # 1
        BY <1>7, <2>1, <3>1
      <3>3. j \in 2 .. n
        BY <1>1, <3>1, <3>2
      <3>4. list[j] \notin partners
        BY <1>6, <2>1 DEF MakesCalls
      <3> QED BY <1>9, <3>3, <3>4
    <2>2. ASSUME NEW i \in 1 .. Len(some), MakesCalls(list[place[i]]),
                 NEW j \in place[i] + 1 .. n, list[j].role = "tool",
                 list[j].ids \subseteq list[place[i]].ids
          PROVE  \E h \in 1 .. Len(some) : place[h] = j
      <3>1. place[i] \in 2 .. n
        BY <1>8
      <3>2. j \in 2 .. n /\ place[i] \in 1 .. n /\ 1 \in 1 .. n /\ place[i] # 1 /\ j \in 1 .. n
        BY <1>1, <3>1
      <3>3. PICK id \in Nat : list[j].ids = {id}
        BY <2>2, <3>2 DEF Whole
      <3>4. list[j] \notin partners
        <4> SUFFICES ASSUME list[j] \in partners PROVE FALSE
          OBVIOUS
        <4>1. MakesCalls(list[1]) /\ list[j].ids \subseteq list[1].ids
          BY <1>6
        <4>2. list[1].ids \intersect list[place[i]].ids = {}
          BY <2>2, <3>2, <4>1 DEF Whole
        <4> QED BY <2>2, <3>3, <4>1, <4>2
      <3> QED BY <1>9, <3>2, <3>4
    <2> QED BY <2>1, <2>2, Zenon DEF KeepsPairs
  <1>11. Whole(some)
    BY <1>3, <1>4, <1>10, WholeWhenPaired
  <1>12. IsSubsequence(some, list)
    BY <1>1, <1>3, <1>4, PicksAreSubsequences
  <1>13. Len(some) <= n - 1
    <2> DEFINE shifted == [i \in 1 .. Len(some) |-> place[i] - 1]
    <2>1. \A i \in 1 .. Len(some) : shifted[i] = place[i] - 1 /\ place[i] \in 2 .. n
      BY <1>8
    <2>2. shifted \in [1 .. Len(some) -> 1 .. n - 1]
      BY <1>1, <1>8
    <2>3. \A i, j \in 1 .. Len(some) : i < j => shifted[i] < shifted[j]
      <3> SUFFICES ASSUME NEW i \in 1 .. Len(some), NEW j \in 1 .. Len(some), i < j
                   PROVE  shifted[i] < shifted[j]
        BY Zenon
      <3>1. place[i] < place[j]
        BY <1>4 DEF Picks
      <3> HIDE DEF shifted
      <3> QED BY <2>1, <3>1
    <2>4. \A i \in 1 .. Len(some) : some[i] = rest[shifted[i]]
      <3> SUFFICES ASSUME NEW i \in 1 .. Len(some) PROVE some[i] = rest[shifted[i]]
        BY Zenon
      <3>1. some[i] = list[place[i]]
        BY <1>4 DEF Picks
      <3>2. shifted[i] \in 1 .. n - 1 /\ shifted[i] + 1 = place[i]
        BY <1>1, <2>1
      <3> HIDE DEF shifted
      <3> QED BY <1>1, <3>1, <3>2
    <2> HIDE DEF shifted
    <2>5. Picks(shifted, some, rest)
      BY <1>1, <2>2, <2>3, <2>4 DEF Picks
    <2>6. IsSubsequence(some, rest)
      BY <1>1, <1>3, <2>5, PicksAreSubsequences
    <2> QED BY <1>1, <1>3, <2>6, SubsequencesAreShorter
  <1>14. Len(some) \in Nat
    BY <1>3
  <1> QED BY <1>1, <1>2, <1>11, <1>12, <1>13, <1>14

(* DropOldest is the function it is defined by, after as many steps as     *)
(* there are messages.                                                     *)
LEMMA OldestRecursion ==
    ASSUME NEW list \in Seq(Messages), NEW budget
    PROVE  \E f : /\ f[0] = list
                  /\ \A i \in 1 .. Len(list) :
                        f[i - 1] \in Seq(Messages) =>
                            f[i] = IF Fits(f[i - 1], budget) THEN f[i - 1] ELSE WithoutOldest(f[i - 1])
                  /\ DropOldest(list, budget) = f[Len(list)]
  <1> DEFINE n == Len(list)
             T == Seq(Messages)
             shorter == [m \in T |-> IF Fits(m, budget) THEN m ELSE WithoutOldest(m)]
             follow == [i \in 1 .. n |-> shorter]
             Drops(f) == f = [i \in 0 .. n |-> IF i = 0 THEN list ELSE shorter[f[i - 1]]]
             f == CHOOSE g : Drops(g)
  <1>1. n \in Nat /\ list \in T
    OBVIOUS
  <1>2. shorter \in [T -> T]
    <2>1. ASSUME NEW m \in T PROVE WithoutOldest(m) \in T
      BY PartIsPicked DEF WithoutOldest
    <2> QED BY <2>1
  <1>3. DropOldest(list, budget) = f[n]
    BY Zenon DEF DropOldest
  <1>4. \A m \in T : shorter[m] = IF Fits(m, budget) THEN m ELSE WithoutOldest(m)
    BY Zenon
  <1> HIDE DEF shorter, T, n
  <1>5. follow \in [1 .. n -> [T -> T]] /\ \A i \in 1 .. n : follow[i] = shorter
    BY <1>2, Zenon
  <1> HIDE DEF follow
  <1>6. PICK g \in [0 .. n -> T] : Recurs(g, list, follow, n)
    BY <1>1, <1>5, Recursion
  <1>7. Drops(g)
    <2>1. ASSUME NEW i \in 0 .. n PROVE g[i] = IF i = 0 THEN list ELSE shorter[g[i - 1]]
      <3>1. CASE i = 0
        BY <1>6, <3>1 DEF Recurs
      <3>2. CASE i \in 1 .. n
        BY <1>5, <1>6, <3>2 DEF Recurs
      <3> QED BY <1>1, <3>1, <3>2
    <2>2. g = [i \in 0 .. n |-> g[i]]
      OBVIOUS
    <2> QED BY <2>1, <2>2, Zenon
  <1>8. Drops(f)
    <2> HIDE DEF Drops
    <2> QED BY <1>7, Zenon
  <1> HIDE DEF f
  <1>9. ASSUME NEW i \in 0 .. n PROVE f[i] = IF i = 0 THEN list ELSE shorter[f[i - 1]]
    BY <1>8, Zenon
  <1>10. f[0] = list
    BY <1>1, <1>9
  <1>11. ASSUME NEW i \in 1 .. n, f[i - 1] \in T
         PROVE  f[i] = IF Fits(f[i - 1], budget) THEN f[i - 1] ELSE WithoutOldest(f[i - 1])
    <2>1. i \in 0 .. n /\ i # 0
      BY <1>1
    <2>2. f[i] = shorter[f[i - 1]]
      BY <1>9, <2>1, Zenon
    <2> QED BY <1>4, <1>11, <2>2, Zenon
  <1> QED BY <1>3, <1>10, <1>11 DEF n, T

(* Each step that is needed drops a message at least, so that many are     *)
(* enough: what is left is whole and fits.                                 *)
LEMMA OldestDroppedWhole ==
    ASSUME NEW list, Whole(list), NEW budget
    PROVE  /\ Whole(DropOldest(list, budget))
           /\ IsSubsequence(DropOldest(list, budget), list)
           /\ Fits(DropOldest(list, budget), budget)
  <1> DEFINE n == Len(list)
  <1>1. list \in Seq(Messages) /\ n \in Nat
    BY DEF Whole
  <1>2. PICK f : /\ f[0] = list
                 /\ \A i \in 1 .. n :
                       f[i - 1] \in Seq(Messages) =>
                           f[i] = IF Fits(f[i - 1], budget) THEN f[i - 1] ELSE WithoutOldest(f[i - 1])
                 /\ DropOldest(list, budget) = f[n]
    BY <1>1, OldestRecursion
  <1> DEFINE Sound(k) == /\ Whole(f[k])
                         /\ IsSubsequence(f[k], list)
                         /\ Fits(f[k], budget) \/ Len(f[k]) + k <= n
             Good == {k \in Nat : k <= n => Sound(k)}
  <1>3. 0 \in Good
    BY <1>1, <1>2, AllIsASubsequence
  <1>4. ASSUME NEW k \in Nat, k \in Good PROVE k + 1 \in Good
    <2> SUFFICES ASSUME k + 1 <= n PROVE Sound(k + 1)
      <3> HIDE DEF Sound
      <3> QED OBVIOUS
    <2>1. Sound(k) /\ f[k] \in Seq(Messages) /\ Len(f[k]) \in Nat
      <3>1. k <= n
        BY <1>1
      <3>2. Sound(k)
        BY <1>4, <3>1
      <3> QED BY <3>2 DEF Whole
    <2>2. f[k + 1] = IF Fits(f[k], budget) THEN f[k] ELSE WithoutOldest(f[k])
      <3>1. k + 1 \in 1 .. n /\ (k + 1) - 1 = k
        BY <1>1
      <3> HIDE DEF n
      <3> QED BY <1>2, <2>1, <3>1
    <2>3. CASE Fits(f[k], budget)
      BY <2>1, <2>2, <2>3
    <2>4. CASE ~Fits(f[k], budget)
      <3>1. f[k] # <<>>
        BY <2>4 DEF Fits
      <3>2. /\ Whole(f[k + 1]) /\ IsSubsequence(f[k + 1], f[k])
            /\ Len(f[k + 1]) < Len(f[k])
        BY <2>1, <2>2, <2>4, <3>1, OldestGoes
      <3>3. f[k + 1] \in Seq(Messages) /\ Len(f[k + 1]) \in Nat
        BY <3>2 DEF Whole
      <3>4. IsSubsequence(f[k + 1], list)
        BY <1>1, <2>1, <3>2, <3>3, SubsequencesCompose
      <3>5. Len(f[k + 1]) + (k + 1) <= n
        <4>1. Len(f[k]) + k <= n
          BY <2>1, <2>4
        <4> DEFINE before == Len(f[k])
                   after == Len(f[k + 1])
        <4>2. before \in Nat /\ after \in Nat /\ after < before /\ before + k <= n
          BY <2>1, <3>2, <3>3, <4>1
        <4> HIDE DEF before, after, n
        <4>3. after + (k + 1) <= n
          BY <1>1, <4>2
        <4> QED BY <4>3 DEF after
      <3> QED BY <3>2, <3>4, <3>5
    <2> QED BY <2>3, <2>4
  <1>5. Good = Nat
    <2>1. Good \subseteq Nat
      OBVIOUS
    <2> HIDE DEF Good
    <2> QED BY <1>3, <1>4, <2>1, Inductive
  <1>6. Sound(n)
    <2>1. n \in Good
      BY <1>1, <1>5
    <2> HIDE DEF Sound
    <2> QED BY <1>1, <2>1
  <1>7. Fits(f[n], budget)
    <2> SUFFICES ASSUME Len(f[n]) + n <= n PROVE f[n] = <<>>
      BY <1>6 DEF Fits
    <2>1. f[n] \in Seq(Messages)
      BY <1>6 DEF Whole
    <2>2. Len(f[n]) = 0
      BY <1>1, <2>1
    <2> QED BY <2>1, <2>2
  <1> QED BY <1>2, <1>6, <1>7

LEMMA NothingCostsNothing == Tokens(<<>>) = 0
  <1> DEFINE none == <<>>
  <1>1. none \in Seq(Messages) /\ Len(none) = 0
    OBVIOUS
  <1> HIDE DEF none
  <1>2. PICK f : f[0] = 0 /\ Tokens(none) = f[Len(none)]
    BY <1>1, TokensRecursion
  <1>3. Tokens(none) = 0
    BY <1>1, <1>2
  <1> QED BY <1>3 DEF none

LEMMA MoreOf ==
    ASSUME NEW a \in Int, NEW b \in Int PROVE Max({a, b}) = IF a >= b THEN a ELSE b
  <1> DEFINE big == IF a >= b THEN a ELSE b
  <1>1. big \in {a, b} /\ \A y \in {a, b} : big >= y
    OBVIOUS
  <1>2. \A x \in {a, b} : (\A y \in {a, b} : x >= y) => x = big
    OBVIOUS
  <1> HIDE DEF big
  <1>3. Max({a, b}) = big
    BY <1>1, <1>2 DEF Max
  <1> QED BY <1>3 DEF big

(* What a request may be made of: all of the system's messages, and a whole *)
(* part of the others that keeps the limits.                               *)
Windowed(sent, list, maxMessages, maxTokens) ==
    \E rest : /\ Whole(rest)
              /\ sent = OfSystem(list) \o rest
              /\ IsSubsequence(rest, NotOfSystem(list))
              /\ maxMessages \notin {NoLimit, 0} => Len(rest) <= maxMessages
              /\ maxTokens # NoLimit =>
                    Tokens(OfSystem(list)) + Tokens(rest) <= Max({maxTokens, Tokens(OfSystem(list))})

(* The limit of tokens leaves a whole part that fits beside the system     *)
(* messages.                                                               *)
LEMMA TokensKeepWhole ==
    ASSUME NEW list, Whole(list), NEW system \in Seq(Messages), NEW max \in Int
    PROVE  /\ Whole(LimitTokens(list, system, max))
           /\ IsSubsequence(LimitTokens(list, system, max), list)
           /\ max # NoLimit =>
                 Tokens(system) + Tokens(LimitTokens(list, system, max)) <= Max({max, Tokens(system)})
  <1> DEFINE rest == LimitTokens(list, system, max)
             used == Tokens(system)
  <1>1. list \in Seq(Messages) /\ used \in Nat
    BY TokensAddUp DEF Whole
  <1>2. Max({max, used}) = IF max >= used THEN max ELSE used
    <2> HIDE DEF used
    <2> QED BY <1>1, MoreOf
  <1>3. CASE max = NoLimit
    <2>1. rest = list
      BY <1>3 DEF LimitTokens
    <2>2. Whole(rest) /\ IsSubsequence(rest, list)
      BY <1>1, <2>1, AllIsASubsequence
    <2> HIDE DEF rest, used
    <2> QED BY <1>3, <2>2 DEF rest, used
  <1>4. CASE max # NoLimit /\ used >= max
    <2>1. rest = <<>>
      BY <1>4 DEF LimitTokens
    <2>2. used + Tokens(rest) <= Max({max, used})
      <3> HIDE DEF used, rest
      <3> QED BY <1>1, <1>2, <1>4, <2>1, NothingCostsNothing
    <2> QED BY <1>1, <2>1, <2>2, NothingIsWhole, NothingIsASubsequence
  <1>5. CASE max # NoLimit /\ ~(used >= max)
    <2>1. rest = DropOldest(list, max - used)
      BY <1>5 DEF LimitTokens
    <2>2. Whole(rest) /\ IsSubsequence(rest, list) /\ Fits(rest, max - used)
      BY <2>1, OldestDroppedWhole
    <2>3. Tokens(rest) \in Nat
      BY <2>2, TokensAddUp DEF Whole
    <2>4. used + Tokens(rest) <= Max({max, used})
      <3>1. CASE rest = <<>>
        <4> HIDE DEF rest, used
        <4> QED BY <1>1, <1>2, <1>5, <3>1, NothingCostsNothing
      <3>2. CASE Tokens(rest) <= max - used
        <4> HIDE DEF rest, used
        <4> QED BY <1>1, <1>2, <1>5, <2>3, <3>2
      <3> QED BY <2>2, <3>1, <3>2 DEF Fits
    <2> QED BY <2>2, <2>4
  <1> QED BY <1>3, <1>4, <1>5

(* The window keeps both limits and leaves a whole part.                   *)
LEMMA WindowIsWindowed ==
    ASSUME NEW list, Whole(list), NEW n, n = NoLimit \/ n \in Nat, NEW max \in Int
    PROVE  Windowed(Window(list, n, max), list, n, max)
  <1> DEFINE system == OfSystem(list)
             others == NotOfSystem(list)
             fewer == LimitCount(others, n)
             rest == LimitTokens(fewer, system, max)
  <1>1. system \in Seq(Messages) /\ Whole(others)
    BY SystemIsApart
  <1>2. Whole(fewer) /\ IsSubsequence(fewer, others) /\ (n \notin {NoLimit, 0} => Len(fewer) <= n)
    BY <1>1, CountKeepsWhole
  <1>3. /\ Whole(rest) /\ IsSubsequence(rest, fewer)
        /\ max # NoLimit => Tokens(system) + Tokens(rest) <= Max({max, Tokens(system)})
    BY <1>1, <1>2, TokensKeepWhole
  <1>4. rest \in Seq(Messages) /\ fewer \in Seq(Messages) /\ others \in Seq(Messages)
    BY <1>1, <1>2, <1>3 DEF Whole
  <1>5. Window(list, n, max) = system \o rest
    BY DEF Window
  <1> HIDE DEF system, others, fewer, rest
  <1>6. IsSubsequence(rest, others)
    BY <1>2, <1>3, <1>4, SubsequencesCompose
  <1>7. n \notin {NoLimit, 0} => Len(rest) <= n
    <2>1. Len(rest) <= Len(fewer) /\ Len(rest) \in Nat /\ Len(fewer) \in Nat
      BY <1>3, <1>4, SubsequencesAreShorter
    <2> QED BY <1>2, <2>1
  <1> QED BY <1>3, <1>5, <1>6, <1>7, Zenon DEF Windowed, system, others

(* A part a reducer leaves is well formed because its contract says so.    *)
LEMMA ReductionIsWindowed ==
    ASSUME NEW list, Whole(list), NEW max \in Int,
           NEW r \in Reductions(NotOfSystem(list), max - Tokens(OfSystem(list)))
    PROVE  /\ r \in Seq(Messages)
           /\ WellFormed(r)
           /\ IsSubsequence(r, NotOfSystem(list))
           /\ Tokens(OfSystem(list)) + Tokens(r) <= Max({max, Tokens(OfSystem(list))})
  <1> DEFINE system == OfSystem(list)
             others == NotOfSystem(list)
             used == Tokens(system)
  <1>1. system \in Seq(Messages) /\ others \in Seq(Messages)
    BY SystemIsApart DEF Whole
  <1>2. PICK keep \in SUBSET DOMAIN others :
            r = Part(others, keep) /\ WellFormed(r) /\ Tokens(r) <= max - used
    BY DEF Reductions
  <1>3. r \in Seq(Messages) /\ \E place : Picks(place, r, others)
    <2> HIDE DEF others
    <2> QED BY <1>1, <1>2, PartIsPicked
  <1>4. IsSubsequence(r, others)
    <2> HIDE DEF others
    <2> QED BY <1>1, <1>3, PicksAreSubsequences
  <1>5. used \in Nat /\ Tokens(r) \in Nat
    BY <1>1, <1>3, TokensAddUp
  <1>6. used + Tokens(r) <= Max({max, used})
    <2> HIDE DEF used
    <2> QED BY <1>2, <1>5, MoreOf
  <1> QED BY <1>2, <1>3, <1>4, <1>6

(* Two well-formed conversations make one.                                 *)
LEMMA WellFormedJoin ==
    ASSUME NEW some \in Seq(Messages), WellFormed(some), NEW more \in Seq(Messages), WellFormed(more)
    PROVE  WellFormed(some \o more)
  <1> DEFINE m == Len(some)
             n == Len(more)
             all == some \o more
  <1>1. /\ m \in Nat /\ n \in Nat /\ Len(all) = m + n /\ DOMAIN all = 1 .. m + n
        /\ DOMAIN some = 1 .. m /\ DOMAIN more = 1 .. n
        /\ \A i \in 1 .. m : all[i] = some[i]
        /\ \A i \in 1 .. n : all[m + i] = more[i]
    OBVIOUS
  <1>2. Len(some) = m /\ Len(more) = n
    OBVIOUS
  <1> HIDE DEF m, n, all
  <1>3. ASSUME NEW i \in 1 .. m + n, i \notin 1 .. m
        PROVE  i - m \in 1 .. n /\ all[i] = more[i - m] /\ m + (i - m) = i
    <2>1. i - m \in 1 .. n /\ m + (i - m) = i
      BY <1>1, <1>3
    <2> QED BY <1>1, <2>1
  <1>4. ASSUME NEW i \in 1 .. m + n, all[i].role = "tool"
        PROVE  \E j \in 1 .. i - 1 :
                  /\ MakesCalls(all[j])
                  /\ all[i].ids \subseteq all[j].ids
                  /\ \A k \in j + 1 .. i - 1 : all[k].role = "tool"
    <2>1. CASE i \in 1 .. m
      <3>1. PICK j \in 1 .. i - 1 :
                /\ MakesCalls(some[j])
                /\ some[i].ids \subseteq some[j].ids
                /\ \A k \in j + 1 .. i - 1 : some[k].role = "tool"
        BY <1>1, <1>4, <2>1 DEF WellFormed
      <3>2. \A k \in 1 .. i : all[k] = some[k]
        BY <1>1, <2>1
      <3> QED BY <1>1, <2>1, <3>1, <3>2
    <2>2. CASE i \notin 1 .. m
      <3>1. i - m \in 1 .. n /\ all[i] = more[i - m]
        BY <1>3, <2>2
      <3>2. PICK j \in 1 .. (i - m) - 1 :
                /\ MakesCalls(more[j])
                /\ more[i - m].ids \subseteq more[j].ids
                /\ \A k \in j + 1 .. (i - m) - 1 : more[k].role = "tool"
        BY <1>1, <1>4, <3>1 DEF WellFormed
      <3>3. m + j \in 1 .. i - 1 /\ all[m + j] = more[j]
        <4>1. j \in 1 .. n /\ j < i - m
          BY <1>1, <3>1
        <4> QED BY <1>1, <4>1
      <3>4. ASSUME NEW k \in m + j + 1 .. i - 1 PROVE all[k].role = "tool"
        <4>1. k - m \in j + 1 .. (i - m) - 1 /\ k - m \in 1 .. n /\ m + (k - m) = k
          BY <1>1, <3>1
        <4>2. all[m + (k - m)] = more[k - m]
          BY <1>1, <4>1
        <4> QED BY <3>2, <4>1, <4>2
      <3> QED BY <3>1, <3>2, <3>3, <3>4
    <2> QED BY <2>1, <2>2
  <1>5. ASSUME NEW i \in 1 .. m + n, MakesCalls(all[i]), NEW id \in all[i].ids
        PROVE  \E j \in i + 1 .. Len(all) : all[j].role = "tool" /\ all[j].ids = {id}
    <2>1. CASE i \in 1 .. m
      <3>1. PICK j \in i + 1 .. m : some[j].role = "tool" /\ some[j].ids = {id}
        BY <1>1, <1>2, <1>5, <2>1 DEF WellFormed
      <3>2. j \in 1 .. m /\ j \in i + 1 .. Len(all)
        BY <1>1, <2>1
      <3> QED BY <1>1, <3>1, <3>2
    <2>2. CASE i \notin 1 .. m
      <3>1. i - m \in 1 .. n /\ all[i] = more[i - m]
        BY <1>3, <2>2
      <3>2. PICK j \in (i - m) + 1 .. n : more[j].role = "tool" /\ more[j].ids = {id}
        <4>1. MakesCalls(more[i - m]) /\ id \in more[i - m].ids /\ i - m \in DOMAIN more
          BY <1>1, <1>5, <3>1
        <4> QED BY <1>2, <4>1, Zenon DEF WellFormed
      <3>3. m + j \in i + 1 .. m + n /\ all[m + j] = more[j]
        BY <1>1, <3>1
      <3> QED BY <1>1, <3>2, <3>3
    <2> QED BY <2>1, <2>2
  <1>6. WellFormed(all)
    BY <1>1, <1>4, <1>5, Zenon DEF WellFormed
  <1> QED BY <1>6 DEF all

LEMMA SystemIsWellFormed ==
    ASSUME NEW system \in Seq(Messages), \A i \in 1 .. Len(system) : IsSystem(system[i])
    PROVE  WellFormed(system)
  <1>1. DOMAIN system = 1 .. Len(system)
    OBVIOUS
  <1> QED BY <1>1, RolesAreApart DEF WellFormed

(* What ChatWindow may send, for the history and the step at hand.         *)
Fitting(sent) ==
    LET system == OfSystem(history)
        others == SubSeq(sent, Len(system) + 1, Len(sent))
    IN /\ SubSeq(sent, 1, Len(system)) = system
       /\ IsSubsequence(others, NotOfSystem(history))
       /\ (step.maxMessages \notin {NoLimit, 0} /\ ~(step.reducer /\ step.maxTokens # NoLimit)) => Len(others) <= step.maxMessages
       /\ step.maxTokens # NoLimit =>
             Tokens(sent) <= Max({step.maxTokens, Tokens(system)})

(* The system messages with a well-formed rest in the limits are what is   *)
(* wanted ...                                                              *)
LEMMA SystemThenRestFits ==
    ASSUME Whole(history), NEW rest \in Seq(Messages), WellFormed(rest),
           IsSubsequence(rest, NotOfSystem(history)),
           (step.maxMessages \notin {NoLimit, 0} /\ ~(step.reducer /\ step.maxTokens # NoLimit)) => Len(rest) <= step.maxMessages,
           step.maxTokens # NoLimit =>
               Tokens(OfSystem(history)) + Tokens(rest) <= Max({step.maxTokens, Tokens(OfSystem(history))}),
           NEW sent, sent = OfSystem(history) \o rest
    PROVE  sent \in Seq(Messages) /\ WellFormed(sent) /\ Fitting(sent)
  <1> DEFINE system == OfSystem(history)
             others == SubSeq(sent, Len(system) + 1, Len(sent))
  <1>1. system \in Seq(Messages) /\ WellFormed(system)
    BY SystemIsApart, SystemIsWellFormed
  <1>2. sent \in Seq(Messages) /\ WellFormed(sent)
    BY <1>1, WellFormedJoin
  <1>3. SubSeq(sent, 1, Len(system)) = system /\ others = rest
    <2> HIDE DEF system
    <2> QED BY <1>1 DEF system
  <1>4. Tokens(sent) = Tokens(system) + Tokens(rest)
    BY <1>1, TokensAddUp
  <1>5. Fitting(sent)
    <2> HIDE DEF others
    <2> QED BY <1>3, <1>4, Zenon DEF Fitting, others
  <1> QED BY <1>2, <1>5

(* ... and chat sends nothing else.                                        *)
LEMMA ChatWindowsFit ==
    ASSUME ModelAssumption, step \in ModelSteps \union EmptySteps, Whole(history), NEW sent \in ChatWindow
    PROVE  sent \in Seq(Messages) /\ WellFormed(sent) /\ Fitting(sent)
  <1> DEFINE system == OfSystem(history)
             budget == step.maxTokens - Tokens(system)
  <1>1. (step.maxMessages = NoLimit \/ step.maxMessages \in Nat) /\ step.maxTokens \in Int
    BY DEF ModelAssumption
  <1>2. system \in Seq(Messages)
    BY SystemIsApart
  <1>3. CASE ~step.reducer \/ step.maxTokens = NoLimit
    <2>1. sent = Window(history, step.maxMessages, step.maxTokens)
      BY <1>3 DEF ChatWindow
    <2>2. Windowed(sent, history, step.maxMessages, step.maxTokens)
      BY <1>1, <2>1, WindowIsWindowed
    <2>3. PICK rest : /\ Whole(rest)
                      /\ sent = OfSystem(history) \o rest
                      /\ IsSubsequence(rest, NotOfSystem(history))
                      /\ step.maxMessages \notin {NoLimit, 0} => Len(rest) <= step.maxMessages
                      /\ step.maxTokens # NoLimit =>
                            Tokens(OfSystem(history)) + Tokens(rest) <= Max({step.maxTokens, Tokens(OfSystem(history))})
      BY <2>2, Zenon DEF Windowed
    <2>4. rest \in Seq(Messages) /\ WellFormed(rest)
      BY <2>3 DEF Whole
    <2> QED BY <2>3, <2>4, SystemThenRestFits
  <1>4. CASE step.reducer /\ step.maxTokens # NoLimit /\ budget <= 0
    <2>1. sent = system \o <<>>
      <3>1. sent = system
        BY <1>4 DEF ChatWindow
      <3> HIDE DEF system
      <3> QED BY <1>2, <3>1
    <2>2. Whole(<<>>) /\ IsSubsequence(<<>>, NotOfSystem(history))
      BY NothingIsWhole, SystemIsApart, NothingIsASubsequence DEF Whole
    <2>3. Tokens(system) \in Nat /\ Tokens(<<>>) = 0
      BY <1>2, TokensAddUp, NothingCostsNothing
    <2>4. Tokens(system) + Tokens(<<>>) <= Max({step.maxTokens, Tokens(system)})
      <3> HIDE DEF system
      <3> QED BY <1>1, <2>3, MoreOf
    <2>5. <<>> \in Seq(Messages) /\ WellFormed(<<>>)
      BY <2>2 DEF Whole
    <2> QED BY <1>4, <2>1, <2>2, <2>4, <2>5, SystemThenRestFits
  <1>5. CASE step.reducer /\ step.maxTokens # NoLimit /\ ~(budget <= 0)
    <2>1. PICK r \in Reductions(NotOfSystem(history), budget) : sent = system \o r
      BY <1>5 DEF ChatWindow
    <2>2. /\ r \in Seq(Messages) /\ WellFormed(r) /\ IsSubsequence(r, NotOfSystem(history))
          /\ Tokens(OfSystem(history)) + Tokens(r) <= Max({step.maxTokens, Tokens(OfSystem(history))})
      BY <1>1, <2>1, ReductionIsWindowed
    <2> QED BY <1>5, <2>1, <2>2, SystemThenRestFits
  <1> QED BY <1>3, <1>4, <1>5

(* Two whole conversations make one when no call id is in both.            *)
LEMMA WholeJoin ==
    ASSUME NEW some, Whole(some), NEW more, Whole(more),
           \A i \in 1 .. Len(some), j \in 1 .. Len(more) :
              (MakesCalls(some[i]) /\ MakesCalls(more[j])) => some[i].ids \intersect more[j].ids = {}
    PROVE  Whole(some \o more)
  <1> DEFINE m == Len(some)
             n == Len(more)
             all == some \o more
  <1>1. /\ some \in Seq(Messages) /\ more \in Seq(Messages)
        /\ m \in Nat /\ n \in Nat
    BY DEF Whole
  <1>2. /\ all \in Seq(Messages) /\ Len(all) = m + n
        /\ \A i \in 1 .. m : all[i] = some[i]
        /\ \A i \in 1 .. n : all[m + i] = more[i]
    BY <1>1
  <1>3. WellFormed(all)
    <2> HIDE DEF all
    <2> QED BY <1>1, WellFormedJoin DEF Whole, all
  <1> HIDE DEF all
  <1>4. ASSUME NEW i \in 1 .. m + n
        PROVE  \/ i \in 1 .. m /\ all[i] = some[i]
               \/ i - m \in 1 .. n /\ all[i] = more[i - m]
    <2>1. CASE i \in 1 .. m
      BY <1>2, <2>1
    <2>2. CASE i \notin 1 .. m
      <3> HIDE DEF m, n
      <3>1. i - m \in 1 .. n /\ m + (i - m) = i
        BY <1>1, <2>2
      <3> QED BY <1>2, <3>1
    <2> QED BY <2>1, <2>2
  <1>5. ASSUME NEW i \in 1 .. m + n, all[i].role = "tool" PROVE \E id \in Nat : all[i].ids = {id}
    <2>1. CASE i \in 1 .. m /\ all[i] = some[i]
      BY <1>5, <2>1, Zenon DEF Whole
    <2>2. CASE i - m \in 1 .. n /\ all[i] = more[i - m]
      BY <1>5, <2>2, Zenon DEF Whole
    <2> QED BY <1>4, <2>1, <2>2
  <1>6. ASSUME NEW i \in 1 .. m + n, NEW j \in 1 .. m + n,
               MakesCalls(all[i]), MakesCalls(all[j]), i # j
        PROVE  all[i].ids \intersect all[j].ids = {}
    <2>1. CASE i \in 1 .. m /\ all[i] = some[i] /\ j \in 1 .. m /\ all[j] = some[j]
      BY <1>6, <2>1 DEF Whole
    <2>2. CASE i \in 1 .. m /\ all[i] = some[i] /\ j - m \in 1 .. n /\ all[j] = more[j - m]
      BY <1>6, <2>2
    <2>3. CASE i - m \in 1 .. n /\ all[i] = more[i - m] /\ j \in 1 .. m /\ all[j] = some[j]
      BY <1>6, <2>3
    <2>4. CASE i - m \in 1 .. n /\ all[i] = more[i - m] /\ j - m \in 1 .. n /\ all[j] = more[j - m]
      <3>1. i - m # j - m
        BY <1>1, <1>6
      <3>2. MakesCalls(more[i - m]) /\ MakesCalls(more[j - m])
        BY <1>6, <2>4
      <3>3. more[i - m].ids \intersect more[j - m].ids = {}
        BY <2>4, <3>1, <3>2, Zenon DEF Whole
      <3> QED BY <2>4, <3>3
    <2> QED BY <1>4, <2>1, <2>2, <2>3, <2>4
  <1>7. Whole(all)
    BY <1>2, <1>3, <1>5, <1>6, Zenon DEF Whole
  <1> QED BY <1>7 DEF all

(* An answer without calls, or the user's or the system's message.         *)
LEMMA TextIsWhole ==
    ASSUME NEW m \in Messages, m.role # "tool", ~MakesCalls(m)
    PROVE  Whole(<<m>>)
  <1> DEFINE list == <<m>>
  <1>1. list \in Seq(Messages) /\ Len(list) = 1 /\ DOMAIN list = 1 .. 1 /\ list[1] = m
    OBVIOUS
  <1> HIDE DEF list
  <1>2. \A i \in 1 .. 1 : list[i] = m
    BY <1>1
  <1>3. WellFormed(list)
    BY <1>1, <1>2 DEF WellFormed
  <1>4. Whole(list)
    BY <1>1, <1>2, <1>3 DEF Whole
  <1> QED BY <1>4 DEF list

(* A turn of an assistant: what it calls, then some of the answers; open   *)
(* are the calls that have none yet.                                       *)
Turning(turn, open) ==
    /\ turn \in Seq(Messages)
    /\ Len(turn) > 0
    /\ MakesCalls(turn[1])
    /\ \A k \in 2 .. Len(turn) : turn[k].role = "tool" /\ turn[k].ids \subseteq turn[1].ids
    /\ \A id \in turn[1].ids :
          \/ \E k \in 2 .. Len(turn) : turn[k].ids = {id}
          \/ \E c \in 1 .. Len(open) : open[c].id = id
    /\ \A c \in 1 .. Len(open) : open[c].id \in turn[1].ids

(* A turn without open calls is well formed.                               *)
LEMMA AnsweredTurns ==
    ASSUME NEW turn, Turning(turn, <<>>) PROVE WellFormed(turn)
  <1> DEFINE n == Len(turn)
  <1>1. turn \in Seq(Messages) /\ n \in Nat /\ n > 0 /\ DOMAIN turn = 1 .. n
    BY DEF Turning
  <1>2. \A id \in turn[1].ids : \E k \in 2 .. n : turn[k].ids = {id}
    <2> DEFINE open == <<>>
    <2>1. \A c \in 1 .. Len(open) : FALSE
      OBVIOUS
    <2>2. Turning(turn, open)
      OBVIOUS
    <2> HIDE DEF open
    <2> QED BY <2>1, <2>2 DEF Turning
  <1>3. /\ MakesCalls(turn[1])
        /\ \A k \in 2 .. n : turn[k].role = "tool" /\ turn[k].ids \subseteq turn[1].ids
    BY DEF Turning
  <1> HIDE DEF n
  <1>4. ASSUME NEW i \in 1 .. n, turn[i].role = "tool"
        PROVE  \E j \in 1 .. i - 1 :
                  /\ MakesCalls(turn[j])
                  /\ turn[i].ids \subseteq turn[j].ids
                  /\ \A k \in j + 1 .. i - 1 : turn[k].role = "tool"
    <2>1. i # 1
      BY <1>3, <1>4 DEF MakesCalls
    <2>2. i \in 2 .. n /\ 1 \in 1 .. i - 1
      BY <1>1, <2>1
    <2>3. \A k \in 1 + 1 .. i - 1 : turn[k].role = "tool"
      BY <1>1, <1>3
    <2> QED BY <1>3, <2>2, <2>3
  <1>5. ASSUME NEW i \in 1 .. n, MakesCalls(turn[i]), NEW id \in turn[i].ids
        PROVE  \E j \in i + 1 .. n : turn[j].role = "tool" /\ turn[j].ids = {id}
    <2>1. i = 1
      <3> SUFFICES ASSUME i # 1 PROVE FALSE
        OBVIOUS
      <3>1. i \in 2 .. n
        BY <1>1
      <3> QED BY <1>3, <1>5, <3>1 DEF MakesCalls
    <2>2. PICK k \in 2 .. n : turn[k].ids = {id}
      BY <1>2, <1>5, <2>1
    <2> QED BY <1>3, <2>1, <2>2
  <1> QED BY <1>1, <1>4, <1>5, Zenon DEF WellFormed, n

(* An assistant with fresh calls and an answer to each is whole.           *)
LEMMA TurnsAreWhole ==
    ASSUME NEW base \in Nat, NEW n \in Nat, n > 0,
           NEW turn \in Seq(Messages), Len(turn) = n + 1,
           turn[1].role = "assistant", turn[1].ids = base + 1 .. base + n,
           \A k \in 2 .. n + 1 : turn[k].role = "tool" /\ turn[k].ids = {base + (k - 1)}
    PROVE  /\ Whole(turn)
           /\ \A i \in 1 .. Len(turn) : MakesCalls(turn[i]) => turn[i].ids = base + 1 .. base + n
  <1>1. Turning(turn, <<>>)
    <2> DEFINE open == <<>>
    <2>1. MakesCalls(turn[1])
      <3>1. base + 1 \in turn[1].ids
        OBVIOUS
      <3> QED BY <3>1 DEF MakesCalls
    <2>2. ASSUME NEW id \in turn[1].ids PROVE \E k \in 2 .. n + 1 : turn[k].ids = {id}
      <3>1. id \in base + 1 .. base + n
        OBVIOUS
      <3>2. id - base + 1 \in 2 .. n + 1 /\ base + ((id - base + 1) - 1) = id
        BY <3>1
      <3> QED BY <3>2
    <2>3. ASSUME NEW k \in 2 .. n + 1
          PROVE  turn[k].role = "tool" /\ turn[k].ids \subseteq turn[1].ids
      <3>1. base + (k - 1) \in base + 1 .. base + n
        OBVIOUS
      <3>2. turn[k].role = "tool" /\ turn[k].ids = {base + (k - 1)}
        OBVIOUS
      <3> QED BY <3>1, <3>2, Zenon
    <2>4. \A c \in 1 .. Len(open) : FALSE
      OBVIOUS
    <2> HIDE DEF open
    <2>5. Len(turn) > 0 /\ 2 .. Len(turn) = 2 .. n + 1
      OBVIOUS
    <2>6. Turning(turn, open)
      BY <2>1, <2>2, <2>3, <2>4, <2>5, Zenon DEF Turning
    <2> QED BY <2>6 DEF open
  <1>2. WellFormed(turn)
    BY <1>1, AnsweredTurns
  <1>3. \A i \in 1 .. n + 1 : i = 1 \/ i \in 2 .. n + 1
    OBVIOUS
  <1>4. ASSUME NEW i \in 1 .. n + 1, MakesCalls(turn[i]) PROVE i = 1
    BY <1>3, <1>4 DEF MakesCalls
  <1>5. ASSUME NEW i \in 1 .. n + 1, turn[i].role = "tool" PROVE \E id \in Nat : turn[i].ids = {id}
    <2>1. i \in 2 .. n + 1
      BY <1>3, <1>5
    <2>2. turn[i].ids = {base + (i - 1)} /\ base + (i - 1) \in Nat
      BY <2>1
    <2> QED BY <2>2
  <1>6. Whole(turn)
    BY <1>2, <1>4, <1>5 DEF Whole
  <1> QED BY <1>4, <1>6

LEMMA JoinedInOrder ==
    ASSUME NEW some \in Seq(Messages), NEW more \in Seq(Messages)
    PROVE  /\ Len(some) \in Nat /\ Len(more) \in Nat
           /\ some \o more \in Seq(Messages)
           /\ Len(some \o more) = Len(some) + Len(more)
           /\ \A i \in 1 .. Len(some) : (some \o more)[i] = some[i]
           /\ \A i \in 1 .. Len(more) : (some \o more)[Len(some) + i] = more[i]
  OBVIOUS

LEMMA FirstOfJoin ==
    ASSUME NEW some \in Seq(Messages), Len(some) = 1, NEW more \in Seq(Messages)
    PROVE  /\ some \o more \in Seq(Messages)
           /\ Len(some \o more) = Len(more) + 1
           /\ (some \o more)[1] = some[1]
           /\ \A k \in 2 .. Len(more) + 1 : k - 1 \in 1 .. Len(more) /\ (some \o more)[k] = more[k - 1]
  <1> DEFINE m == Len(some)
             n == Len(more)
             all == some \o more
  <1>1. /\ m \in Nat /\ n \in Nat /\ all \in Seq(Messages) /\ Len(all) = m + n
        /\ \A i \in 1 .. m : all[i] = some[i]
        /\ \A i \in 1 .. n : all[m + i] = more[i]
    BY JoinedInOrder, Zenon
  <1>2. m = 1
    OBVIOUS
  <1> HIDE DEF m, n, all
  <1>3. ASSUME NEW k \in 2 .. n + 1 PROVE k - 1 \in 1 .. n /\ all[k] = more[k - 1]
    <2>1. k - 1 \in 1 .. n /\ m + (k - 1) = k
      BY <1>1, <1>2
    <2> QED BY <1>1, <2>1
  <1>4. Len(all) = n + 1 /\ all[1] = some[1]
    BY <1>1, <1>2
  <1> QED BY <1>1, <1>3, <1>4 DEF all, n

(* ComposeCalls adds such a turn.                                          *)
LEMMA ComposedTurns ==
    ASSUME NEW base \in Nat, NEW n \in Nat, n > 0
    PROVE  LET turn == <<Message("assistant", base + 1 .. base + n, 1)>>
                         \o [i \in 1 .. n |-> Message("tool", {base + i}, 1)]
           IN /\ Whole(turn)
              /\ \A i \in 1 .. Len(turn) : MakesCalls(turn[i]) => turn[i].ids = base + 1 .. base + n
  <1> DEFINE call == Message("assistant", base + 1 .. base + n, 1)
             answer(i) == Message("tool", {base + i}, 1)
             first == <<call>>
             answers == [i \in 1 .. n |-> answer(i)]
             turn == first \o answers
  <1>1. call \in Messages /\ call.role = "assistant" /\ call.ids = base + 1 .. base + n
    BY DEF Message, Messages
  <1>2. ASSUME NEW i \in 1 .. n
        PROVE  answer(i) \in Messages /\ answer(i).role = "tool" /\ answer(i).ids = {base + i}
    <2>1. base + i \in Nat
      OBVIOUS
    <2> QED BY <2>1 DEF Message, Messages
  <1> HIDE DEF call, answer
  <1>3. first \in Seq(Messages) /\ Len(first) = 1 /\ first[1] = call
    BY <1>1
  <1>4. answers \in Seq(Messages) /\ Len(answers) = n
    BY <1>2
  <1>0. \A i \in 1 .. n : answers[i] = answer(i)
    BY Zenon
  <1> HIDE DEF first, answers
  <1>5. /\ turn \in Seq(Messages) /\ Len(turn) = n + 1 /\ turn[1] = call
        /\ \A k \in 2 .. n + 1 : k - 1 \in 1 .. n /\ turn[k] = answers[k - 1]
    BY <1>3, <1>4, FirstOfJoin
  <1> HIDE DEF turn
  <1>6. ASSUME NEW k \in 2 .. n + 1 PROVE turn[k].role = "tool" /\ turn[k].ids = {base + (k - 1)}
    <2>1. k - 1 \in 1 .. n /\ turn[k] = answer(k - 1)
      BY <1>0, <1>5
    <2> QED BY <1>2, <2>1
  <1>7. /\ Whole(turn)
        /\ \A i \in 1 .. Len(turn) : MakesCalls(turn[i]) => turn[i].ids = base + 1 .. base + n
    <2>1. turn[1].role = "assistant" /\ turn[1].ids = base + 1 .. base + n
      BY <1>1, <1>5
    <2>2. turn \in Seq(Messages) /\ Len(turn) = n + 1
      BY <1>5
    <2> QED BY <1>6, <2>1, <2>2, TurnsAreWhole
  <1> QED BY <1>7 DEF turn, first, answers, call, answer

-----------------------------------------------------------------------------
(* The invariant: while the conversation is composed it is whole and its   *)
(* ids are used up; what is sent, or may be sent next, is well formed as   *)
(* long as the preprocessors left it so; and while tools run the messages  *)
(* are such a part and a turn whose open calls are the ones still to run.  *)
ModelCall == [id : Nat, tool : Tools \union {"unknown"}, args : {"good", "bad"}]

Composing ==
    /\ Whole(history)
    /\ \A i \in 1 .. Len(history) : MakesCalls(history[i]) => history[i].ids \subseteq 1 .. ids

Answering ==
    \E before \in Seq(Messages), turn \in Seq(Messages) :
        /\ messages = before \o turn
        /\ intact => WellFormed(before)
        /\ Turning(turn, calls)

Conversing ==
    /\ step \in ModelSteps \union EmptySteps
    /\ ids \in Nat /\ asked \in Nat
    /\ calls \in Seq(ModelCall)
    /\ at \in {"compose", "start"} => Composing
    /\ at \in {"complete", "stream", "loop", "asked"} =>
           messages \in Seq(Messages) /\ (intact => WellFormed(messages))
    /\ at = "tools" => Answering
    /\ at \in {"asked", "tools"} => asked > 0
    /\ WindowKeepsItsLimits

(* It holds at first, and every action keeps it.                           *)
LEMMA ConversingAtStart == ModelAssumption /\ ModelStart => Conversing
  <1> SUFFICES ASSUME ModelStart PROVE Conversing
    OBVIOUS
  <1>1. at \in {"compose", "start"}
    BY DEF ModelStart
  <1>2. history = <<>> /\ calls = <<>> /\ ids = 0 /\ asked = 0 /\ step \in ModelSteps \union EmptySteps
    BY DEF ModelStart
  <1>3. Composing
    BY <1>2, NothingIsWhole DEF Composing
  <1> QED BY <1>1, <1>2, <1>3 DEF Conversing, WindowKeepsItsLimits, FirstRequest

(* Where the provider is asked nothing, nothing has to be shown.           *)
LEMMA ConversingWhenOver ==
    ASSUME Conversing, NEW how, EndModel(how), asked' = asked \/ asked' = asked + 1, ids' = ids
    PROVE  Conversing'
  <1>1. at' = "over" /\ calls' = <<>> /\ step' = step
    BY DEF EndModel
  <1>2. calls' \in Seq(ModelCall)
    BY <1>1
  <1>3. asked' \in Nat /\ ids' \in Nat /\ step' \in ModelSteps \union EmptySteps
    BY <1>1 DEF Conversing
  <1> QED BY <1>1, <1>2, <1>3 DEF Conversing, WindowKeepsItsLimits, FirstRequest

(* A whole turn with fresh ids leaves the history whole.                   *)
LEMMA ConversingTurn ==
    ASSUME Conversing, NEW turn, Turn(turn), Whole(turn),
           ids' \in Nat, ids' >= ids,
           \A i \in 1 .. Len(turn) : MakesCalls(turn[i]) => turn[i].ids \subseteq ids + 1 .. ids'
    PROVE  Conversing'
  <1>1. /\ at = "compose" /\ at' = at /\ step' = step /\ calls' = calls /\ asked' = asked
        /\ history' = history \o turn
    BY DEF Turn
  <1>2. ids \in Nat /\ Composing
    BY <1>1 DEF Conversing
  <1>3. \A i \in 1 .. Len(history) : MakesCalls(history[i]) => history[i].ids \subseteq 1 .. ids
    BY <1>2 DEF Composing
  <1>4. Whole(history')
    <2>1. ASSUME NEW i \in 1 .. Len(history), NEW j \in 1 .. Len(turn),
                 MakesCalls(history[i]), MakesCalls(turn[j])
          PROVE  history[i].ids \intersect turn[j].ids = {}
      <3>1. history[i].ids \subseteq 1 .. ids /\ turn[j].ids \subseteq ids + 1 .. ids'
        BY <1>3, <2>1
      <3> QED BY <1>2, <3>1
    <2> QED BY <1>1, <1>2, <2>1, WholeJoin DEF Composing
  <1>5. \A i \in 1 .. Len(history') : MakesCalls(history'[i]) => history'[i].ids \subseteq 1 .. ids'
    <2> SUFFICES ASSUME NEW i \in 1 .. Len(history'), MakesCalls(history'[i])
                 PROVE  history'[i].ids \subseteq 1 .. ids'
      OBVIOUS
    <2>1. history \in Seq(Messages) /\ turn \in Seq(Messages)
      BY <1>2 DEF Composing, Whole
    <2>2. CASE i \in 1 .. Len(history)
      <3>1. history'[i] = history[i]
        BY <1>1, <2>1, <2>2
      <3>2. history[i].ids \subseteq 1 .. ids
        BY <1>3, <2>2, <3>1
      <3> QED BY <1>2, <3>1, <3>2
    <2>3. CASE i \notin 1 .. Len(history)
      <3>1. i - Len(history) \in 1 .. Len(turn) /\ history'[i] = turn[i - Len(history)]
        BY <1>1, <2>1, <2>3
      <3>2. turn[i - Len(history)].ids \subseteq ids + 1 .. ids'
        BY <3>1
      <3> QED BY <1>2, <3>1, <3>2
    <2> QED BY <2>2, <2>3
  <1>6. Composing'
    BY <1>4, <1>5 DEF Composing
  <1> QED BY <1>1, <1>6 DEF Conversing, WindowKeepsItsLimits, FirstRequest

LEMMA ConversingComposed == ASSUME Conversing, Compose PROVE Conversing'
  <1>0. ids \in Nat
    BY DEF Conversing
  <1>1. CASE ComposeText
    <2>1. PICK role \in {"user", "system"}, cost \in {1, 2} : Turn(<<Message(role, {}, cost)>>)
      BY <1>1 DEF ComposeText
    <2> DEFINE m == Message(role, {}, cost)
               turn == <<m>>
    <2>2. m \in Messages /\ m.role # "tool" /\ ~MakesCalls(m)
      BY DEF Message, Messages, MakesCalls
    <2> HIDE DEF m
    <2>3. Whole(turn)
      BY <2>2, TextIsWhole
    <2>4. Len(turn) = 1 /\ turn[1] = m
      OBVIOUS
    <2>5. Turn(turn)
      BY <2>1 DEF m
    <2> HIDE DEF turn
    <2>6. \A i \in 1 .. Len(turn) : ~MakesCalls(turn[i])
      BY <2>2, <2>4
    <2>7. ids' = ids
      BY <1>1 DEF ComposeText
    <2>8. ids' \in Nat /\ ids' >= ids
      BY <1>0, <2>7
    <2> QED BY <2>3, <2>5, <2>6, <2>8, ConversingTurn
  <1>2. CASE ComposeCalls
    <2>1. PICK n \in 1 .. MaxCalls :
              /\ Turn(<<Message("assistant", ids + 1 .. ids + n, 1)>>
                        \o [i \in 1 .. n |-> Message("tool", {ids + i}, 1)])
              /\ ids' = ids + n
      BY <1>2 DEF ComposeCalls
    <2> DEFINE turn == <<Message("assistant", ids + 1 .. ids + n, 1)>>
                          \o [i \in 1 .. n |-> Message("tool", {ids + i}, 1)]
    <2>2. n \in Nat /\ n > 0
      OBVIOUS
    <2>3. Turn(turn)
      BY <2>1
    <2>4. Whole(turn) /\ \A i \in 1 .. Len(turn) : MakesCalls(turn[i]) => turn[i].ids = ids + 1 .. ids + n
      BY <1>0, <2>2, ComposedTurns, Zenon
    <2>5. ids' \in Nat /\ ids' >= ids /\ ids' = ids + n
      BY <1>0, <2>1, <2>2
    <2> HIDE DEF turn
    <2> QED BY <2>3, <2>4, <2>5, ConversingTurn
  <1> QED BY <1>1, <1>2 DEF Compose

(* What is sent first is the window of a whole history.                    *)
LEMMA ConversingStarted == ASSUME ModelAssumption, Conversing, StartModel PROVE Conversing'
  <1>1. at \in {"compose", "start"} /\ asked' = asked /\ ids' = ids
    BY DEF StartModel
  <1>2. Composing /\ step \in ModelSteps \union EmptySteps
    BY <1>1 DEF Conversing
  <1>3. CASE \E how : EndModel(how)
    BY <1>1, <1>3, ConversingWhenOver
  <1>4. CASE /\ messages' \in IF step.primitive = "llm" THEN {history} ELSE ChatWindow
             /\ at' = IF step.stream THEN "stream" ELSE IF step.tools THEN "loop" ELSE "complete"
             /\ UNCHANGED <<step, history, calls, iteration, done>>
    <2>1. at' \in {"complete", "stream", "loop"} /\ step' = step /\ calls' = calls /\ history' = history
      BY <1>4
    <2>2. /\ messages' \in Seq(Messages) /\ WellFormed(messages')
          /\ step.primitive = "chat" => Fitting(messages')
      <3>1. CASE step.primitive = "llm"
        <4>1. messages' = history
          BY <1>4, <3>1
        <4> QED BY <1>2, <3>1, <4>1 DEF Composing, Whole
      <3>2. CASE step.primitive # "llm"
        <4>1. messages' \in ChatWindow
          BY <1>4, <3>2
        <4> QED BY <1>2, <4>1, ChatWindowsFit DEF Composing
      <3> QED BY <3>1, <3>2
    <2>3. WindowKeepsItsLimits'
      <3> SUFFICES ASSUME step.primitive = "chat" PROVE WindowKeepsItsLimits'
        BY <2>1 DEF WindowKeepsItsLimits, FirstRequest
      <3>1. Fitting(messages')
        BY <2>2
      <3> QED BY <2>1, <3>1, Zenon DEF WindowKeepsItsLimits, Fitting
    <2>4. WellFormed(messages)'
      BY <2>2 DEF WellFormed
    <2> QED BY <1>1, <2>1, <2>2, <2>3, <2>4 DEF Conversing
  <1> QED BY <1>3, <1>4 DEF StartModel

(* The calls of an answer open a turn.                                     *)
LEMMA ConversingCalls == ASSUME Conversing, ModelCallsTools PROVE Conversing'
  <1>1. /\ at = "asked" /\ at' = "tools" /\ step' = step /\ asked' = asked
        /\ messages \in Seq(Messages) /\ (intact => WellFormed(messages))
        /\ ids \in Nat /\ asked \in Nat /\ asked > 0 /\ intact' = intact
    BY DEF ModelCallsTools, Conversing
  <1>2. PICK n \in 1 .. MaxCalls :
            /\ \E wanted \in [1 .. n -> (Tools \union {"unknown"}) \X {"good", "bad"}] :
                  calls' = [i \in 1 .. n |->
                              [id |-> ids + i, tool |-> wanted[i][1], args |-> wanted[i][2]]]
            /\ messages' = Append(messages, Message("assistant", ids + 1 .. ids + n, 1))
            /\ ids' = ids + n
    BY Zenon DEF ModelCallsTools
  <1>3. PICK wanted \in [1 .. n -> (Tools \union {"unknown"}) \X {"good", "bad"}] :
            calls' = [i \in 1 .. n |->
                        [id |-> ids + i, tool |-> wanted[i][1], args |-> wanted[i][2]]]
    BY <1>2, Zenon
  <1>4. n \in Nat /\ n > 0 /\ ids' \in Nat
    BY <1>1, <1>2
  <1> DEFINE call(i) == [id |-> ids + i, tool |-> wanted[i][1], args |-> wanted[i][2]]
             m == Message("assistant", ids + 1 .. ids + n, 1)
             turn == <<m>>
  <1>5. ASSUME NEW i \in 1 .. n PROVE call(i) \in ModelCall /\ call(i).id = ids + i
    <2>1. wanted[i] \in (Tools \union {"unknown"}) \X {"good", "bad"}
      OBVIOUS
    <2>2. wanted[i][1] \in Tools \union {"unknown"} /\ wanted[i][2] \in {"good", "bad"}
      BY <2>1
    <2> QED BY <1>1, <2>2 DEF ModelCall
  <1>6. calls' = [i \in 1 .. n |-> call(i)]
    BY <1>3, Zenon
  <1> HIDE DEF call
  <1>7. calls' \in Seq(ModelCall) /\ Len(calls') = n
    BY <1>4, <1>5, <1>6
  <1>8. \A i \in 1 .. n : calls'[i].id = ids + i
    <2>1. \A i \in 1 .. n : calls'[i] = call(i)
      BY <1>6, Zenon
    <2> QED BY <1>5, <2>1
  <1>9. m \in Messages /\ m.ids = ids + 1 .. ids + n /\ MakesCalls(m)
    <2>1. m.role = "assistant" /\ m.ids = ids + 1 .. ids + n /\ m \in Messages
      BY <1>1, <1>4 DEF Message, Messages
    <2>2. ids + 1 \in m.ids
      BY <1>1, <1>4, <2>1
    <2> HIDE DEF m
    <2> QED BY <2>1, <2>2 DEF MakesCalls
  <1> HIDE DEF m
  <1>10. turn \in Seq(Messages) /\ Len(turn) = 1 /\ turn[1] = m
    BY <1>9
  <1>11. messages' = messages \o turn
    <2>1. messages' = Append(messages, m)
      BY <1>2 DEF m
    <2> QED BY <1>1, <1>9, <2>1
  <1> HIDE DEF turn
  <1>12. Turning(turn, calls')
    <2>1. \A k \in 2 .. Len(turn) : FALSE
      BY <1>10
    <2>2. ASSUME NEW id \in turn[1].ids PROVE \E c \in 1 .. Len(calls') : calls'[c].id = id
      <3>1. id \in ids + 1 .. ids + n
        BY <1>9, <1>10
      <3>2. id - ids \in 1 .. n /\ ids + (id - ids) = id
        BY <1>1, <1>4, <3>1
      <3> QED BY <1>7, <1>8, <3>2
    <2>3. ASSUME NEW c \in 1 .. Len(calls') PROVE calls'[c].id \in turn[1].ids
      <3>1. c \in 1 .. n
        BY <1>7
      <3>2. calls'[c].id = ids + c /\ ids + c \in ids + 1 .. ids + n
        BY <1>1, <1>4, <1>8, <3>1
      <3> QED BY <1>9, <1>10, <3>2
    <2>4. Len(turn) > 0 /\ MakesCalls(turn[1]) /\ turn \in Seq(Messages)
      BY <1>9, <1>10
    <2> QED BY <2>1, <2>2, <2>3, <2>4, Zenon DEF Turning
  <1>13. Answering'
    <2>1. (intact' => WellFormed(messages)) /\ messages \in Seq(Messages)
      BY <1>1
    <2>2. turn \in Seq(Messages)
      BY <1>10
    <2> QED BY <1>11, <1>12, <2>1, <2>2, Zenon DEF Answering
  <1> QED BY <1>1, <1>4, <1>7, <1>13 DEF Conversing, WindowKeepsItsLimits, FirstRequest

(* A tool message closes the first of them.                                *)
LEMMA ConversingRun == ASSUME Conversing, RunTool PROVE Conversing'
  <1>1. at = "tools" /\ calls # <<>> /\ asked' = asked /\ ids' = ids
    BY DEF RunTool
  <1>2. CASE \E how : EndModel(how)
    BY <1>1, <1>2, ConversingWhenOver
  <1>3. CASE /\ messages' = Append(messages, Message("tool", {Head(calls).id}, 1))
             /\ calls' = Tail(calls)
             /\ UNCHANGED <<step, at, target, history, iteration, intact, done>>
    <2>1. Answering /\ calls \in Seq(ModelCall) /\ ids \in Nat /\ asked \in Nat /\ asked > 0
      BY <1>1 DEF Conversing
    <2>2. PICK before \in Seq(Messages), turn \in Seq(Messages) :
              messages = before \o turn /\ (intact => WellFormed(before)) /\ Turning(turn, calls)
      BY <2>1, Zenon DEF Answering
    <2> DEFINE m == Message("tool", {Head(calls).id}, 1)
               more == Append(turn, m)
    <2>3. /\ Len(calls) \in Nat /\ Len(calls) > 0 /\ Head(calls) = calls[1]
          /\ Tail(calls) \in Seq(ModelCall) /\ Len(Tail(calls)) = Len(calls) - 1
          /\ \A c \in 1 .. Len(calls) - 1 : Tail(calls)[c] = calls[c + 1]
      BY <1>1, <2>1
    <2>4. calls[1] \in ModelCall
      BY <2>1, <2>3
    <2>5. m \in Messages /\ m.role = "tool" /\ m.ids = {calls[1].id}
      BY <2>3, <2>4 DEF Message, Messages, ModelCall
    <2> HIDE DEF m
    <2>6. /\ turn \in Seq(Messages) /\ Len(turn) \in Nat /\ Len(turn) > 0
          /\ MakesCalls(turn[1])
          /\ \A k \in 2 .. Len(turn) : turn[k].role = "tool" /\ turn[k].ids \subseteq turn[1].ids
          /\ \A c \in 1 .. Len(calls) : calls[c].id \in turn[1].ids
      BY <2>2 DEF Turning
    <2>7. /\ more \in Seq(Messages) /\ Len(more) = Len(turn) + 1 /\ more[Len(turn) + 1] = m
          /\ \A k \in 1 .. Len(turn) : more[k] = turn[k]
      BY <2>5, <2>6
    <2>8. messages' = before \o more
      <3>1. messages' = Append(messages, m)
        BY <1>3 DEF m
      <3>2. Append(before \o turn, m) = before \o Append(turn, m)
        BY <2>5, <2>6
      <3> QED BY <2>2, <3>1, <3>2
    <2> HIDE DEF more
    <2>9. Turning(more, Tail(calls))
      <3>1. 1 \in 1 .. Len(turn) /\ more[1] = turn[1]
        BY <2>6, <2>7
      <3>2. ASSUME NEW k \in 2 .. Len(more)
            PROVE  more[k].role = "tool" /\ more[k].ids \subseteq more[1].ids
        <4>1. CASE k = Len(turn) + 1
          <5>1. calls[1].id \in turn[1].ids
            BY <2>3, <2>6
          <5> QED BY <2>5, <2>7, <3>1, <4>1, <5>1
        <4>2. CASE k # Len(turn) + 1
          <5>1. k \in 2 .. Len(turn) /\ k \in 1 .. Len(turn)
            BY <2>6, <2>7, <4>2
          <5> QED BY <2>6, <2>7, <3>1, <5>1
        <4> QED BY <4>1, <4>2
      <3>3. ASSUME NEW id \in more[1].ids
            PROVE  \/ \E k \in 2 .. Len(more) : more[k].ids = {id}
                   \/ \E c \in 1 .. Len(Tail(calls)) : Tail(calls)[c].id = id
        <4>1. id \in turn[1].ids
          BY <3>1
        <4>2. CASE \E k \in 2 .. Len(turn) : turn[k].ids = {id}
          <5>1. PICK k \in 2 .. Len(turn) : turn[k].ids = {id}
            BY <4>2
          <5>2. k \in 2 .. Len(more) /\ more[k] = turn[k]
            BY <2>6, <2>7
          <5> QED BY <5>1, <5>2
        <4>3. CASE \E c \in 1 .. Len(calls) : calls[c].id = id
          <5>1. PICK c \in 1 .. Len(calls) : calls[c].id = id
            BY <4>3
          <5>2. CASE c = 1
            <6>1. Len(turn) + 1 \in 2 .. Len(more) /\ more[Len(turn) + 1].ids = {id}
              BY <2>5, <2>6, <2>7, <5>1, <5>2
            <6> QED BY <6>1
          <5>3. CASE c # 1
            <6>1. c - 1 \in 1 .. Len(calls) - 1 /\ (c - 1) + 1 = c
              BY <2>3, <5>3
            <6>2. Tail(calls)[c - 1] = calls[c]
              BY <2>3, <6>1
            <6> QED BY <2>3, <5>1, <6>1, <6>2
          <5> QED BY <5>2, <5>3
        <4>4. \/ \E k \in 2 .. Len(turn) : turn[k].ids = {id}
              \/ \E c \in 1 .. Len(calls) : calls[c].id = id
          BY <2>2, <4>1, Zenon DEF Turning
        <4> QED BY <4>2, <4>3, <4>4
      <3>4. ASSUME NEW c \in 1 .. Len(Tail(calls)) PROVE Tail(calls)[c].id \in more[1].ids
        <4>1. c \in 1 .. Len(calls) - 1 /\ c + 1 \in 1 .. Len(calls)
          BY <2>3
        <4> QED BY <2>3, <2>6, <3>1, <4>1
      <3>5. Len(more) > 0 /\ MakesCalls(more[1]) /\ more \in Seq(Messages)
        BY <2>6, <2>7, <3>1
      <3> QED BY <3>2, <3>3, <3>4, <3>5, Zenon DEF Turning
    <2>10. Turning(more, calls')
      BY <1>3, <2>9
    <2>11. Answering'
      <3>1. intact' => WellFormed(before)
        BY <1>3, <2>2
      <3> QED BY <2>2, <2>7, <2>8, <2>10, <3>1, Zenon DEF Answering
    <2>12. calls' \in Seq(ModelCall) /\ at' = "tools" /\ step' = step
      BY <1>1, <1>3, <2>3
    <2> QED BY <1>1, <2>1, <2>11, <2>12 DEF Conversing, WindowKeepsItsLimits, FirstRequest
  <1> QED BY <1>2, <1>3, Zenon DEF RunTool

(* When none is open, the messages are well formed again.                  *)
LEMMA ConversingAnswered == ASSUME Conversing, ToolsDone PROVE Conversing'
  <1>1. /\ at = "tools" /\ at' = "loop" /\ calls = <<>> /\ calls' = calls /\ messages' = messages
        /\ step' = step /\ asked' = asked /\ ids' = ids /\ intact' = intact
    BY DEF ToolsDone
  <1>2. Answering /\ ids \in Nat /\ asked \in Nat /\ asked > 0
    BY <1>1 DEF Conversing
  <1>3. PICK before \in Seq(Messages), turn \in Seq(Messages) :
            messages = before \o turn /\ (intact => WellFormed(before)) /\ Turning(turn, calls)
    BY <1>2, Zenon DEF Answering
  <1>4. turn \in Seq(Messages) /\ WellFormed(turn)
    BY <1>1, <1>3, AnsweredTurns DEF Turning
  <1>5. messages \in Seq(Messages) /\ (intact => WellFormed(messages))
    BY <1>3, <1>4, WellFormedJoin
  <1>6. messages' \in Seq(Messages) /\ (intact' => WellFormed(messages'))
    BY <1>1, <1>5
  <1>7. intact' => WellFormed(messages)'
    BY <1>6 DEF WellFormed
  <1> QED BY <1>1, <1>2, <1>6, <1>7 DEF Conversing, WindowKeepsItsLimits, FirstRequest

(* What the preprocessors leave is asked with.                             *)
LEMMA ConversingAsked == ASSUME Conversing, AskModel PROVE Conversing'
  <1>1. at = "loop" /\ ids' = ids
    BY DEF AskModel
  <1>2. messages \in Seq(Messages) /\ (intact => WellFormed(messages)) /\ asked \in Nat
    BY <1>1 DEF Conversing
  <1>3. CASE EndModel("max iterations") /\ asked' = asked
    BY <1>1, <1>3, ConversingWhenOver
  <1>4. CASE /\ messages' \in Preprocessed
             /\ intact' = (intact /\ (messages' = messages \/ WellFormed(messages')))
             /\ asked' = asked + 1 /\ at' = "asked"
             /\ UNCHANGED <<step, history, calls, done>>
    <2>1. asked' \in Nat /\ asked' > 0 /\ at' = "asked" /\ step' = step /\ calls' = calls
      BY <1>2, <1>4
    <2>2. messages' \in Seq(Messages)
      BY <1>2, <1>4 DEF Preprocessed
    <2>3. intact' => WellFormed(messages')
      <3> SUFFICES ASSUME intact' PROVE WellFormed(messages')
        OBVIOUS
      <3>1. intact /\ (messages' = messages \/ WellFormed(messages'))
        BY <1>4
      <3> QED BY <1>2, <3>1
    <2>4. intact' => WellFormed(messages)'
      BY <2>3 DEF WellFormed
    <2> QED BY <1>1, <2>1, <2>2, <2>4 DEF Conversing, WindowKeepsItsLimits, FirstRequest
  <1> QED BY <1>3, <1>4 DEF AskModel

LEMMA ConversingStays == ASSUME Conversing, UNCHANGED modelVars PROVE Conversing'
  <1>1. /\ step' = step /\ ids' = ids /\ asked' = asked /\ calls' = calls /\ at' = at
        /\ history' = history /\ messages' = messages /\ intact' = intact
    BY DEF modelVars
  <1>2. Composing => Composing'
    <2> SUFFICES ASSUME Composing PROVE Composing'
      OBVIOUS
    <2>1. Whole(history')
      BY <1>1 DEF Composing
    <2>2. \A i \in 1 .. Len(history') : MakesCalls(history'[i]) => history'[i].ids \subseteq 1 .. ids'
      BY <1>1 DEF Composing
    <2> QED BY <2>1, <2>2 DEF Composing
  <1>3. Answering' = Answering
    BY <1>1, Zenon DEF Answering
  <1>4. WindowKeepsItsLimits' = WindowKeepsItsLimits
    BY <1>1, Zenon DEF WindowKeepsItsLimits, FirstRequest
  <1>5. WellFormed(messages) => WellFormed(messages)'
    <2> SUFFICES ASSUME WellFormed(messages) PROVE WellFormed(messages)'
      OBVIOUS
    <2>1. WellFormed(messages')
      BY <1>1
    <2> QED BY <2>1 DEF WellFormed
  <1> QED BY <1>1, <1>2, <1>3, <1>4, <1>5 DEF Conversing

LEMMA ConversingOn ==
    ASSUME ModelAssumption, Conversing, [ModelNext \/ Compose]_modelVars PROVE Conversing'
  <1>1. CASE StartModel
    BY <1>1, ConversingStarted
  <1>2. CASE HandOverStream
    BY <1>2, ConversingWhenOver DEF HandOverStream
  <1>3. CASE CompleteOnce
    BY <1>3, ConversingWhenOver DEF CompleteOnce
  <1>4. CASE AskModel
    BY <1>4, ConversingAsked
  <1>5. CASE ModelFails
    BY <1>5, ConversingWhenOver DEF ModelFails
  <1>6. CASE ModelAnswers
    BY <1>6, ConversingWhenOver DEF ModelAnswers
  <1>7. CASE ModelCallsTools
    BY <1>7, ConversingCalls
  <1>8. CASE RunTool
    BY <1>8, ConversingRun
  <1>9. CASE ToolsDone
    BY <1>9, ConversingAnswered
  <1>10. CASE Compose
    BY <1>10, ConversingComposed
  <1>11. CASE UNCHANGED modelVars
    BY <1>11, ConversingStays
  <1> QED
    BY <1>1, <1>2, <1>3, <1>4, <1>5, <1>6, <1>7, <1>8, <1>9, <1>10, <1>11 DEF ModelNext

LEMMA AlwaysConversing == ModelSpec => []Conversing
  <1>1. ModelStart => Conversing
    BY ModelAssumption, ConversingAtStart
  <1>2. Conversing /\ [ModelNext \/ Compose]_modelVars => Conversing'
    BY ModelAssumption, ConversingOn
  <1> QED BY <1>1, <1>2, PTL DEF ModelSpec

(***************************************************************************)
(* Whatever the window of the chat primitive drops from whatever history,  *)
(* and however many calls the tool-use loop runs, no provider is sent a    *)
(* call without its answer or an answer without its call, unless a tool    *)
(* preprocessor of whatever kind has itself made the list so               *)
(* (primitives/chat.py, _tool_use.py).                                     *)
(***************************************************************************)
THEOREM RequestsStayWellFormed == ModelSpec => []RequestsAreWellFormed
  <1>1. Conversing => RequestsAreWellFormed
    BY DEF Conversing, RequestsAreWellFormed
  <1> QED BY <1>1, AlwaysConversing, PTL

(***************************************************************************)
(* The first request of a chat step keeps all system messages in front of  *)
(* a subsequence of the others, within max_messages and, if the system     *)
(* messages leave room, within max_context_tokens, for every history and   *)
(* any limits (_apply_context_window).                                     *)
(***************************************************************************)
THEOREM WindowsKeepTheirLimits == ModelSpec => []WindowKeepsItsLimits
  <1>1. Conversing => WindowKeepsItsLimits
    BY DEF Conversing
  <1> QED BY <1>1, AlwaysConversing, PTL
=============================================================================
