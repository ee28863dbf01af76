------------------------------- MODULE Stores -------------------------------
(***************************************************************************)
(* What is written behind the event loop's back: the kit and flow index    *)
(* (adapters/index_store.py), whose calls run in threads; the state store  *)
(* (adapters/state_store.py) with the checkpoints of a context             *)
(* (domain/models.py); and the composite memory (adapters/                 *)
(* memory_provider.py), which sets in the background.                      *)
(***************************************************************************)
EXTENDS Integers, Sequences, SequencesExt

CONSTANTS
    Items,         \* kits or flows
    Keys,          \* memory keys
    Threads,       \* bound: the syncs, or the saves, under way at once
    MaxWrites,     \* bound: values set in memory
    MaxStates,     \* bound: results stored in a context
    MaxSyncs       \* bound: syncs and toggles of the index

VARIABLES
    rows,          \* the index: item -> [enabled, since], or NoRow
    existing,      \* sync -> what it read of the index, or NotSyncing
    found,         \* sync -> the items it was called with
    choice,        \* history: item -> the user's last choice, TRUE unless made
    disturbed,     \* history: items whose last choice need not hold any more
    moves,         \* history: syncs and toggles so far

    live,          \* the context: results stored, of which position are recorded
    saves,         \* save -> what its thread has in hand, or NoSave
    file,          \* the file of the workflow: what it holds, or NoFile
    floor,         \* history: the position a restart finds at least, or Nowhere

    structured,    \* the structured provider: "in memory" or "external"
    memory,        \* key -> value of the structured provider
    pending,       \* background sets, in the order of their tasks
    latest,        \* history: key -> value last passed to set
    written        \* history: values so far

indexVars == <<rows, existing, found, choice, disturbed, moves>>
stateVars == <<live, saves, file, floor>>
memoryVars == <<structured, memory, pending, latest, written>>

NoRow == [enabled |-> TRUE, since |-> -1]
NotSyncing == <<>>
Nowhere == -1
NoSave == [stage |-> "none"]
NoFile == [position |-> Nowhere, results |-> Nowhere, cut |-> FALSE]

-----------------------------------------------------------------------------
(* The index. A thread runs each call; the SELECT of a sync is outside the *)
(* transaction that its first INSERT opens, which is then atomic.          *)
IndexIdle ==
    /\ rows = [i \in Items |-> NoRow]
    /\ existing = [c \in Threads |-> NotSyncing]
    /\ found = [c \in Threads |-> {}]
    /\ choice = [i \in Items |-> TRUE]
    /\ disturbed = {}
    /\ moves = 0

SyncReads(c, items) ==
    /\ existing[c] = NotSyncing
    /\ moves < MaxSyncs
    /\ existing' = [existing EXCEPT ![c] = rows]
    /\ found' = [found EXCEPT ![c] = items]
    /\ moves' = moves + 1
    /\ UNCHANGED <<rows, choice, disturbed>>

EndSync(c) ==
    /\ existing' = [existing EXCEPT ![c] = NotSyncing]
    /\ found' = [found EXCEPT ![c] = {}]
    /\ UNCHANGED <<choice, moves>>

\* Mutant: every row written is enabled.
SyncWritesEnabled(c) ==
    /\ existing[c] # NotSyncing
    /\ rows' = [i \in Items |-> IF i \notin found[c] THEN NoRow
                                ELSE [enabled |-> TRUE, since |-> moves]]
    /\ disturbed' = disturbed \union {i \in Items \ found[c] : ~rows[i].enabled}
    /\ EndSync(c)

(* Rows that were read keep their flag and their date, the others are new, *)
(* and what was not found is deleted, though it was switched off.          *)
SyncWrites(c) ==
    /\ existing[c] # NotSyncing
    /\ rows' = [i \in Items |->
                  CASE i \notin found[c]                            -> NoRow
                    [] i \in found[c] /\ existing[c][i] # NoRow     -> existing[c][i]
                    [] OTHER -> [enabled |-> TRUE, since |-> moves]]
    /\ disturbed' = disturbed \union {i \in Items \ found[c] : ~rows[i].enabled}
    /\ EndSync(c)

(* The database stays locked, or the like: nothing is written.             *)
SyncFails(c) ==
    /\ existing[c] # NotSyncing
    /\ EndSync(c)
    /\ UNCHANGED <<rows, disturbed>>

(* set_kit_enabled, set_flow_enabled: FALSE when there is no such row. A   *)
(* sync that has read another flag is going to write it back.              *)
SetEnabled(i, on) ==
    /\ moves < MaxSyncs
    /\ moves' = moves + 1
    /\ IF rows[i] = NoRow
       THEN UNCHANGED <<rows, choice, disturbed>>
       ELSE /\ rows' = [rows EXCEPT ![i].enabled = on]
            /\ choice' = [choice EXCEPT ![i] = on]
            /\ disturbed' =
                   IF \E c \in Threads : existing[c] # NotSyncing /\ existing[c][i].enabled # on
                   THEN disturbed \union {i} ELSE disturbed \ {i}
    /\ UNCHANGED <<existing, found>>

IndexNext ==
    \/ \E c \in Threads : SyncWrites(c) \/ SyncFails(c) \/ \E items \in SUBSET Items : SyncReads(c, items)
    \/ \E i \in Items, on \in BOOLEAN : SetEnabled(i, on)

-----------------------------------------------------------------------------
(* The state file of one workflow, whose context is in one process at a    *)
(* time. Each save runs in a thread, with a temporary file of its own; the *)
(* lock it takes is on that file and keeps nobody waiting.                 *)
StateIdle ==
    /\ live = [position |-> 0, results |-> 0]
    /\ saves = [c \in Threads |-> NoSave]
    /\ file = NoFile
    /\ floor = Nowhere

(* The executor stores a result; durable counts it once it is appended.    *)
StepStores ==
    /\ live.results < MaxStates
    /\ live' = [live EXCEPT !.results = @ + 1]
    /\ UNCHANGED <<saves, file, floor>>

StepRecorded ==
    /\ live.position < live.results
    /\ live' = [live EXCEPT !.position = @ + 1]
    /\ UNCHANGED <<saves, file, floor>>

(* serialize() copies the position; the results stay those of the context. *)
Checkpoint(c) ==
    /\ saves[c] = NoSave
    /\ saves' = [saves EXCEPT ![c] = [stage |-> "write", position |-> live.position,
                                     results |-> live.results, cut |-> FALSE, awaited |-> TRUE]]
    /\ UNCHANGED <<live, file, floor>>

UnderWay == {c \in Threads : saves[c] # NoSave}

EndSave(c) == saves' = [saves EXCEPT ![c] = NoSave]

(* The thread dumps the results while the context goes on: what it writes  *)
(* is none of it older than the checkpoint, and may be newer, in part.     *)
(* mkstemp, write and fsync follow; what the write returns is not looked   *)
(* at: the file may be cut short. Or an error, here or in the rename, the  *)
(* one of a result added just while the dump goes through them included,   *)
(* after which the temporary file is removed.                              *)
WriteTemporary(c) ==
    /\ saves[c].stage = "write"
    /\ UNCHANGED <<live, file, floor>>
    /\ \/ \E oldest \in saves[c].results .. live.results, short \in BOOLEAN :
             saves' = [saves EXCEPT ![c].stage = "rename", ![c].results = oldest, ![c].cut = short]
       \/ EndSave(c)

(* With its rename a save that is still awaited returns: from then on the  *)
(* file is no older than it, or than a save still under way, one whose     *)
(* caller was cancelled included.                                          *)
FloorAfter(c) ==
    IF saves[c].cut THEN Nowhere
    ELSE IF saves[c].awaited THEN Min({saves[d].position : d \in UnderWay})
    ELSE floor

Written(c) ==
    [position |-> saves[c].position, results |-> saves[c].results, cut |-> saves[c].cut]

\* Mutant: the old file is removed before the new one takes its name.
RemoveThenRename(c) ==
    /\ saves[c].stage = "rename"
    /\ UNCHANGED live
    /\ IF file # NoFile
       THEN file' = NoFile /\ UNCHANGED <<saves, floor>>
       ELSE file' = Written(c) /\ floor' = FloorAfter(c) /\ EndSave(c)

Rename(c) ==
    /\ saves[c].stage = "rename"
    /\ file' = Written(c)
    /\ floor' = FloorAfter(c)
    /\ EndSave(c)
    /\ UNCHANGED live

(* The caller of a save is cancelled: a thread that has begun goes on, one *)
(* that waits for its turn never begins.                                   *)
CancelSave(c) ==
    /\ saves[c] # NoSave
    /\ \/ saves' = [saves EXCEPT ![c].awaited = FALSE]
       \/ saves[c].stage = "write" /\ EndSave(c)
    /\ UNCHANGED <<live, file, floor>>

(* The process ends at any point; the next one restores what is there, and *)
(* starts anew if it cannot be read.                                       *)
Crash ==
    /\ live' = IF file = NoFile \/ file.cut THEN [position |-> 0, results |-> 0]
               ELSE [position |-> file.position, results |-> file.results]
    /\ saves' = [c \in Threads |-> NoSave]
    /\ UNCHANGED <<file, floor>>

(* Nothing holds a delete back; a save under way makes the file again.     *)
DeleteState ==
    /\ file' = NoFile
    /\ floor' = Nowhere
    /\ UNCHANGED <<live, saves>>

SaveGoesOn(c) == WriteTemporary(c) \/ Rename(c)

StateNext ==
    \/ StepStores \/ StepRecorded \/ Crash \/ DeleteState
    \/ \E c \in Threads : Checkpoint(c) \/ SaveGoesOn(c) \/ CancelSave(c)

-----------------------------------------------------------------------------
(* The composite memory: set returns at once, its task writes later.       *)
MemoryStart(provider) ==
    /\ structured = provider
    /\ memory = [k \in Keys |-> 0]
    /\ pending = <<>>
    /\ latest = [k \in Keys |-> 0]
    /\ written = 0

MemoryIdle == MemoryStart("in memory")

SetMemory(k) ==
    /\ written < MaxWrites
    /\ written' = written + 1
    /\ latest' = [latest EXCEPT ![k] = written + 1]
    /\ pending' = Append(pending, [key |-> k, value |-> written + 1])
    /\ UNCHANGED <<structured, memory>>

(* Tasks start in the order they were made, and a set in memory has no     *)
(* await in it; an external provider may take any order, and may fail,     *)
(* which is nobody's error.                                                *)
Land ==
    /\ UNCHANGED <<structured, latest, written>>
    /\ \E n \in DOMAIN pending :
          /\ structured = "in memory" => n = 1
          /\ pending' = RemoveAt(pending, n)
          /\ \/ memory' = [memory EXCEPT ![pending[n].key] = pending[n].value]
             \/ structured = "external" /\ UNCHANGED memory

MemoryNext == Land \/ \E k \in Keys : SetMemory(k)

-----------------------------------------------------------------------------
(***************************************************************************)
(* However syncs overlap with each other and with toggles, an item has the *)
(* flag the user last gave it. A choice is lost in two ways only, and the  *)
(* item is then as a sync left it until the user chooses again: the item   *)
(* was switched off and a sync that did not find it deleted its row, or it *)
(* was switched over while a sync that had read the other flag was still   *)
(* to write. There is no third way.                                        *)
(***************************************************************************)
ChoicesSurviveSyncs == \A i \in Items \ disturbed : rows[i].enabled = choice[i]

(***************************************************************************)
(* From the rename of a save that is awaited until the file is deleted or  *)
(* a short write is renamed into its place, a restart finds a whole file,  *)
(* and in it no older position than that of this save and of the saves     *)
(* then under way, whatever crashes, fails or is cancelled in between. And *)
(* no file claims a position beyond the results that are in it, though the *)
(* two are taken at different times.                                       *)
(***************************************************************************)
SavedStatesSurvive ==
    /\ floor # Nowhere => file # NoFile /\ ~file.cut /\ file.position >= floor
    /\ file.position <= file.results

=============================================================================
