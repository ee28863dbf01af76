---------------------------- MODULE EngineBridge ----------------------------
(***************************************************************************)
(* A chat with an agent of the engine (serve/agent_engine/adapter.py) as   *)
(* the events of an HTTP response (routes.py). The agent's stream is read  *)
(* by a thread with an event loop of its own, which puts the texts in an   *)
(* asyncio.Queue of the other loop: put and get are not one step then.     *)
(***************************************************************************)
EXTENDS Integers, Sequences, FiniteSets

CONSTANTS
    MaxEvents       \* bound: events of the agent's stream

VARIABLES
    talk,           \* where the generator of the response is
    session,        \* session_id: "none", "given" or "created"
    reader,         \* where the thread is
    received,       \* chunks_received
    bridge,         \* the queue
    getter,         \* a getter is registered in the queue
    woken,          \* ... and was set; its task is ready
    heard,          \* the events of the response
    uttered,        \* history: the texts the thread put, the error's too
    missed          \* history: the sentinel was put between test and registration

bridgeVars ==
    <<talk, session, reader, received, bridge, getter, woken, heard, uttered, missed>>

threadVars == <<reader, received, uttered>>

End == <<"end">>
Error == <<"error">>
NoText == <<>>

BridgeStart(place, sessionGiven) ==
    /\ talk = place /\ session = sessionGiven /\ reader = "none"
    /\ received = 0 /\ bridge = <<>> /\ getter = FALSE /\ woken = FALSE
    /\ heard = <<>> /\ uttered = <<>> /\ missed = FALSE

BridgeIdle == BridgeStart("idle", "none")

TalkOver == talk \in {"over", "failed", "gone"}

-----------------------------------------------------------------------------
(* Fetching the agent, and opening a session, may raise: an error event.   *)
TalkFails ==
    /\ talk \in {"fetch", "open"}
    /\ talk' = "failed"
    /\ heard' = Append(heard, [event |-> "error"])
    /\ UNCHANGED <<session, bridge, getter, woken, missed>> /\ UNCHANGED threadVars

StartThread ==
    /\ talk' = "get"
    /\ reader' = "stream"
    /\ UNCHANGED <<received, uttered, bridge, getter, woken, missed>>

AgentFetched ==
    /\ talk = "fetch"
    /\ IF session = "none"
       THEN talk' = "open" /\ UNCHANGED <<session, bridge, getter, woken, heard, missed>>
                           /\ UNCHANGED threadVars
       ELSE StartThread /\ UNCHANGED <<session, heard>>

SessionOpened ==
    /\ talk = "open"
    /\ session' = "created"
    /\ heard' = Append(heard, [event |-> "text_chunk", text |-> NoText, session |-> "created"])
    /\ StartThread

(* Queue.get: test, then register and sleep; the wake-up tests again.      *)
Get ==
    /\ talk = "get"
    /\ UNCHANGED <<session, getter, woken, missed>> /\ UNCHANGED threadVars
    /\ IF bridge = <<>>
       THEN talk' = "register" /\ UNCHANGED <<bridge, heard>>
       ELSE /\ bridge' = Tail(bridge)
            /\ IF Head(bridge) = End
               THEN /\ talk' = "over"
                    /\ heard' = Append(heard, [event |-> "done", session |-> session])
               ELSE /\ heard' = Append(heard, [event |-> "text_chunk", text |-> Head(bridge),
                                               session |-> "none"])
                    /\ UNCHANGED talk

Register ==
    /\ talk = "register"
    /\ talk' = "asleep"
    /\ getter' = TRUE
    /\ UNCHANGED <<session, bridge, woken, heard, missed>> /\ UNCHANGED threadVars

(* The loop turns; nothing but the end of the thread makes it turn. *)
Wake ==
    /\ talk = "asleep" /\ woken
    /\ talk' = "get"
    /\ woken' = FALSE
    /\ UNCHANGED <<session, bridge, getter, heard, missed>> /\ UNCHANGED threadVars

ClientLeaves ==
    /\ ~TalkOver /\ talk # "idle"
    /\ talk' = "gone"
    /\ UNCHANGED <<session, bridge, getter, woken, heard, missed>> /\ UNCHANGED threadVars

-----------------------------------------------------------------------------
(* put_nowait from the thread. *)
Put(item) ==
    /\ bridge' = Append(bridge, item)
    /\ getter' = FALSE
    /\ woken' = (woken \/ getter)
    /\ missed' = (missed \/ (item = End /\ talk = "register"))
    /\ UNCHANGED <<talk, session, heard>>

Say(text) == Put(text) /\ uttered' = Append(uttered, text)

StaySilent == UNCHANGED <<talk, session, bridge, getter, woken, heard, uttered, missed>>

(* An event of the stream, with or without a text. *)
StreamEvent ==
    /\ reader = "stream"
    /\ received < MaxEvents
    /\ received' = received + 1
    /\ UNCHANGED reader
    /\ \/ Say(<<"text", received + 1>>)
       \/ StaySilent

\* Mutant: the sentinel goes before the text of the error.
StreamFailsAfterEnd ==
    \/ /\ reader = "stream"
       /\ UNCHANGED received
       /\ IF received = 0
          THEN reader' = "late" /\ Put(End) /\ UNCHANGED uttered
          ELSE reader' = "ending" /\ StaySilent
    \/ reader = "late" /\ reader' = "over" /\ Say(Error) /\ UNCHANGED received

\* Mutant: no sentinel when the stream raises.
StreamFailsSilently ==
    /\ reader = "stream"
    /\ reader' = "over"
    /\ UNCHANGED received
    /\ IF received = 0 THEN Say(Error) ELSE StaySilent

(* The stream raises: told only if nothing came before. *)
StreamFails ==
    /\ reader = "stream"
    /\ reader' = "ending"
    /\ UNCHANGED received
    /\ IF received = 0 THEN Say(Error) ELSE StaySilent

StreamEnds == reader = "stream" /\ reader' = "ending" /\ StaySilent /\ UNCHANGED received

(* asyncio.run itself raises, before the stream or when it closes its loop. *)
RunFails ==
    /\ reader = "ending" \/ (reader = "stream" /\ received = 0)
    /\ reader' = "failed"
    /\ Say(Error)
    /\ UNCHANGED received

Sentinel ==
    /\ reader \in {"ending", "failed"}
    /\ reader' = "over"
    /\ Put(End)
    /\ UNCHANGED <<received, uttered>>

TalkNext == AgentFetched \/ SessionOpened \/ Get \/ Register \/ Wake \/ TalkFails
ThreadNext == StreamEvent \/ StreamFails \/ StreamEnds \/ RunFails \/ Sentinel
BridgeNext == TalkNext \/ ThreadNext \/ ClientLeaves

-----------------------------------------------------------------------------
(***************************************************************************)
(* The client hears the texts in the order the agent said them, and "done" *)
(* only once it has heard them all, the error of a stream that never       *)
(* began, or of a loop that failed, included: whatever the two loops do in *)
(* between.                                                                *)
(***************************************************************************)
IsText(i) == heard[i].event = "text_chunk" /\ heard[i].text # NoText
TextPlaces == {i \in DOMAIN heard : IsText(i)}
Place(i) == Cardinality({j \in TextPlaces : j <= i})
Dones == {i \in DOMAIN heard : heard[i].event = "done"}

ChunksInOrder ==
    /\ \A i \in TextPlaces : Place(i) \in DOMAIN uttered /\ heard[i].text = uttered[Place(i)]
    /\ \A i \in Dones : /\ i = Len(heard) /\ heard[i].session # "none"
                        /\ Cardinality(TextPlaces) = Len(uttered) /\ reader = "over"
=============================================================================
