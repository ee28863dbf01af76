----------------------------- MODULE ModelCalls -----------------------------
(***************************************************************************)
(* The llm and chat primitives (primitives/llm.py, chat.py, _llm_utils.py) *)
(* and the tool-use loop they share (_tool_use.py): one execution of one   *)
(* step. chat first applies its context window; then either one completion *)
(* or stream is asked for, or, with tool schemas, the loop runs the tools  *)
(* the model calls until it answers without calling any.                   *)
(***************************************************************************)
EXTENDS ContextWindow

CONSTANTS
    Tools,           \* the tools of the tool registry
    LoopTools,       \* the workflow's allowed_tools, or all names when it has none
    ModelSteps,      \* configurations of llm and chat steps
    EmptySteps,      \* those of steps without a conversation
    Rewrites(_),     \* the lists the tool preprocessors may make of a list
    MaxLength,       \* bound: messages of a conversation before the step
    MaxCalls         \* bound: calls in one answer

VARIABLES
    step,        \* the configuration of the step
    at,          \* where the primitive stands
    history,     \* config messages, with the system message in front
    target,      \* the model that is asked
    messages,    \* the list sent to the provider
    calls,       \* the calls of the last answer not run yet, [id, tool, args]
    iteration,   \* the loop variable
    asked,       \* history: the number of completions asked for
    ids,         \* history: the call ids used so far
    intact,      \* history: no preprocessor has left a malformed list
    done         \* "running", "returned", or what was raised

modelVars == <<step, at, history, target, messages, calls, iteration, asked, ids,
               intact, done>>

(* Limits are numbers, and that of messages is not negative: [-n:] would    *)
(* skip the first messages then.                                           *)
ASSUME ModelAssumption ==
    \A s \in ModelSteps \union EmptySteps :
        s.maxMessages \in Nat \union {NoLimit} /\ s.maxTokens \in Int

ModelIdle ==
    /\ step = [primitive |-> "none"]
    /\ at = "idle"
    /\ history = <<>> /\ target = "none" /\ messages = <<>> /\ calls = <<>>
    /\ iteration = 0 /\ asked = 0 /\ ids = 0 /\ intact = TRUE
    /\ done = "running"

ModelStart ==
    /\ \/ step \in ModelSteps /\ at = "compose"
       \/ step \in EmptySteps /\ at = "start"
    /\ history = <<>> /\ target = "none" /\ messages = <<>> /\ calls = <<>>
    /\ iteration = 0 /\ asked = 0 /\ ids = 0 /\ intact = TRUE
    /\ done = "running"

Message(role, callIds, cost) == [role |-> role, ids |-> callIds, cost |-> cost]

-----------------------------------------------------------------------------
(* The conversation the step is configured with grows turn by turn; its    *)
(* system entry, if it has one, is the first turn. Answers without calls   *)
(* are dropped and counted like the user's messages.                       *)

Turn(turn) ==
    /\ at = "compose"
    /\ Len(history) + Len(turn) <= MaxLength
    /\ history' = history \o turn
    /\ UNCHANGED <<step, at, target, messages, calls, iteration, asked, intact, done>>

ComposeText ==
    /\ \E role \in {"user", "system"}, cost \in {1, 2} :
          Turn(<<Message(role, {}, cost)>>)
    /\ UNCHANGED ids

ComposeCalls ==
    \E n \in 1 .. MaxCalls :
        LET fresh == ids + 1 .. ids + n
        IN /\ Turn(<<Message("assistant", fresh, 1)>>
                     \o [i \in 1 .. n |-> Message("tool", {ids + i}, 1)])
           /\ ids' = ids + n

-----------------------------------------------------------------------------
EndModel(how) ==
    /\ at' = "over"
    /\ done' = how
    /\ calls' = <<>>
    /\ UNCHANGED <<step, history, iteration, intact>>

(* A context reducer, with a token limit, takes the place of both limits: *)
(* by its contract it keeps a well-formed part that fits its budget.      *)
ChatWindow ==
    LET system == OfSystem(history)
        budget == step.maxTokens - Tokens(system)
    IN IF ~step.reducer \/ step.maxTokens = NoLimit
       THEN {Window(history, step.maxMessages, step.maxTokens)}
       ELSE IF budget <= 0 THEN {system}
       ELSE {system \o r : r \in Reductions(NotOfSystem(history), budget)}

AsksReducer ==
    step.reducer /\ step.maxTokens # NoLimit /\ step.maxTokens > Tokens(OfSystem(history))

(* get_model: a degraded budget has its own model; a tier is routed, and   *)
(* what the router does not know is taken for a model.                     *)
Target ==
    IF step.degraded THEN "degradation model"
    ELSE IF step.router /\ step.model = "tier" THEN "model of the tier"
    ELSE step.model

StartProblem ==
    IF ~step.provider THEN "no provider"
    ELSE IF step.model = "none" THEN "no model"
    ELSE IF step.primitive = "chat" /\ ~step.valid THEN "invalid message"
    ELSE "none"

(* Provider and model first, then the messages, which only chat validates. *)
StartModel ==
    /\ at \in {"compose", "start"}
    /\ UNCHANGED <<asked, ids>>
    /\ \/ StartProblem # "none" /\ EndModel(StartProblem) /\ UNCHANGED <<target, messages>>
       \/ /\ StartProblem = "none" /\ step.primitive = "chat" /\ AsksReducer
          /\ EndModel("reducer error")
          /\ UNCHANGED <<target, messages>>
       \/ /\ StartProblem = "none"
          /\ target' = Target
          /\ messages' \in IF step.primitive = "llm" THEN {history} ELSE ChatWindow
          /\ at' = IF step.stream THEN "stream" ELSE IF step.tools THEN "loop" ELSE "complete"
          /\ UNCHANGED <<step, history, calls, iteration, intact, done>>

(* A stream is handed on before the provider is asked anything. *)
HandOverStream ==
    /\ at = "stream"
    /\ EndModel("returned")
    /\ UNCHANGED <<target, messages, asked, ids>>

CompleteOnce ==
    /\ at = "complete"
    /\ asked' = asked + 1
    /\ \E how \in {"returned", "provider error"} : EndModel(how)
    /\ UNCHANGED <<target, messages, ids>>

(* The preprocessors of the tools see the list before every request. They  *)
(* may change it or return another, the one the loop then goes on with;    *)
(* one that fails is passed over, with what it had changed by then.        *)
Preprocessed ==
    {messages} \union
    IF step.preprocessors THEN {list \in Rewrites(messages) : list \in Seq(Messages)} ELSE {}

(* The head of the loop: ask again, or give up. *)
AskModel ==
    /\ at = "loop"
    /\ UNCHANGED <<target, ids>>
    /\ \/ /\ iteration < step.maxIterations
          /\ messages' \in Preprocessed
          /\ intact' = (intact /\ (messages' = messages \/ WellFormed(messages')))
          /\ iteration' = iteration + 1
          /\ asked' = asked + 1
          /\ at' = "asked"
          /\ UNCHANGED <<step, history, calls, done>>
       \/ /\ iteration = step.maxIterations
          /\ EndModel("max iterations")
          /\ UNCHANGED <<messages, asked>>

ModelFails ==
    /\ at = "asked"
    /\ EndModel("provider error")
    /\ UNCHANGED <<target, messages, asked, ids>>

ModelAnswers ==
    /\ at = "asked"
    /\ EndModel("returned")
    /\ UNCHANGED <<target, messages, asked, ids>>

(* The answer calls tools: it is kept as an assistant message. *)
ModelCallsTools ==
    /\ at = "asked"
    /\ \E n \in 1 .. MaxCalls :
        /\ \E wanted \in [1 .. n -> (Tools \union {"unknown"}) \X {"good", "bad"}] :
              calls' = [i \in 1 .. n |->
                          [id |-> ids + i, tool |-> wanted[i][1], args |-> wanted[i][2]]]
        /\ messages' = Append(messages, Message("assistant", ids + 1 .. ids + n, 1))
        /\ ids' = ids + n
    /\ at' = "tools"
    /\ UNCHANGED <<step, target, history, iteration, asked, intact, done>>

(* The next call: it must be allowed, known, parsed and must not fail. *)
RunTool ==
    /\ at = "tools"
    /\ calls # <<>>
    /\ UNCHANGED <<asked, ids>>
    /\ LET call == Head(calls)
           refusal == IF call.tool \notin LoopTools THEN "tool not allowed"
                      ELSE IF call.tool \notin Tools THEN "tool not found"
                      ELSE IF call.args = "bad" THEN "arguments not parsed"
                      ELSE "none"
       IN \/ refusal # "none" /\ EndModel(refusal) /\ UNCHANGED <<target, messages>>
          \/ refusal = "none" /\ EndModel("tool failed") /\ UNCHANGED <<target, messages>>
          \/ /\ refusal = "none"
             /\ messages' = Append(messages, Message("tool", {call.id}, 1))
             /\ calls' = Tail(calls)
             /\ UNCHANGED <<step, at, target, history, iteration, intact, done>>

\* Mutant: the next completion is asked for before all calls are answered.
ToolsDoneEarly ==
    /\ at = "tools"
    /\ Len(calls) <= 1
    /\ calls' = <<>>
    /\ at' = "loop"
    /\ UNCHANGED <<step, target, history, messages, iteration, asked, ids, intact, done>>

\* Mutant: an iteration that called tools is not counted.
ToolsDoneUncounted ==
    /\ at = "tools"
    /\ calls = <<>>
    /\ at' = "loop"
    /\ iteration' = iteration - 1
    /\ messages' = history
    /\ asked' = 0
    /\ ids' = 0
    /\ UNCHANGED <<step, target, history, calls, intact, done>>

ToolsDone ==
    /\ at = "tools"
    /\ calls = <<>>
    /\ at' = "loop"
    /\ UNCHANGED <<step, target, history, messages, calls, iteration, asked, ids, intact,
                   done>>

ModelNext ==
    \/ StartModel \/ HandOverStream \/ CompleteOnce \/ AskModel \/ ModelFails
    \/ ModelAnswers \/ ModelCallsTools \/ RunTool \/ ToolsDone

Compose == ComposeText \/ ComposeCalls

ModelSpec == ModelStart /\ [][ModelNext \/ Compose]_modelVars

-----------------------------------------------------------------------------
(***************************************************************************)
(* Whatever the window drops, however often the loop calls tools and       *)
(* whatever the preprocessors add or take away, the provider is only sent  *)
(* conversations in which every call is answered and every answer has its  *)
(* call, until a preprocessor itself has left one that is not so: the loop *)
(* never makes a malformed request of a well-formed list it was handed.    *)
(***************************************************************************)
RequestsAreWellFormed ==
    intact /\ at \in {"complete", "stream", "loop", "asked"} => WellFormed(messages)

(***************************************************************************)
(* The first request of a chat step keeps every system message, in front,  *)
(* and a subsequence of the others in their order; it is within max_messages *)
(* and, unless the system messages alone are not, within the token budget. *)
(* A limit of zero messages is no limit: the slice [-0:] keeps them all.   *)
(***************************************************************************)
IsSubsequence(some, all) ==
    \E place \in [DOMAIN some -> DOMAIN all] :
        /\ \A i, j \in DOMAIN some : i < j => place[i] < place[j]
        /\ \A i \in DOMAIN some : some[i] = all[place[i]]

FirstRequest ==
    /\ step.primitive = "chat"
    /\ at \in {"complete", "stream", "loop"}
    /\ asked = 0

WindowKeepsItsLimits ==
    FirstRequest =>
        LET system == OfSystem(history)
            others == SubSeq(messages, Len(system) + 1, Len(messages))
        IN /\ SubSeq(messages, 1, Len(system)) = system
           /\ IsSubsequence(others, NotOfSystem(history))
           /\ (step.maxMessages \notin {NoLimit, 0} /\ ~(step.reducer /\ step.maxTokens # NoLimit)) => Len(others) <= step.maxMessages
           /\ step.maxTokens # NoLimit =>
                 Tokens(messages) <= Max({step.maxTokens, Tokens(system)})

=============================================================================
