---------------------------- MODULE ContextWindow ----------------------------
(***************************************************************************)
(* ChatPrimitive._apply_context_window (primitives/chat.py): the messages  *)
(* of a conversation that are sent to the provider. A message is           *)
(*    [role, ids, cost]                                                    *)
(* where ids are the calls an assistant makes, or the one call a tool      *)
(* message answers, and cost stands for its estimated tokens.              *)
(***************************************************************************)
EXTENDS Integers, Sequences, FiniteSets, SequencesExt, FiniteSetsExt

NoLimit == -1

Messages ==
    [role : {"system", "user", "assistant", "tool"}, ids : SUBSET Nat, cost : Nat]

(* The part of a sequence at the given positions. *)
Part(seq, keep) ==
    LET upTo[n \in 0 .. Len(seq)] ==
            IF n = 0 THEN <<>>
            ELSE IF n \in keep THEN Append(upTo[n - 1], seq[n]) ELSE upTo[n - 1]
    IN upTo[Len(seq)]

IsSystem(m) == m.role = "system"
OfSystem(messages) == Part(messages, {i \in DOMAIN messages : IsSystem(messages[i])})
NotOfSystem(messages) == Part(messages, {i \in DOMAIN messages : ~IsSystem(messages[i])})

Tokens(messages) ==
    LET sum[i \in 0 .. Len(messages)] == IF i = 0 THEN 0 ELSE sum[i - 1] + messages[i].cost
    IN sum[Len(messages)]

(* The slice [-n:], which is everything when n is zero. *)
LastOf(messages, n) ==
    IF n = 0 THEN messages ELSE SubSeq(messages, Len(messages) - n + 1, Len(messages))

(* Tool answers at the start whose assistant is gone. *)
DropLeadingTools(messages) ==
    LET kept == {i \in DOMAIN messages : messages[i].role # "tool"}
    IN IF kept = {} THEN <<>> ELSE SubSeq(messages, Min(kept), Len(messages))

MakesCalls(m) == m.role = "assistant" /\ m.ids # {}

(* What is left of the first n messages when the last of them makes calls: *)
(* without it and the answers to it that would then be last.               *)
WithoutLastCalls(messages, n) ==
    LET kept == {i \in 1 .. n - 1 :
                   ~(messages[i].role = "tool" /\ messages[i].ids \subseteq messages[n].ids)}
    IN IF kept = {} THEN 0 ELSE Max(kept)

(* Assistants at the end whose calls have no answers. *)
DropTrailingCalls(messages) ==
    LET upTo[n \in 0 .. Len(messages)] ==
            IF n = 0 \/ ~MakesCalls(messages[n]) THEN n ELSE upTo[WithoutLastCalls(messages, n)]
    IN SubSeq(messages, 1, upTo[Len(messages)])

\* Mutant: the answers whose assistant was cut off stay at the start.
LimitCountOnly(messages, max) ==
    IF max # NoLimit /\ Len(messages) > max
    THEN DropTrailingCalls(LastOf(messages, max))
    ELSE messages

LimitCount(messages, max) ==
    IF max # NoLimit /\ Len(messages) > max
    THEN DropTrailingCalls(DropLeadingTools(LastOf(messages, max)))
    ELSE messages

(* What goes with a message that is dropped: the other side of its calls. *)
Partners(dropped, rest) ==
    CASE MakesCalls(dropped) ->
            {m \in ToSet(rest) : m.role = "tool" /\ m.ids \subseteq dropped.ids}
      [] dropped.role = "tool" ->
            LET owners == {i \in DOMAIN rest : MakesCalls(rest[i]) /\ dropped.ids \subseteq rest[i].ids}
                ids == rest[Min(owners)].ids
            IN IF owners = {} THEN {}
               ELSE {m \in ToSet(rest) :
                        \/ m.role = "assistant" /\ m.ids = ids
                        \/ m.role = "tool" /\ m.ids \subseteq ids}
      [] OTHER -> {}

WithoutOldest(messages) ==
    LET partners == Partners(Head(messages), Tail(messages))
    IN Part(messages, {i \in 2 .. Len(messages) : messages[i] \notin partners})

Fits(messages, budget) == messages = <<>> \/ Tokens(messages) <= budget

(* Until they fit: each time at least the oldest goes. *)
DropOldest(messages, budget) ==
    LET shorter == [m \in Seq(Messages) |-> IF Fits(m, budget) THEN m ELSE WithoutOldest(m)]
        left[n \in 0 .. Len(messages)] == IF n = 0 THEN messages ELSE shorter[left[n - 1]]
    IN left[Len(messages)]

\* Mutant: the system messages are not counted against the budget.
LimitTokensWithoutSystem(messages, system, max) ==
    IF max = NoLimit THEN messages ELSE DropOldest(messages, max)

LimitTokens(messages, system, max) ==
    IF max = NoLimit THEN messages
    ELSE IF Tokens(system) >= max THEN <<>>
    ELSE DropOldest(messages, max - Tokens(system))

(* The FIFO path. With a reducer and a token limit both are bypassed. *)
Window(messages, maxMessages, maxTokens) ==
    LET system == OfSystem(messages)
        others == NotOfSystem(messages)
    IN system \o LimitTokens(LimitCount(others, maxMessages), system, maxTokens)

(***************************************************************************)
(* Well formed: every call an assistant makes is answered by the messages  *)
(* after it, and every answer has its call before it, as providers demand. *)
(***************************************************************************)
WellFormed(messages) ==
    \A i \in DOMAIN messages :
        /\ messages[i].role = "tool" =>
              \E j \in 1 .. i - 1 :
                  /\ MakesCalls(messages[j])
                  /\ messages[i].ids \subseteq messages[j].ids
                  /\ \A k \in j + 1 .. i - 1 : messages[k].role = "tool"
        /\ MakesCalls(messages[i]) =>
              \A id \in messages[i].ids :
                  \E j \in i + 1 .. Len(messages) :
                      messages[j].role = "tool" /\ messages[j].ids = {id}

(* What IContextReducer.reduce may return (ports.py). *)
Reductions(messages, budget) ==
    {r \in {Part(messages, keep) : keep \in SUBSET DOMAIN messages} :
        WellFormed(r) /\ Tokens(r) <= budget}
=============================================================================
