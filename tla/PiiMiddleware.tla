---------------------------- MODULE PiiMiddleware ----------------------------
(***************************************************************************)
(* A provider behind PIIMiddleware (adapters/pii_middleware.py): personal  *)
(* data in the messages is replaced by tokens (adapters/pii_tokenizer.py)  *)
(* and put back where the answer of the model mentions a token.            *)
(***************************************************************************)
EXTENDS Integers, Sequences, FiniteSets, SequencesExt

CONSTANTS
    Patterns,      \* 1 .. n, in the order they are tried
    Values,        \* pieces of personal data
    MaxPieces,     \* bound: pieces of a text
    MaxMessages    \* bound: messages of a call

(* A text is a sequence of pieces, each with the patterns that match it:   *)
(* none for plain words, two where a card number reads as a phone number.  *)
Pieces == [value : Values, matches : SUBSET Patterns]
Texts == SeqOf(Pieces, MaxPieces)

VARIABLES
    messages,      \* the messages of the call
    mode,          \* complete or stream
    place,         \* compose, call, answer or over
    tokenMap,      \* combined_map: token -> value
    stored,        \* _pii_token_map in the metadata of the context
    mentions,      \* the pieces the answer mentions, or a token of its own
    returned       \* what the caller reads in their place

piiVars == <<messages, mode, place, tokenMap, stored, mentions, returned>>

NoMap == <<>>
Invented == <<0, 0>>

-----------------------------------------------------------------------------
(* The pattern that takes a piece: the first, as later matches overlap it. *)
Sensitive(piece) == piece.matches # {}
Pattern(piece) == CHOOSE p \in piece.matches : \A q \in piece.matches : p <= q

(* Tokens are numbered pattern by pattern, in each from left to right.     *)
Before(text, i, j) ==
    \/ Pattern(text[i]) < Pattern(text[j])
    \/ Pattern(text[i]) = Pattern(text[j]) /\ i <= j

Token(text, j) ==
    [prefix |-> Pattern(text[j]),
     number |-> Cardinality({i \in DOMAIN text : Sensitive(text[i]) /\ Before(text, i, j)})]

Places(text) == {j \in DOMAIN text : Sensitive(text[j])}

(* tokenize: the map of one text. *)
TextMap(text) ==
    [token \in {Token(text, j) : j \in Places(text)} |->
        text[CHOOSE j \in Places(text) : Token(text, j) = token].value]

(* _tokenize_messages: the maps of the texts, the later one over the earlier. *)
CombinedMap(texts) ==
    LET Maps == [n \in DOMAIN texts |-> TextMap(texts[n])]
        Holder(token) == CHOOSE n \in DOMAIN texts :
                           /\ token \in DOMAIN Maps[n]
                           /\ \A m \in DOMAIN texts : token \in DOMAIN Maps[m] => m <= n
    IN [token \in UNION {DOMAIN Maps[n] : n \in DOMAIN texts} |-> Maps[Holder(token)][token]]

-----------------------------------------------------------------------------
Init ==
    /\ messages = <<>>
    /\ mode \in {"complete", "stream"}
    /\ place = "compose"
    /\ tokenMap = NoMap /\ stored = NoMap
    /\ mentions = <<>> /\ returned = <<>>

AddMessage ==
    /\ place = "compose"
    /\ Len(messages) < MaxMessages
    /\ \E text \in Texts : messages' = Append(messages, text)
    /\ UNCHANGED <<mode, place, tokenMap, stored, mentions, returned>>

(* complete, stream: the metadata is written only with a map that has entries. *)
SendTokenized ==
    /\ place = "compose" /\ messages # <<>>
    /\ place' = "call"
    /\ tokenMap' = CombinedMap(messages)
    /\ stored' = IF tokenMap' = NoMap THEN stored ELSE tokenMap'
    /\ UNCHANGED <<messages, mode, mentions, returned>>

(* The model mentions any of the tokens it was sent, or makes one up.      *)
Mentioned == UNION {{n} \X Places(messages[n]) : n \in DOMAIN messages}

TokenOf(mention) ==
    IF mention = Invented THEN [prefix |-> 1, number |-> 0]
    ELSE Token(messages[mention[1]], mention[2])

ModelAnswersTokens ==
    /\ place = "call"
    /\ \E mention \in Mentioned \union {Invented} : mentions' = Append(mentions, mention)
    /\ Len(mentions) < MaxPieces
    /\ UNCHANGED <<messages, mode, place, tokenMap, stored, returned>>

(* detokenize, where the map and the answer have tokens: a token that is   *)
(* not in the map is an error. A stream is handed on as it comes.          *)
Detokenized ==
    IF mode = "stream" \/ tokenMap = NoMap
    THEN [n \in DOMAIN mentions |-> <<"token", TokenOf(mentions[n])>>]
    ELSE IF \E n \in DOMAIN mentions : TokenOf(mentions[n]) \notin DOMAIN tokenMap
    THEN <<<<"error">>>>
    ELSE [n \in DOMAIN mentions |-> <<"value", tokenMap[TokenOf(mentions[n])]>>]

AnswerRestored ==
    /\ place = "call"
    /\ place' = "over"
    /\ returned' = Detokenized
    /\ UNCHANGED <<messages, mode, tokenMap, stored, mentions>>

Next == AddMessage \/ SendTokenized \/ ModelAnswersTokens \/ AnswerRestored

Spec == Init /\ [][Next]_piiVars

-----------------------------------------------------------------------------
(***************************************************************************)
(* The caller of complete reads, for each token the model mentions, the    *)
(* value that the token stood for in the message it came from.             *)
(***************************************************************************)
AnswersAreRestored ==
    (place = "over" /\ mode = "complete" /\ Invented \notin ToSet(mentions)) =>
        \A n \in DOMAIN mentions :
            returned[n] = <<"value", messages[mentions[n][1]][mentions[n][2]].value>>
=============================================================================
