------------------------------ MODULE Resolver ------------------------------
(***************************************************************************)
(* How a $-reference in a step's configuration becomes a value             *)
(* (domain/resolver.py): the walk along its path, and the chain of         *)
(* references that is followed when a value is a reference again.          *)
(*                                                                         *)
(* A text is plain, one reference, a longer text with a reference in it,   *)
(* or has a dollar sign that starts no reference.                          *)
(***************************************************************************)
EXTENDS Integers, Sequences, FiniteSets, SequencesExt

Plain       == [kind |-> "plain"]
Dollar      == [kind |-> "dollar"]
Ref(r)      == [kind |-> "reference", to |-> r]
Embeds(r)   == [kind |-> "embedded", to |-> r]
NotText     == [kind |-> "not a text"]
Missing     == [kind |-> "missing"]
Filled(r)   == [kind |-> "filled in", with |-> r]
Pending     == [kind |-> "pending"]
Fails(how)  == [kind |-> "error", code |-> how]

HasDollar(value) == value.kind \in {"dollar", "reference", "embedded"}

-----------------------------------------------------------------------------
(***************************************************************************)
(* _resolve_recursive, one call after the other. names says what a handler *)
(* returns for each reference, Missing where it raises.                    *)
(***************************************************************************)
Begin(value) == [value |-> value, depth |-> 0, chain |-> <<>>, answer |-> Pending]

Answer(state, what) == [state EXCEPT !.answer = what]

Call(names, maxDepth, state) ==
    LET value == state.value IN
    IF state.answer # Pending THEN state
    ELSE IF ~HasDollar(value) THEN Answer(state, value)
    ELSE IF state.depth > maxDepth THEN Answer(state, Fails("max depth"))
    ELSE IF value.kind = "dollar" THEN Answer(state, value)
    ELSE IF value.kind = "embedded"
    THEN Answer(state, IF names[value.to] = Missing THEN Fails("unresolvable") ELSE Filled(value.to))
    ELSE IF value.to \in ToSet(state.chain) THEN Answer(state, Fails("circular"))
    ELSE IF names[value.to] = Missing THEN Answer(state, Fails("unresolvable"))
    ELSE [state EXCEPT !.value = names[value.to],
                       !.depth = @ + 1,
                       !.chain = Append(@, value.to)]

(* No call is deeper than max_depth + 1, so max_depth + 2 calls end it.    *)
Resolve(names, maxDepth, value) ==
    LET calls[n \in 0 .. maxDepth + 2] ==
            IF n = 0 THEN Begin(value) ELSE Call(names, maxDepth, calls[n - 1])
    IN calls[maxDepth + 2].answer

(***************************************************************************)
(* What it should be: the end of the chain of references, unless it comes  *)
(* back to itself, or has more than max_depth links, by itself.            *)
(***************************************************************************)
Links(names, value) ==       \* the values along the chain, as long as it has new ones
    LET link[n \in 0 .. Cardinality(DOMAIN names) + 1] ==
            IF n = 0 THEN value
            ELSE IF link[n - 1].kind = "reference" THEN names[link[n - 1].to]
            ELSE link[n - 1]
    IN link

Meant(names, maxDepth, value) ==
    LET link   == Links(names, value)
        last   == Cardinality(DOMAIN names) + 1
        Ends   == {n \in DOMAIN link : link[n].kind # "reference"}
        Cycles  == {n \in DOMAIN link : \E m \in 0 .. n - 1 : link[m] = link[n]}
        First(S) == CHOOSE n \in S : \A m \in S : n <= m
    IN IF Ends = {}
       THEN IF First(Cycles) > maxDepth THEN Fails("max depth") ELSE Fails("circular")
       ELSE LET end == link[First(Ends)] IN
            IF First(Ends) > maxDepth + (IF HasDollar(end) THEN 0 ELSE 1)
            THEN Fails("max depth")
            ELSE CASE end = Missing -> Fails("unresolvable")
                   [] end.kind = "embedded" ->
                        IF names[end.to] = Missing THEN Fails("unresolvable") ELSE Filled(end.to)
                   [] OTHER -> end

(* Every chain over three references, with limits it may pass or not.      *)
ResolvesAsMeant ==
    LET R == 1 .. 3
        Values == {Plain, Dollar, NotText, Missing} \union {Ref(r) : r \in R} \union {Embeds(1)}
    IN \A names \in [R -> Values], maxDepth \in 0 .. 4, value \in Values \ {Missing} :
          Resolve(names, maxDepth, value) = Meant(names, maxDepth, value)

-----------------------------------------------------------------------------
(***************************************************************************)
(* _traverse: a path into nested dictionaries. Into None and into a        *)
(* skipped result any path leads; where else there is no key it is an      *)
(* error.                                                                  *)
(***************************************************************************)
Leaf(kind)   == [kind |-> kind]
Dict(keys)   == [kind |-> "dict", at |-> keys]
NotFound     == Fails("unresolvable")
Absorbing    == {Leaf("none"), Leaf("skipped"), NotFound}

Into(current, segment) ==
    CASE current \in Absorbing -> current
      [] current.kind = "dict" /\ segment \in DOMAIN current.at -> current.at[segment]
      [] OTHER -> NotFound

Traverse(data, path) == FoldLeft(Into, data, path)

Leaves == {Leaf("plain"), Leaf("none"), Leaf("skipped")}
Dicts(children) == {Dict(f) : f \in UNION {[keys -> children] : keys \in SUBSET {1, 2}}}
Trees == Dicts(Dicts(Leaves) \union Leaves)

(* A path that begins with None or a skipped result is that; one that goes *)
(* on in a plain value, or by a key that is not there, is an error.        *)
TraversesStepByStep ==
    \A data \in Trees, path \in {1, 2, 3} \X {1, 2, 3} \X {1, 2, 3}, n \in 0 .. 2 :
        LET there == Traverse(data, SubSeq(path, 1, n))
            end   == Traverse(data, path)
        IN /\ there \in {Leaf("none"), Leaf("skipped")} => end = there
           /\ there = Leaf("plain") => end = NotFound
           /\ (there.kind = "dict" /\ path[n + 1] \notin DOMAIN there.at) => end = NotFound
=============================================================================
