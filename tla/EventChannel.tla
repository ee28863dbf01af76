----------------------------- MODULE EventChannel -----------------------------
(***************************************************************************)
(* What streams of events promise their consumers: each consumer gets the  *)
(* events sent on its own stream, in that order, each once; an end only    *)
(* after the last of them; and the producer's error, if it had one, as the *)
(* end.  Only one stream moves at a time.                                  *)
(***************************************************************************)
EXTENDS SequencesExt

CONSTANTS Streams, Events

VARIABLES
    sent,       \* the events so far
    shut,       \* how the producer ended: no, done or failed
    got,        \* the events the consumer has
    ended       \* how its iteration ended: no, done, failed, or left early

vars == <<sent, shut, got, ended>>

Init ==
    /\ sent = [s \in Streams |-> <<>>]
    /\ shut = [s \in Streams |-> "no"]
    /\ got = [s \in Streams |-> <<>>]
    /\ ended = [s \in Streams |-> "no"]

\* f changes nowhere but at s.
Only(f, next, s) == next = [f EXCEPT ![s] = next[s]]

Send(s) ==
    /\ shut[s] = "no"
    /\ sent'[s] \in Seq(Events) /\ IsPrefix(sent[s], sent'[s])
    /\ shut'[s] \in {"no", "done", "failed"}
    /\ Only(sent, sent', s) /\ Only(shut, shut', s)
    /\ UNCHANGED <<got, ended>>

Take(s) ==
    /\ ended[s] = "no"
    /\ Len(got[s]) < Len(sent[s])
    /\ got' = [got EXCEPT ![s] = Append(@, sent[s][Len(@) + 1])]
    /\ UNCHANGED <<sent, shut, ended>>

End(s) ==
    /\ ended[s] = "no" /\ shut[s] # "no"
    /\ got[s] = sent[s]
    /\ ended' = [ended EXCEPT ![s] = shut[s]]
    /\ UNCHANGED <<sent, shut, got>>

Leave(s) ==
    /\ ended[s] = "no"
    /\ ended' = [ended EXCEPT ![s] = "left"]
    /\ UNCHANGED <<sent, shut, got>>

Next == \E s \in Streams : Send(s) \/ Take(s) \/ End(s) \/ Leave(s)

Spec == Init /\ [][Next]_vars
=============================================================================
