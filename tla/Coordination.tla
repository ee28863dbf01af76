---------------------------- MODULE Coordination ----------------------------
(***************************************************************************)
(* The three coordination strategies of domain/strategies/coordination:    *)
(* hand-off, parallel dispatch (merge, vote, first) and supervisor. One    *)
(* coordination at a time; its agents are asynchronous and end when they   *)
(* like, or soon after they are cancelled.                                 *)
(*                                                                         *)
(* What an agent says is the name of the next agent (a hand-off marker),   *)
(* a set of assignments, or a text, according to the question it was put.  *)
(***************************************************************************)
EXTENDS Integers, Sequences, SequencesExt, FiniteSetsExt

CONSTANTS
    Agents,         \* names of agents in the registry
    Stranger,       \* a name no coordination knows
    Texts,          \* answers
    MaxHandoffs     \* config max_handoffs

Modes == {"merge", "vote", "first", "handoff", "supervisor"}
Nothing == "nothing"

VARIABLES
    task,        \* [mode, team]: team is the agents dict, in its order
    phase,       \* where coordinate stands
    turn,        \* the state of each agent's call
    said,        \* what each agent answered last
    seen,        \* first mode: the calls asyncio.wait has returned as done
    chain,       \* hand-off: the calls made, [agent, to]
    current,     \* the agent asked, hand-off and supervisor
    plan,        \* supervisor: the assignments left
    verdict      \* [how, by]: how coordinate ended, and whose answer it is

coordinationVars == <<task, phase, turn, said, seen, chain, current, plan, verdict>>

Idle == [mode |-> "none", team |-> <<>>]
Undecided == [how |-> "none", by |-> {}]
Team == ToSet(task.team)
InTurn(state) == {a \in Agents : turn[a] = state}
Working == InTurn("running") \union InTurn("cancelling")

(* "supervisor" if there is one, else the first agent of the dict. *)
Supervisor ==
    IF "supervisor" \in Team THEN "supervisor" ELSE Head(task.team)

CoordinationIdle ==
    /\ task = Idle
    /\ phase = "idle"
    /\ turn = [a \in Agents |-> "idle"]
    /\ said = [a \in Agents |-> Nothing]
    /\ seen = {}
    /\ chain = <<>>
    /\ current = Nothing
    /\ plan = {}
    /\ verdict = Undecided

Conclude(how, by) ==
    /\ phase' = "over"
    /\ verdict' = [how |-> how, by |-> by]

(* Calls started, others left as they are. *)
Started(asked) == [a \in Agents |-> IF a \in asked THEN "running" ELSE turn[a]]

Ask(where, agent) ==
    /\ phase' = where
    /\ current' = agent
    /\ turn' = Started({agent})

(* The head of the chain's loop: only an agent of the dict can be asked. *)
AskNext(team, agent) ==
    IF agent \in ToSet(team)
    THEN Ask("chain", agent) /\ UNCHANGED verdict
    ELSE Conclude("handoff failed", {}) /\ UNCHANGED <<current, turn>>

(* coordinate is called; first is subtasks[0], or Nothing. *)
Coordinate(mode, team, first) ==
    /\ phase = "idle"
    /\ task' = [mode |-> mode, team |-> team]
    /\ UNCHANGED <<said, seen, chain, plan>>
    /\ CASE team = <<>> ->
              Conclude("no agents", {}) /\ UNCHANGED <<turn, current>>
         [] team # <<>> /\ mode \in {"merge", "vote"} ->
              /\ phase' = "gather"
              /\ turn' = Started(ToSet(team))
              /\ UNCHANGED <<current, verdict>>
         [] team # <<>> /\ mode = "first" ->
              /\ phase' = "wait"
              /\ turn' = Started(ToSet(team))
              /\ UNCHANGED <<current, verdict>>
         [] team # <<>> /\ mode = "handoff" ->
              AskNext(team, IF first = Nothing THEN Head(team) ELSE first)
         [] team # <<>> /\ mode = "supervisor" ->
              /\ Ask("decompose",
                     IF "supervisor" \in ToSet(team) THEN "supervisor" ELSE Head(team))
              /\ UNCHANGED verdict

-----------------------------------------------------------------------------
(* The agents.                                                             *)

Sayings ==
    IF phase = "chain" THEN Agents \union {Stranger, Nothing} ELSE Texts

AgentAnswers(a) ==
    /\ turn[a] = "running"
    /\ turn' = [turn EXCEPT ![a] = "answered"]
    /\ \E s \in Sayings : said' = [said EXCEPT ![a] = s]
    /\ UNCHANGED <<task, phase, seen, chain, current, plan, verdict>>

AgentFails(a) ==
    /\ turn[a] = "running"
    /\ turn' = [turn EXCEPT ![a] = "failed"]
    /\ UNCHANGED <<task, phase, said, seen, chain, current, plan, verdict>>

AgentStops(a) ==
    /\ turn[a] = "cancelling"
    /\ turn' = [turn EXCEPT ![a] = "cancelled"]
    /\ UNCHANGED <<task, phase, said, seen, chain, current, plan, verdict>>

-----------------------------------------------------------------------------
(* Parallel dispatch.                                                      *)

(* Counter(outputs).most_common(1): the most votes, the first of a tie. *)
Votes(text) == Cardinality({a \in InTurn("answered") : said[a] = text})

Winner ==
    LET ahead == {i \in DOMAIN task.team :
                    /\ turn[task.team[i]] = "answered"
                    /\ \A b \in InTurn("answered") :
                          Votes(said[b]) <= Votes(said[task.team[i]])}
    IN task.team[Min(ahead)]

(* gather returns: an answer or an exception of every agent. *)
Gathered ==
    /\ phase = "gather"
    /\ Team \intersect Working = {}
    /\ CASE InTurn("answered") = {} -> Conclude("all failed", {})
         [] InTurn("answered") # {} /\ task.mode = "merge" ->
              Conclude("answer", InTurn("answered"))
         [] InTurn("answered") # {} /\ task.mode = "vote" ->
              Conclude("answer", {a \in InTurn("answered") : said[a] = said[Winner]})
    /\ UNCHANGED <<task, turn, said, seen, chain, current, plan>>

Ended == (InTurn("answered") \union InTurn("failed")) \ seen

\* Mutant: the first call that ends decides.
WaitGivesUp ==
    /\ phase = "wait"
    /\ Ended # {}
    /\ \/ \E a \in Ended \intersect InTurn("answered") : Conclude("answer", {a})
       \/ Ended \intersect InTurn("answered") = {} /\ Conclude("all failed", {})
    /\ turn' = [a \in Agents |-> IF turn[a] = "running" THEN "cancelling" ELSE turn[a]]
    /\ UNCHANGED <<task, said, seen, chain, current, plan>>

(* asyncio.wait returns with the calls that have ended, in any order. *)
WaitReturns ==
    /\ phase = "wait"
    /\ Ended # {}
    /\ \/ \E a \in Ended \intersect InTurn("answered") :
             /\ phase' = "drain"
             /\ current' = a
             /\ turn' = [b \in Agents |->
                           IF turn[b] = "running" THEN "cancelling" ELSE turn[b]]
             /\ UNCHANGED <<seen, verdict>>
       \/ /\ Ended \intersect InTurn("answered") = {}
          /\ seen' = seen \union Ended
          /\ IF Team \subseteq seen'
             THEN Conclude("all failed", {})
             ELSE UNCHANGED <<phase, verdict>>
          /\ UNCHANGED <<turn, current>>
    /\ UNCHANGED <<task, said, chain, plan>>

\* Mutant: the cancelled calls are not waited for.
DrainedAtOnce ==
    /\ phase = "drain"
    /\ Conclude("answer", {current})
    /\ UNCHANGED <<task, turn, said, seen, chain, current, plan>>

(* The cancelled calls are gathered before the result is returned. *)
Drained ==
    /\ phase = "drain"
    /\ Working = {}
    /\ Conclude("answer", {current})
    /\ UNCHANGED <<task, turn, said, seen, chain, current, plan>>

-----------------------------------------------------------------------------
(* Hand-off.                                                               *)

\* Mutant: the limit is compared before the hand-off is counted.
ChainIsTooLongLate(handoffs) == handoffs > MaxHandoffs + 1

ChainIsTooLong(handoffs) == handoffs > MaxHandoffs

(* The agent answered: no marker ends the chain, a marker extends it. *)
HandOff ==
    /\ phase = "chain"
    /\ turn[current] = "answered"
    /\ chain' = Append(chain, [agent |-> current, to |-> said[current]])
    /\ \/ /\ said[current] = Nothing
          /\ Conclude("answer", {current})
          /\ UNCHANGED <<current, turn>>
       \/ /\ said[current] # Nothing
          /\ ChainIsTooLong(Len(chain'))
          /\ Conclude("handoff failed", {})
          /\ UNCHANGED <<current, turn>>
       \/ /\ said[current] # Nothing
          /\ ~ChainIsTooLong(Len(chain'))
          /\ AskNext(task.team, said[current])
    /\ UNCHANGED <<task, said, seen, plan>>

-----------------------------------------------------------------------------
(* Supervisor.                                                             *)

(* A dict of assignments in the order the supervisor wrote them; those to *)
(* agents the team does not have are skipped.                             *)
Assign(assignments) ==
    LET known == assignments \intersect Team IN
    IF known = {}
    THEN Ask("synthesize", Supervisor) /\ plan' = {}
    ELSE \E a \in known : Ask("dispatch", a) /\ plan' = known \ {a}

(* The supervisor's answer holds some assignments, none that can be read, *)
(* or JSON of a shape that even the reader does not expect.              *)
Decomposed ==
    /\ phase = "decompose"
    /\ turn[current] = "answered"
    /\ UNCHANGED <<task, said, seen, chain>>
    /\ \/ /\ \E how \in {"supervisor failed", "strategy failed"} : Conclude(how, {})
          /\ UNCHANGED <<turn, current, plan>>
       \/ /\ \E some \in (SUBSET (Agents \union {Stranger})) \ {{}} :
                Assign(some)
          /\ UNCHANGED verdict

Dispatched ==
    /\ phase = "dispatch"
    /\ turn[current] = "answered"
    /\ Assign(plan)
    /\ UNCHANGED <<task, said, seen, chain, verdict>>

Synthesized ==
    /\ phase = "synthesize"
    /\ turn[current] = "answered"
    /\ Conclude("answer", {current})
    /\ UNCHANGED <<task, turn, said, seen, chain, current, plan>>

(* Whatever an agent raises here ends the coordination. *)
AgentErrorEnds ==
    /\ phase \in {"chain", "decompose", "dispatch", "synthesize"}
    /\ turn[current] = "failed"
    /\ Conclude("strategy failed", {})
    /\ UNCHANGED <<task, turn, said, seen, chain, current, plan>>

-----------------------------------------------------------------------------
(* Cancellation from outside: the timeout of the step, or its stream.      *)

(* What is awaited is cancelled and waited for; asyncio.wait is neither,  *)
(* and its agents are left to themselves.                                 *)
CancelCoordination ==
    /\ phase \notin {"idle", "over", "stopping"}
    /\ IF phase = "wait"
       THEN /\ Conclude("cancelled", {})
            /\ turn' = [a \in Agents |-> IF turn[a] = "running" THEN "left" ELSE turn[a]]
       ELSE /\ phase' = "stopping"
            /\ turn' = [a \in Agents |->
                          IF turn[a] = "running" THEN "cancelling" ELSE turn[a]]
            /\ UNCHANGED verdict
    /\ UNCHANGED <<task, said, seen, chain, current, plan>>

Stopped ==
    /\ phase = "stopping"
    /\ Working = {}
    /\ Conclude("cancelled", {})
    /\ UNCHANGED <<task, turn, said, seen, chain, current, plan>>

AgentStep ==
    \E a \in Agents : AgentAnswers(a) \/ AgentFails(a) \/ AgentStops(a)

CoordinationStep ==
    \/ Gathered \/ WaitReturns \/ Drained \/ HandOff
    \/ Decomposed \/ Dispatched \/ Synthesized \/ AgentErrorEnds \/ Stopped

-----------------------------------------------------------------------------
(***************************************************************************)
(* No coordination that ended has left an agent at work, however it ended: *)
(* the losers of first mode are cancelled and waited for, and so are all   *)
(* agents when the step is cancelled. Only asyncio.wait, in first mode,    *)
(* does not cancel what it waits for (parallel_dispatch.py:165).           *)
(***************************************************************************)
NoAgentLeftAtWork ==
    /\ phase = "over" => Working = {}
    /\ InTurn("left") # {} => task.mode = "first" /\ verdict.how = "cancelled"

(***************************************************************************)
(* A parallel dispatch fails only if every agent failed, and answers with  *)
(* what agents said that have answered: all of them, the first, or those   *)
(* of a text that no other text beats. A supervisor answers only when      *)
(* nothing it assigned is left to do.                                      *)
(***************************************************************************)
OutcomeIsEarned ==
    /\ verdict.how = "all failed" => \A a \in Team : turn[a] = "failed"
    /\ verdict.how = "answer" =>
          /\ verdict.by # {}
          /\ \A a \in verdict.by : turn[a] = "answered"
          /\ task.mode = "vote" =>
                \A a \in verdict.by, b \in InTurn("answered") :
                    Votes(said[b]) <= Cardinality(verdict.by) /\ Votes(said[a]) = Cardinality(verdict.by)
          /\ task.mode = "supervisor" => plan = {} /\ verdict.by = {Supervisor}

(***************************************************************************)
(* A chain goes from each agent to the one it named, and is no longer than *)
(* max_handoffs hand-offs, whatever the agents say.                        *)
(***************************************************************************)
ChainFollowsMarkers ==
    /\ Len(chain) <= MaxHandoffs + 1
    /\ \A i \in 1 .. Len(chain) - 1 : chain[i].to = chain[i + 1].agent
    /\ (task.mode = "handoff" /\ verdict.how = "answer") =>
          Last(chain).to = Nothing /\ verdict.by = {Last(chain).agent}
=============================================================================
