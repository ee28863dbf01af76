------------------------- MODULE OrchestrationProofs -------------------------
(***************************************************************************)
(* What holds of coordinations and of nested calls, for any agents, teams, *)
(* workflows, kits and versions. The two share nothing but the phase of    *)
(* the coordination, which is idle whenever a run of a workflow moves.     *)
(***************************************************************************)
EXTENDS Orchestration, TLAPS, FiniteSetTheorems, WellFoundedInduction

-----------------------------------------------------------------------------
(* Coordinations.                                                          *)

Turns == {"idle", "running", "answered", "failed", "cancelling", "cancelled", "left"}
Busy == {"running", "cancelling"}
OneByOne == {"chain", "decompose", "dispatch", "synthesize"}
Words == Agents \union {Stranger, Nothing} \union Texts

CoordinationTyped ==
    /\ phase \in {"idle", "gather", "wait", "drain", "over", "stopping"} \union OneByOne
    /\ turn \in [Agents -> Turns]
    /\ said \in [Agents -> Words]
    /\ chain \in Seq([agent : Agents, to : Words])
    /\ phase \in OneByOne =>
          task.team \in Seq(Team) /\ task.team # <<>> /\ Team \subseteq Agents /\ current \in Agents

(* Before a coordination nothing of an earlier one is left. *)
IdleIsClean ==
    phase = "idle" =>
        /\ task = Idle /\ seen = {} /\ chain = <<>> /\ verdict = Undecided
        /\ \A a \in Agents : turn[a] = "idle"

(* Who may be at work in each phase, and who was left at work. *)
WorkIsKnown ==
    /\ phase = "gather" => task.mode \in {"merge", "vote"}
    /\ phase \in {"gather", "wait"} => \A a \in Agents : turn[a] \in Busy => a \in Team
    /\ phase = "wait" =>
          /\ task.mode = "first"
          /\ \A a \in Agents : turn[a] # "cancelling"
          /\ \A a \in seen : a \in Agents /\ turn[a] \in {"answered", "failed"}
    /\ phase \in OneByOne => \A a \in Agents : turn[a] \in Busy => a = current
    /\ phase = "over" => \A a \in Agents : turn[a] \notin Busy
    /\ \A a \in Agents : turn[a] = "left" =>
          phase = "over" /\ task.mode = "first" /\ verdict.how = "cancelled"

(* The chain leads to the agent that is asked. *)
ChainLeads ==
    /\ verdict.how # "none" => phase = "over"
    /\ task.mode = "handoff" => phase \in {"chain", "over", "stopping"}
    /\ phase = "chain" => Len(chain) <= MaxHandoffs
    /\ (phase = "chain" /\ chain # <<>>) => chain[Len(chain)].to = current
    /\ ChainFollowsMarkers

CoordinationSound ==
    CoordinationTyped /\ IdleIsClean /\ WorkIsKnown /\ ChainLeads

LEMMA IdleIsSound == CoordinationIdle => CoordinationSound
  <1> SUFFICES ASSUME CoordinationIdle PROVE CoordinationSound
    OBVIOUS
  <1>1. CoordinationTyped
    BY DEF CoordinationIdle, CoordinationTyped, OneByOne, Turns, Words
  <1>2. IdleIsClean
    BY DEF CoordinationIdle, IdleIsClean
  <1>3. WorkIsKnown
    BY DEF CoordinationIdle, WorkIsKnown, Busy, OneByOne
  <1>4. ChainLeads
    BY CallsAssumption DEF CoordinationIdle, ChainLeads, ChainFollowsMarkers, Idle, Undecided
  <1> QED BY <1>1, <1>2, <1>3, <1>4 DEF CoordinationSound

LEMMA AgentStepSound ==
    ASSUME CoordinationSound, AgentStep PROVE CoordinationSound'
  <1>1. PICK a \in Agents : AgentAnswers(a) \/ AgentFails(a) \/ AgentStops(a)
    BY DEF AgentStep
  <1>2. UNCHANGED <<task, phase, seen, chain, current, plan, verdict>>
    BY <1>1 DEF AgentAnswers, AgentFails, AgentStops
  <1>3. PICK to \in {"answered", "failed", "cancelled"} :
            turn[a] \in Busy /\ turn' = [turn EXCEPT ![a] = to]
            /\ (turn[a] # "cancelling" => to # "cancelled")
    BY <1>1 DEF AgentAnswers, AgentFails, AgentStops, Busy
  <1>4. said' \in [Agents -> Words]
    BY <1>1 DEF CoordinationSound, CoordinationTyped, AgentAnswers, AgentFails, AgentStops,
                Sayings, Words
  <1>5. turn' \in [Agents -> Turns]
    BY <1>3 DEF CoordinationSound, CoordinationTyped, Turns
  <1>6. \A b \in Agents : turn'[b] = IF b = a THEN to ELSE turn[b]
    BY <1>3 DEF CoordinationSound, CoordinationTyped
  <1>7. CoordinationTyped'
    BY <1>2, <1>4, <1>5 DEF CoordinationSound, CoordinationTyped, Team
  <1>8. phase # "idle"
    BY <1>3 DEF CoordinationSound, IdleIsClean, Busy
  <1>9. IdleIsClean'
    BY <1>2, <1>8 DEF IdleIsClean
  <1>10. WorkIsKnown'
    BY <1>2, <1>3, <1>6 DEF CoordinationSound, WorkIsKnown, Team, Busy
  <1>11. ChainLeads'
    BY <1>2 DEF CoordinationSound, ChainLeads, ChainFollowsMarkers
  <1> QED BY <1>7, <1>9, <1>10, <1>11 DEF CoordinationSound

(* A coordination that ends, by an answer or not, with nobody at work.     *)
LEMMA ConcludeSound ==
    ASSUME CoordinationSound, NEW how, NEW by, Conclude(how, by),
           UNCHANGED <<task, turn, said>>,
           phase # "idle",
           \A a \in Agents : turn[a] \notin Busy /\ turn[a] # "left",
           CoordinationTyped', ChainLeads'
    PROVE  CoordinationSound'
  <1>1. phase' = "over"
    BY DEF Conclude
  <1>2. IdleIsClean'
    BY <1>1 DEF IdleIsClean
  <1>3. WorkIsKnown'
    BY <1>1 DEF WorkIsKnown, OneByOne
  <1> QED BY <1>2, <1>3 DEF CoordinationSound

(* The same, when no hand-off is involved. *)
LEMMA ConcludePlainly ==
    ASSUME CoordinationSound, NEW how, NEW by, Conclude(how, by),
           UNCHANGED <<task, turn, said, chain>>,
           phase # "idle",
           \A a \in Agents : turn[a] \notin Busy /\ turn[a] # "left",
           task.mode = "handoff" => how # "answer"
    PROVE  CoordinationSound'
  <1>1. phase' = "over" /\ verdict' = [how |-> how, by |-> by]
    BY DEF Conclude
  <1>2. CoordinationTyped'
    BY <1>1 DEF CoordinationSound, CoordinationTyped, OneByOne
  <1>3. verdict'.how = how
    BY <1>1
  <1>4. ChainLeads'
    BY <1>1, <1>3 DEF CoordinationSound, ChainLeads, ChainFollowsMarkers
  <1> QED BY <1>2, <1>4, ConcludeSound

LEMMA NoLinks ==
    ASSUME NEW c, c = <<>>
    PROVE  Len(c) <= MaxHandoffs + 1 /\ \A i \in 1 .. Len(c) - 1 : c[i].to = c[i + 1].agent
  BY CallsAssumption

LEMMA CoordinateSound ==
    ASSUME CoordinationSound, NEW mode \in Modes, NEW team, team \in Seq(ToSet(team)),
           ToSet(team) \subseteq Agents, NEW first, Coordinate(mode, team, first)
    PROVE  CoordinationSound'
  <1>1. phase = "idle" /\ seen = {} /\ chain = <<>> /\ verdict = Undecided
        /\ task = Idle /\ \A a \in Agents : turn[a] = "idle"
    BY DEF Coordinate, CoordinationSound, IdleIsClean
  <1>2. task' = [mode |-> mode, team |-> team] /\ UNCHANGED <<said, seen, chain, plan>>
    BY DEF Coordinate
  <1>3. task'.mode = mode /\ task'.team = team /\ Team' = ToSet(team)
    BY <1>2 DEF Team
  <1>4. said' \in [Agents -> Words] /\ chain' \in Seq([agent : Agents, to : Words])
    BY <1>2 DEF CoordinationSound, CoordinationTyped
  <1>5. MaxHandoffs \in Nat
    BY CallsAssumption
  <1>6. CASE \E how \in {"no agents", "handoff failed"} : Conclude(how, {}) /\ UNCHANGED turn
    <2>1. PICK how \in {"no agents", "handoff failed"} : Conclude(how, {}) /\ UNCHANGED turn
      BY <1>6
    <2>2. phase' = "over" /\ verdict' = [how |-> how, by |-> {}] /\ turn' = turn
      BY <2>1 DEF Conclude
    <2>3. CoordinationTyped'
      BY <1>4, <2>2 DEF CoordinationSound, CoordinationTyped, OneByOne
    <2>4. IdleIsClean'
      BY <2>2 DEF IdleIsClean
    <2>5. WorkIsKnown'
      BY <1>1, <2>2 DEF WorkIsKnown, OneByOne, Busy
    <2>6. ChainLeads'
      <3>1. verdict'.how # "answer" /\ phase' = "over"
        BY <2>2
      <3>2. chain' = <<>>
        BY <1>1, <1>2
      <3>3. ChainFollowsMarkers'
        BY <3>1, <3>2, NoLinks DEF ChainFollowsMarkers
      <3> QED BY <3>1, <3>3 DEF ChainLeads
    <2> QED BY <2>3, <2>4, <2>5, <2>6 DEF CoordinationSound
  <1>7. CASE /\ phase' \in {"gather", "wait"} /\ turn' = Started(ToSet(team)) /\ verdict' = verdict
             /\ phase' = "wait" => mode = "first"
             /\ phase' = "gather" => mode \in {"merge", "vote"}
             /\ mode # "handoff"
    <2>1. turn' = [a \in Agents |-> IF a \in ToSet(team) THEN "running" ELSE turn[a]]
      BY <1>7 DEF Started
    <2>2. turn' \in [Agents -> Turns]
      BY <2>1 DEF CoordinationSound, CoordinationTyped, Turns
    <2>3. CoordinationTyped'
      BY <1>4, <1>7, <2>2 DEF CoordinationTyped, OneByOne
    <2>4. IdleIsClean'
      BY <1>7 DEF IdleIsClean
    <2>5. WorkIsKnown'
      BY <1>1, <1>2, <1>3, <1>7, <2>1 DEF WorkIsKnown, OneByOne, Busy
    <2>6. ChainLeads'
      BY <1>1, <1>2, <1>3, <1>5, <1>7 DEF ChainLeads, ChainFollowsMarkers, Undecided
    <2> QED BY <2>3, <2>4, <2>5, <2>6 DEF CoordinationSound
  <1>8. CASE \E where \in OneByOne, agent \in ToSet(team) :
                /\ Ask(where, agent) /\ verdict' = verdict
                /\ team # <<>>
                /\ mode = "handoff" <=> where = "chain"
    <2>1. PICK where \in OneByOne, agent \in ToSet(team) :
                /\ Ask(where, agent) /\ verdict' = verdict
                /\ team # <<>>
                /\ mode = "handoff" <=> where = "chain"
      BY <1>8
    <2>2. phase' = where /\ current' = agent /\ agent \in Agents
          /\ turn' = [a \in Agents |-> IF a \in {agent} THEN "running" ELSE turn[a]]
      BY <2>1 DEF Ask, Started
    <2>3. turn' \in [Agents -> Turns]
      BY <2>2 DEF CoordinationSound, CoordinationTyped, Turns
    <2>4. CoordinationTyped'
      BY <1>3, <1>4, <2>1, <2>2, <2>3 DEF CoordinationTyped, OneByOne
    <2>5. IdleIsClean'
      BY <2>1, <2>2 DEF IdleIsClean, OneByOne
    <2>6. WorkIsKnown'
      BY <1>1, <2>1, <2>2 DEF WorkIsKnown, OneByOne, Busy
    <2>7. ChainLeads'
      BY <1>1, <1>2, <1>3, <1>5, <2>1, <2>2 DEF ChainLeads, ChainFollowsMarkers, Undecided
    <2> QED BY <2>4, <2>5, <2>6, <2>7 DEF CoordinationSound
  <1>9. CASE team = <<>>
    BY <1>6, <1>9 DEF Coordinate
  <1>10. CASE team # <<>> /\ mode \in {"merge", "vote", "first"}
    BY <1>7, <1>10 DEF Coordinate
  <1>11. CASE team # <<>> /\ mode = "handoff"
    <2>1. \E agent : AskNext(team, agent)
      BY <1>11 DEF Coordinate
    <2> QED BY <1>6, <1>8, <1>11, <2>1 DEF AskNext, OneByOne
  <1>12. CASE team # <<>> /\ mode = "supervisor"
    <2>1. Head(team) \in ToSet(team)
      BY <1>12 DEF ToSet
    <2>2. PICK agent \in ToSet(team) : Ask("decompose", agent) /\ verdict' = verdict
      BY <1>12, <2>1 DEF Coordinate
    <2> QED BY <1>8, <1>12, <2>2 DEF OneByOne
  <1> QED BY <1>9, <1>10, <1>11, <1>12 DEF Modes

(* The agent asked has ended: nobody is at work. *)
LEMMA NobodyAtWork ==
    ASSUME CoordinationSound,
           \/ phase \in OneByOne /\ turn[current] \notin Busy
           \/ phase \notin {"idle", "over"} /\ Working = {}
           \/ phase \in {"gather", "wait"} /\ Team \intersect Working = {}
    PROVE  \A a \in Agents : turn[a] \notin Busy /\ turn[a] # "left"
  <1>1. phase # "over"
    BY DEF OneByOne
  <1>2. \A a \in Agents : turn[a] # "left"
    BY <1>1 DEF CoordinationSound, WorkIsKnown
  <1>3. \A a \in Agents : a \in Working <=> turn[a] \in Busy
    BY DEF Working, InTurn, Busy
  <1> QED BY <1>2, <1>3 DEF CoordinationSound, WorkIsKnown

(* The next agent is asked once the last has answered. *)
LEMMA AskSound ==
    ASSUME CoordinationSound, phase \in OneByOne, turn[current] \notin Busy,
           NEW where \in OneByOne, NEW agent \in Team, Ask(where, agent),
           UNCHANGED <<task, said>>,
           chain' \in Seq([agent : Agents, to : Words]), ChainLeads'
    PROVE  CoordinationSound'
  <1>1. agent \in Agents
    BY DEF CoordinationSound, CoordinationTyped
  <1>2. phase' = where /\ current' = agent
        /\ turn' = [a \in Agents |-> IF a \in {agent} THEN "running" ELSE turn[a]]
    BY DEF Ask, Started
  <1>3. turn' \in [Agents -> Turns]
    BY <1>2 DEF CoordinationSound, CoordinationTyped, Turns
  <1>4. CoordinationTyped'
    <2>1. Team' = Team
      BY DEF Team
    <2>2. task'.team \in Seq(Team') /\ task'.team # <<>> /\ Team' \subseteq Agents
      BY <2>1 DEF CoordinationSound, CoordinationTyped
    <2>3. said' \in [Agents -> Words]
      BY DEF CoordinationSound, CoordinationTyped
    <2> QED BY <1>1, <1>2, <1>3, <2>2, <2>3 DEF CoordinationTyped
  <1>5. IdleIsClean'
    BY <1>2 DEF IdleIsClean, OneByOne
  <1>6. \A a \in Agents : turn[a] \notin Busy /\ turn[a] # "left"
    BY NobodyAtWork
  <1>7. WorkIsKnown'
    BY <1>2, <1>6 DEF WorkIsKnown, OneByOne, Busy
  <1> QED BY <1>4, <1>5, <1>7 DEF CoordinationSound

LEMMA GatheredSound ==
    ASSUME CoordinationSound, Gathered PROVE CoordinationSound'
  <1>1. phase = "gather" /\ Team \intersect Working = {} /\ UNCHANGED <<task, turn, said, chain>>
    BY DEF Gathered
  <1>2. task.mode # "handoff"
    BY <1>1 DEF CoordinationSound, ChainLeads
  <1>3. \E how, by : Conclude(how, by)
    <2>1. task.mode \in {"merge", "vote"}
      BY <1>1 DEF CoordinationSound, WorkIsKnown
    <2> QED BY <2>1 DEF Gathered
  <1>4. \A a \in Agents : turn[a] \notin Busy /\ turn[a] # "left"
    BY <1>1, NobodyAtWork
  <1> QED BY <1>1, <1>2, <1>3, <1>4, ConcludePlainly

LEMMA WaitReturnsSound ==
    ASSUME CoordinationSound, WaitReturns PROVE CoordinationSound'
  <1>1. phase = "wait" /\ UNCHANGED <<task, said, chain, plan>> /\ Team' = Team
    BY DEF WaitReturns, Team
  <1>2. task.mode = "first" /\ \A a \in Agents : turn[a] \notin {"cancelling", "left"}
    BY <1>1 DEF CoordinationSound, WorkIsKnown
  <1>3. CASE \E a \in Ended \intersect InTurn("answered") :
             /\ phase' = "drain"
             /\ current' = a
             /\ turn' = [b \in Agents |->
                           IF turn[b] = "running" THEN "cancelling" ELSE turn[b]]
             /\ UNCHANGED <<seen, verdict>>
    <2>1. phase' = "drain" /\ UNCHANGED verdict
          /\ turn' = [b \in Agents |-> IF turn[b] = "running" THEN "cancelling" ELSE turn[b]]
      BY <1>3
    <2>2. turn' \in [Agents -> Turns]
      BY <2>1 DEF CoordinationSound, CoordinationTyped, Turns
    <2>3. CoordinationTyped'
      BY <1>1, <2>1, <2>2 DEF CoordinationSound, CoordinationTyped, OneByOne
    <2>4. IdleIsClean'
      BY <2>1 DEF IdleIsClean
    <2>5. WorkIsKnown'
      BY <1>2, <2>1 DEF WorkIsKnown, OneByOne, Busy
    <2>6. ChainLeads'
      BY <1>1, <1>2, <2>1 DEF CoordinationSound, ChainLeads, ChainFollowsMarkers
    <2> QED BY <2>3, <2>4, <2>5, <2>6 DEF CoordinationSound
  <1>4. CASE /\ seen' = seen \union Ended
             /\ IF Team \subseteq seen'
                THEN Conclude("all failed", {})
                ELSE UNCHANGED <<phase, verdict>>
             /\ UNCHANGED <<turn, current>>
    <2>1. \A a \in seen' : a \in Agents /\ turn[a] \in {"answered", "failed"}
      BY <1>1, <1>4 DEF CoordinationSound, WorkIsKnown, Ended, InTurn
    <2>2. CASE Team \subseteq seen'
      <3>1. Team \intersect Working = {}
        BY <2>1, <2>2 DEF Working, InTurn
      <3>2. \A a \in Agents : turn[a] \notin Busy /\ turn[a] # "left"
        BY <1>1, <3>1, NobodyAtWork
      <3>3. Conclude("all failed", {})
        BY <1>4, <2>2
      <3> QED BY <1>1, <1>2, <1>4, <3>2, <3>3, ConcludePlainly
    <2>3. CASE ~(Team \subseteq seen')
      <3>1. UNCHANGED <<task, phase, turn, said, chain, current, plan, verdict>>
        BY <1>1, <1>4, <2>3
      <3>2. CoordinationTyped' /\ IdleIsClean' /\ ChainLeads'
        BY <1>1, <3>1 DEF CoordinationSound, CoordinationTyped, IdleIsClean, ChainLeads,
                          ChainFollowsMarkers, Team, OneByOne
      <3>3. WorkIsKnown'
        BY <1>1, <2>1, <3>1 DEF CoordinationSound, WorkIsKnown, Team, OneByOne
      <3> QED BY <3>2, <3>3 DEF CoordinationSound
    <2> QED BY <2>2, <2>3
  <1> QED BY <1>3, <1>4 DEF WaitReturns

LEMMA HandOffSound ==
    ASSUME CoordinationSound, HandOff PROVE CoordinationSound'
  <1>1. phase = "chain" /\ turn[current] \notin Busy /\ current \in Agents
        /\ UNCHANGED <<task, said, seen, plan>>
    BY DEF HandOff, Busy, CoordinationSound, CoordinationTyped, OneByOne
  <1>2. chain \in Seq([agent : Agents, to : Words])
    BY DEF CoordinationSound, CoordinationTyped
  <1>3. [agent |-> current, to |-> said[current]] \in [agent : Agents, to : Words]
    BY <1>1 DEF CoordinationSound, CoordinationTyped
  <1>4. chain' = Append(chain, [agent |-> current, to |-> said[current]])
    BY DEF HandOff
  <1> DEFINE n == Len(chain)
  <1>5. n \in Nat /\ n <= MaxHandoffs /\ MaxHandoffs \in Nat
    BY <1>1, <1>2, CallsAssumption DEF CoordinationSound, ChainLeads
  <1>6. chain' \in Seq([agent : Agents, to : Words]) /\ Len(chain') = n + 1
    BY <1>2, <1>3, <1>4
  <1>7. chain'[n + 1].agent = current /\ chain'[n + 1].to = said[current]
        /\ \A i \in 1 .. n : chain'[i] = chain[i]
    BY <1>2, <1>3, <1>4
  <1>8. n # 0 => chain[n].to = current
    BY <1>1, <1>2 DEF CoordinationSound, ChainLeads
  <1>9. \A i \in 1 .. Len(chain') - 1 : chain'[i].to = chain'[i + 1].agent
    <2> SUFFICES ASSUME NEW i \in 1 .. n PROVE chain'[i].to = chain'[i + 1].agent
      BY <1>5, <1>6
    <2>1. CASE i = n
      BY <1>5, <1>7, <1>8, <2>1
    <2>2. CASE i # n
      <3>1. i \in 1 .. n - 1 /\ i + 1 \in 1 .. n
        BY <1>5, <2>2
      <3>2. chain[i].to = chain[i + 1].agent
        BY <3>1 DEF CoordinationSound, ChainLeads, ChainFollowsMarkers
      <3> QED BY <1>7, <3>1, <3>2
    <2> QED BY <2>1, <2>2
  <1>10. \A a \in Agents : turn[a] \notin Busy /\ turn[a] # "left"
    BY <1>1, NobodyAtWork DEF OneByOne
  <1>11. Len(chain') <= MaxHandoffs + 1
    BY <1>5, <1>6
  <1>12. verdict.how = "none"
    BY <1>1 DEF CoordinationSound, ChainLeads
  <1>13. ASSUME NEW how, NEW by, Conclude(how, by), UNCHANGED turn,
                how = "answer" => said[current] = Nothing /\ by = {current}
         PROVE  CoordinationSound'
    <2>1. phase' = "over" /\ verdict'.how = how /\ verdict'.by = by
      BY <1>13 DEF Conclude
    <2>2. CoordinationTyped'
      BY <1>1, <1>6, <1>13, <2>1 DEF CoordinationSound, CoordinationTyped, OneByOne
    <2>3. Last(chain') = chain'[n + 1]
      BY <1>6 DEF Last
    <2>4. how = "answer" => Last(chain').to = Nothing /\ by = {Last(chain').agent}
      BY <1>7, <1>13, <2>3
    <2>5. ChainFollowsMarkers'
      BY <1>9, <1>11, <2>1, <2>4 DEF ChainFollowsMarkers
    <2>6. ChainLeads'
      BY <2>1, <2>5 DEF ChainLeads
    <2> QED BY <1>1, <1>10, <1>13, <2>2, <2>6, ConcludeSound
  <1>14. ASSUME Ask("chain", said[current]), UNCHANGED verdict, said[current] \in Team,
                ~ChainIsTooLong(Len(chain'))
         PROVE  CoordinationSound'
    <2>1. Len(chain') <= MaxHandoffs
      BY <1>5, <1>6, <1>14 DEF ChainIsTooLong
    <2>2. phase' = "chain" /\ current' = said[current] /\ verdict'.how = "none"
      BY <1>12, <1>14 DEF Ask
    <2>3. chain'[Len(chain')].to = current'
      BY <1>6, <1>7, <2>2
    <2>4. ChainFollowsMarkers'
      BY <1>9, <1>11, <2>2 DEF ChainFollowsMarkers
    <2>5. ChainLeads'
      BY <2>1, <2>2, <2>3, <2>4 DEF ChainLeads
    <2> QED BY <1>1, <1>6, <1>14, <2>5, AskSound DEF OneByOne
  <1>15. CASE said[current] = Nothing /\ Conclude("answer", {current}) /\ UNCHANGED turn
    BY <1>13, <1>15
  <1>16. CASE Conclude("handoff failed", {}) /\ UNCHANGED turn
    BY <1>13, <1>16
  <1>17. CASE ~ChainIsTooLong(Len(chain')) /\ AskNext(task.team, said[current])
    BY <1>14, <1>16, <1>17 DEF AskNext, Team
  <1> QED BY <1>15, <1>16, <1>17 DEF HandOff

LEMMA SupervisorIsInTeam ==
    ASSUME CoordinationSound, phase \in OneByOne PROVE Supervisor \in Team
  <1>1. task.team \in Seq(Team) /\ task.team # <<>>
    BY DEF CoordinationSound, CoordinationTyped
  <1>2. Head(task.team) \in Team
    BY <1>1
  <1> QED BY <1>2 DEF Supervisor

LEMMA AssignSound ==
    ASSUME CoordinationSound, phase \in {"decompose", "dispatch"}, turn[current] \notin Busy,
           NEW assignments, Assign(assignments), UNCHANGED <<task, said, chain, verdict>>
    PROVE  CoordinationSound'
  <1>1. PICK where \in {"synthesize", "dispatch"}, agent \in Team : Ask(where, agent)
    <2>1. Supervisor \in Team
      BY SupervisorIsInTeam DEF OneByOne
    <2> QED BY <2>1 DEF Assign
  <1>2. phase' = where
    BY <1>1 DEF Ask
  <1>3. chain' \in Seq([agent : Agents, to : Words])
    BY DEF CoordinationSound, CoordinationTyped
  <1>4. ChainLeads'
    BY <1>2 DEF CoordinationSound, ChainLeads, ChainFollowsMarkers
  <1> QED BY <1>1, <1>3, <1>4, AskSound DEF OneByOne

LEMMA CoordinationStepSound ==
    ASSUME CoordinationSound, CoordinationStep PROVE CoordinationSound'
  <1>1. CASE Drained
    <2>1. phase = "drain" /\ Working = {} /\ Conclude("answer", {current})
          /\ UNCHANGED <<task, turn, said, chain>>
      BY <1>1 DEF Drained
    <2>2. task.mode # "handoff"
      BY <2>1 DEF CoordinationSound, ChainLeads
    <2>3. \A a \in Agents : turn[a] \notin Busy /\ turn[a] # "left"
      BY <2>1, NobodyAtWork
    <2> QED BY <2>1, <2>2, <2>3, ConcludePlainly
  <1>2. CASE Decomposed
    <2>1. phase = "decompose" /\ turn[current] \notin Busy /\ UNCHANGED <<task, said, chain>>
      BY <1>2 DEF Decomposed, Busy
    <2>2. ASSUME NEW how \in {"supervisor failed", "strategy failed"},
                 Conclude(how, {}), UNCHANGED turn
          PROVE  CoordinationSound'
      <3>1. \A a \in Agents : turn[a] \notin Busy /\ turn[a] # "left"
        BY <2>1, NobodyAtWork DEF OneByOne
      <3> QED BY <2>1, <2>2, <3>1, ConcludePlainly
    <2>3. CASE \E some : Assign(some) /\ UNCHANGED verdict
      BY <2>1, <2>3, AssignSound
    <2> QED BY <1>2, <2>2, <2>3 DEF Decomposed
  <1>3. CASE Dispatched
    BY <1>3, AssignSound DEF Dispatched, Busy
  <1>4. CASE Synthesized
    <2>1. phase = "synthesize" /\ turn[current] \notin Busy /\ Conclude("answer", {current})
          /\ UNCHANGED <<task, turn, said, chain>>
      BY <1>4 DEF Synthesized, Busy
    <2>2. task.mode # "handoff"
      BY <2>1 DEF CoordinationSound, ChainLeads
    <2>3. \A a \in Agents : turn[a] \notin Busy /\ turn[a] # "left"
      BY <2>1, NobodyAtWork DEF OneByOne
    <2> QED BY <2>1, <2>2, <2>3, ConcludePlainly
  <1>5. CASE AgentErrorEnds
    <2>1. phase \in OneByOne /\ phase # "idle" /\ turn[current] \notin Busy
          /\ Conclude("strategy failed", {}) /\ UNCHANGED <<task, turn, said, chain>>
      BY <1>5 DEF AgentErrorEnds, Busy, OneByOne
    <2>2. \A a \in Agents : turn[a] \notin Busy /\ turn[a] # "left"
      BY <2>1, NobodyAtWork
    <2> QED BY <2>1, <2>2, ConcludePlainly
  <1>6. CASE Stopped
    <2>1. phase = "stopping" /\ Working = {} /\ Conclude("cancelled", {})
          /\ UNCHANGED <<task, turn, said, chain>>
      BY <1>6 DEF Stopped
    <2>2. \A a \in Agents : turn[a] \notin Busy /\ turn[a] # "left"
      BY <2>1, NobodyAtWork
    <2> QED BY <2>1, <2>2, ConcludePlainly
  <1> QED BY <1>1, <1>2, <1>3, <1>4, <1>5, <1>6, GatheredSound, WaitReturnsSound, HandOffSound
         DEF CoordinationStep

LEMMA CancelSound ==
    ASSUME CoordinationSound, CancelCoordination PROVE CoordinationSound'
  <1>1. phase \notin {"idle", "over"} /\ UNCHANGED <<task, said, seen, chain>>
    BY DEF CancelCoordination
  <1>2. \A a \in Agents : turn[a] # "left"
    BY <1>1 DEF CoordinationSound, WorkIsKnown
  <1>3. CASE phase = "wait"
    <2>1. phase' = "over" /\ verdict'.how = "cancelled"
          /\ turn' = [a \in Agents |-> IF turn[a] = "running" THEN "left" ELSE turn[a]]
      BY <1>3 DEF CancelCoordination, Conclude
    <2>2. turn' \in [Agents -> Turns]
      BY <2>1 DEF CoordinationSound, CoordinationTyped, Turns
    <2>3. CoordinationTyped'
      BY <1>1, <2>1, <2>2 DEF CoordinationSound, CoordinationTyped, OneByOne
    <2>4. task'.mode = "first" /\ \A a \in Agents : turn'[a] \notin Busy
      BY <1>1, <1>3, <2>1 DEF CoordinationSound, WorkIsKnown, Busy
    <2>5. WorkIsKnown' /\ IdleIsClean'
      BY <2>1, <2>4 DEF WorkIsKnown, IdleIsClean, OneByOne
    <2>6. ChainLeads'
      BY <1>1, <2>1 DEF CoordinationSound, ChainLeads, ChainFollowsMarkers
    <2> QED BY <2>3, <2>5, <2>6 DEF CoordinationSound
  <1>4. CASE phase # "wait"
    <2>1. phase' = "stopping" /\ UNCHANGED verdict
          /\ turn' = [a \in Agents |-> IF turn[a] = "running" THEN "cancelling" ELSE turn[a]]
      BY <1>4 DEF CancelCoordination
    <2>2. turn' \in [Agents -> Turns]
      BY <2>1 DEF CoordinationSound, CoordinationTyped, Turns
    <2>3. CoordinationTyped'
      BY <1>1, <2>1, <2>2 DEF CoordinationSound, CoordinationTyped, OneByOne
    <2>4. WorkIsKnown' /\ IdleIsClean'
      BY <1>2, <2>1 DEF WorkIsKnown, IdleIsClean, OneByOne, Busy
    <2>5. ChainLeads'
      BY <1>1, <2>1 DEF CoordinationSound, ChainLeads, ChainFollowsMarkers
    <2> QED BY <2>3, <2>4, <2>5 DEF CoordinationSound
  <1> QED BY <1>3, <1>4

(* The step is over, and the next coordination finds nothing of this one.  *)
LEMMA OverSound ==
    ASSUME CoordinationSound, CoordinationOver PROVE CoordinationSound'
  <1>1. CoordinationIdle'
    BY DEF CoordinationOver, CoordinationIdle
  <1>2. phase' = "idle" /\ task' = Idle /\ seen' = {} /\ chain' = <<>> /\ verdict' = Undecided
        /\ turn' = [a \in Agents |-> "idle"] /\ said' = [a \in Agents |-> Nothing]
    BY <1>1 DEF CoordinationIdle
  <1>3. CoordinationTyped'
    BY <1>2 DEF CoordinationTyped, OneByOne, Turns, Words
  <1>4. IdleIsClean' /\ WorkIsKnown'
    BY <1>2 DEF IdleIsClean, WorkIsKnown, OneByOne, Busy
  <1>5. ChainFollowsMarkers'
    <2>1. task'.mode # "handoff"
      BY <1>2 DEF Idle
    <2> QED BY <1>2, <2>1, NoLinks DEF ChainFollowsMarkers
  <1>6. ChainLeads'
    BY <1>2, <1>5 DEF ChainLeads, Idle, Undecided
  <1> QED BY <1>3, <1>4, <1>6 DEF CoordinationSound

LEMMA CoordinationStutters ==
    ASSUME CoordinationSound, UNCHANGED coordinationVars PROVE CoordinationSound'
  <1> QED BY DEF coordinationVars, CoordinationSound, CoordinationTyped, IdleIsClean, WorkIsKnown,
                 ChainLeads, ChainFollowsMarkers, Team

-----------------------------------------------------------------------------
(* What a coordination concludes.                                          *)

ModeOfPhase ==
    /\ phase \in {"wait", "drain"} => task.mode = "first"
    /\ phase = "chain" => task.mode = "handoff"
    /\ phase \in {"decompose", "dispatch", "synthesize"} => task.mode = "supervisor"

(* A dispatch asks its whole team, and nobody else. *)
TeamIsAsked ==
    phase \in {"gather", "wait"} =>
        /\ task.team \in Seq(Team) /\ Team \subseteq Agents
        /\ \A a \in Team : turn[a] \in {"running", "answered", "failed"}
        /\ \A a \in Agents : turn[a] \in {"answered", "failed"} => a \in Team

(* What is known before the conclusion is drawn. *)
DecisionIsDue ==
    /\ phase = "wait" => \A a \in seen : turn[a] = "failed"
    /\ phase = "drain" => current \in Agents /\ turn[current] = "answered"
    /\ phase = "synthesize" => plan = {} /\ current = Supervisor

Earned == ModeOfPhase /\ TeamIsAsked /\ DecisionIsDue /\ OutcomeIsEarned

Merited(how, by) ==
    /\ how = "all failed" => \A a \in Team : turn[a] = "failed"
    /\ how = "answer" =>
          /\ by # {}
          /\ \A a \in by : turn[a] = "answered"
          /\ task.mode = "vote" =>
                \A a \in by, b \in InTurn("answered") :
                    Votes(said[b]) <= Cardinality(by) /\ Votes(said[a]) = Cardinality(by)
          /\ task.mode = "supervisor" => plan = {} /\ by = {Supervisor}

LEMMA ConcludeEarned ==
    ASSUME NEW how, NEW by, Merited(how, by), Conclude(how, by),
           UNCHANGED <<task, turn, said, plan>>
    PROVE  Earned'
  <1>1. phase' = "over" /\ verdict'.how = how /\ verdict'.by = by
    BY DEF Conclude
  <1>2. ModeOfPhase' /\ TeamIsAsked' /\ DecisionIsDue'
    BY <1>1 DEF ModeOfPhase, TeamIsAsked, DecisionIsDue
  <1>3. \A text : Votes(text)' = Votes(text)
    BY DEF Votes, InTurn
  <1>4. Team' = Team /\ Supervisor' = Supervisor /\ InTurn("answered")' = InTurn("answered")
    BY DEF Team, Supervisor, InTurn
  <1>5. OutcomeIsEarned'
    BY <1>1, <1>3, <1>4 DEF Merited, OutcomeIsEarned
  <1> QED BY <1>2, <1>5 DEF Earned

(* A conclusion that claims nothing. *)
LEMMA GiveUpEarned ==
    ASSUME NEW how, how \notin {"answer", "all failed"}, Conclude(how, {})
    PROVE  Earned'
  <1>1. phase' = "over" /\ verdict'.how = how
    BY DEF Conclude
  <1>2. ModeOfPhase' /\ TeamIsAsked' /\ DecisionIsDue'
    BY <1>1 DEF ModeOfPhase, TeamIsAsked, DecisionIsDue
  <1>3. OutcomeIsEarned'
    BY <1>1 DEF OutcomeIsEarned
  <1> QED BY <1>2, <1>3 DEF Earned

LEMMA LeastNumber ==
    ASSUME NEW T, T \subseteq Nat, T # {}
    PROVE  Min(T) \in T /\ \A x \in T : Min(T) <= x
  <1>1. PICK x \in T : \A y \in T : ~(<<y, x>> \in OpToRel(<, Nat))
    BY NatLessThanWellFounded, WFMin
  <1>2. \A y \in T : ~(y < x)
    BY <1>1 DEF OpToRel
  <1>3. \A y \in T : x <= y
    BY <1>2
  <1> QED BY <1>3 DEF Min

(* The votes of a vote: the winner is one that answered, and no text has   *)
(* more votes than the winner's.                                           *)
LEMMA WinnerLeads ==
    ASSUME task.team \in Seq(Team), Team \subseteq Agents,
           InTurn("answered") \subseteq Team, InTurn("answered") # {}
    PROVE  /\ Winner \in InTurn("answered")
           /\ \A b \in InTurn("answered") : Votes(said[b]) <= Votes(said[Winner])
  <1> DEFINE A == InTurn("answered")
             f(a) == Votes(said[a])
             n == Cardinality(A)
  <1>1. IsFiniteSet(A)
    <2>1. Len(task.team) \in Nat /\ task.team \in [1 .. Len(task.team) -> Team]
      OBVIOUS
    <2>2. \A a \in Team : \E i \in 1 .. Len(task.team) : task.team[i] = a
      BY <2>1 DEF Team, ToSet
    <2>3. task.team \in Surjection(1 .. Len(task.team), Team)
      BY <2>1, <2>2 DEF Surjection
    <2>4. IsFiniteSet(1 .. Len(task.team))
      BY <2>1, FS_Interval
    <2>5. IsFiniteSet(Team)
      BY <2>3, <2>4, FS_Surjection
    <2> QED BY <2>5, FS_Subset
  <1>2. n \in Nat /\ \A a \in A : f(a) \in Nat /\ f(a) <= n
    <2>1. n \in Nat
      BY <1>1, FS_CardinalityType
    <2> SUFFICES ASSUME NEW a \in A PROVE f(a) \in Nat /\ f(a) <= n
      BY <2>1
    <2> DEFINE alike == {b \in A : said[b] = said[a]}
    <2>2. alike \in SUBSET A
      OBVIOUS
    <2>3. IsFiniteSet(alike) /\ Cardinality(alike) <= n
      BY <1>1, <2>2, FS_Subset
    <2>4. Cardinality(alike) \in Nat
      BY <2>3, FS_CardinalityType
    <2>5. f(a) = Cardinality(alike)
      BY DEF Votes
    <2> QED BY <2>3, <2>4, <2>5
  <1>3. A # {} /\ A \subseteq Team
    OBVIOUS
  <1>4. \A a \in A : a \in Agents /\ turn[a] = "answered"
    BY DEF InTurn
  <1> HIDE DEF A, f, n
  <1>5. PICK best \in A : \A b \in A : f(b) <= f(best)
    <2> DEFINE short == {n - f(a) : a \in A}
    <2>1. short \subseteq Nat
      BY <1>2
    <2>2. short # {}
      BY <1>3
    <2>3. Min(short) \in short /\ \A x \in short : Min(short) <= x
      BY <2>1, <2>2, LeastNumber
    <2>4. PICK a \in A : Min(short) = n - f(a)
      BY <2>3
    <2>5. ASSUME NEW b \in A PROVE f(b) <= f(a)
      <3>1. n - f(b) \in short
        OBVIOUS
      <3>2. n - f(a) <= n - f(b)
        BY <2>3, <2>4, <3>1
      <3> QED BY <1>2, <3>2
    <2> QED BY <2>5
  <1> DEFINE ahead == {i \in DOMAIN task.team :
                         task.team[i] \in A /\ \A b \in A : f(b) <= f(task.team[i])}
  <1>6. ahead \subseteq Nat /\ ahead # {}
    <2>1. DOMAIN task.team \subseteq Nat
      OBVIOUS
    <2>2. PICK i \in DOMAIN task.team : task.team[i] = best
      BY <1>3, <1>5 DEF Team, ToSet
    <2>3. i \in ahead
      BY <1>5, <2>2
    <2> QED BY <2>1, <2>3
  <1>7. Min(ahead) \in ahead
    BY <1>6, LeastNumber
  <1>8. ahead = {i \in DOMAIN task.team :
                    /\ turn[task.team[i]] = "answered"
                    /\ \A b \in A : f(b) <= f(task.team[i])}
    <2>1. \A i \in DOMAIN task.team : task.team[i] \in Agents
      OBVIOUS
    <2> QED BY <1>4, <2>1 DEF A, InTurn
  <1>9. Winner = task.team[Min(ahead)]
    BY <1>8 DEF Winner, A, f
  <1> QED BY <1>7, <1>9 DEF A, f

LEMMA IdleIsEarned == CoordinationIdle => Earned
  BY DEF CoordinationIdle, Earned, ModeOfPhase, TeamIsAsked, DecisionIsDue, OutcomeIsEarned,
         Undecided

LEMMA AgentStepEarned ==
    ASSUME CoordinationSound, Earned, AgentStep PROVE Earned'
  <1>1. PICK a \in Agents : AgentAnswers(a) \/ AgentFails(a) \/ AgentStops(a)
    BY DEF AgentStep
  <1>2. UNCHANGED <<task, phase, seen, chain, current, plan, verdict>>
    BY <1>1 DEF AgentAnswers, AgentFails, AgentStops
  <1>3. PICK to \in {"answered", "failed", "cancelled"} :
            turn[a] \in Busy /\ turn' = [turn EXCEPT ![a] = to]
            /\ (turn[a] # "cancelling" => to # "cancelled")
    BY <1>1 DEF AgentAnswers, AgentFails, AgentStops, Busy
  <1>4. \A b \in Agents : turn'[b] = IF b = a THEN to ELSE turn[b]
    BY <1>3 DEF CoordinationSound, CoordinationTyped
  <1>5. phase # "over"
    BY <1>3 DEF CoordinationSound, WorkIsKnown
  <1>6. verdict'.how = "none" \/ verdict'.how \notin {"answer", "all failed"}
    BY <1>2, <1>5 DEF CoordinationSound, ChainLeads
  <1>7. OutcomeIsEarned'
    BY <1>6 DEF OutcomeIsEarned
  <1>8. ModeOfPhase'
    BY <1>2 DEF Earned, ModeOfPhase
  <1>9. Team' = Team /\ Supervisor' = Supervisor
    BY <1>2 DEF Team, Supervisor
  <1>10. TeamIsAsked'
    <2> SUFFICES ASSUME phase \in {"gather", "wait"}
                 PROVE  /\ \A b \in Team : turn'[b] \in {"running", "answered", "failed"}
                        /\ \A b \in Agents : turn'[b] \in {"answered", "failed"} => b \in Team
      BY <1>2, <1>9 DEF Earned, TeamIsAsked
    <2>1. a \in Team /\ turn[a] # "cancelling" /\ Team \subseteq Agents
      BY <1>3 DEF CoordinationSound, WorkIsKnown, Earned, TeamIsAsked, Busy
    <2> QED BY <1>3, <1>4, <2>1 DEF Earned, TeamIsAsked
  <1>11. DecisionIsDue'
    <2>1. phase = "wait" => \A b \in seen : b \in Agents /\ turn'[b] = "failed"
      BY <1>3, <1>4 DEF CoordinationSound, WorkIsKnown, Earned, DecisionIsDue, Busy
    <2>2. phase = "drain" => turn'[current] = "answered"
      BY <1>3, <1>4 DEF Earned, DecisionIsDue, Busy
    <2> QED BY <1>2, <1>9, <2>1, <2>2 DEF Earned, DecisionIsDue
  <1> QED BY <1>7, <1>8, <1>10, <1>11 DEF Earned

LEMMA CoordinateEarned ==
    ASSUME CoordinationSound, NEW mode \in Modes, NEW team, team \in Seq(ToSet(team)),
           ToSet(team) \subseteq Agents, NEW first, Coordinate(mode, team, first)
    PROVE  Earned'
  <1>1. verdict = Undecided /\ seen = {} /\ \A a \in Agents : turn[a] = "idle"
    BY DEF Coordinate, CoordinationSound, IdleIsClean
  <1>2. task'.mode = mode /\ task'.team = team /\ Team' = ToSet(team) /\ seen' = {}
    BY <1>1 DEF Coordinate, Team
  <1>3. CASE verdict' = verdict
    <2>1. OutcomeIsEarned'
      BY <1>1, <1>3 DEF OutcomeIsEarned, Undecided
    <2>2. CASE team # <<>> /\ mode \in {"merge", "vote", "first"}
      <3>1. phase' \in {"gather", "wait"} /\ (phase' = "wait" => mode = "first")
            /\ turn' = [a \in Agents |-> IF a \in ToSet(team) THEN "running" ELSE turn[a]]
        BY <2>2 DEF Coordinate, Started
      <3>2. ModeOfPhase' /\ DecisionIsDue'
        BY <1>2, <3>1 DEF ModeOfPhase, DecisionIsDue
      <3>3. TeamIsAsked'
        BY <1>1, <1>2, <3>1 DEF TeamIsAsked
      <3> QED BY <2>1, <3>2, <3>3 DEF Earned
    <2>3. CASE team # <<>> /\ mode = "handoff"
      <3>1. phase' = "chain" \/ phase' = "over"
        BY <2>3 DEF Coordinate, AskNext, Ask, Conclude
      <3> QED BY <1>2, <2>1, <2>3, <3>1 DEF Earned, ModeOfPhase, TeamIsAsked, DecisionIsDue
    <2>4. CASE team # <<>> /\ mode = "supervisor"
      <3>1. phase' = "decompose"
        BY <2>4 DEF Coordinate, Ask
      <3> QED BY <1>2, <2>1, <2>4, <3>1 DEF Earned, ModeOfPhase, TeamIsAsked, DecisionIsDue
    <2>5. CASE team = <<>>
      <3>1. phase' = "over"
        BY <2>5 DEF Coordinate, Conclude
      <3> QED BY <2>1, <3>1 DEF Earned, ModeOfPhase, TeamIsAsked, DecisionIsDue
    <2> QED BY <2>2, <2>3, <2>4, <2>5 DEF Modes
  <1>4. CASE \E how \in {"no agents", "handoff failed"} : Conclude(how, {})
    BY <1>4, GiveUpEarned
  <1>5. verdict' = verdict \/ \E how \in {"no agents", "handoff failed"} : Conclude(how, {})
    <2>1. CASE team # <<>> /\ mode = "handoff"
      BY <2>1 DEF Coordinate, AskNext
    <2>2. CASE team # <<>> /\ mode \in {"merge", "vote", "first", "supervisor"}
      BY <2>2 DEF Coordinate
    <2>3. CASE team = <<>>
      BY <2>3 DEF Coordinate
    <2> QED BY <2>1, <2>2, <2>3 DEF Modes
  <1> QED BY <1>3, <1>4, <1>5

LEMMA GatheredEarned ==
    ASSUME CoordinationSound, Earned, Gathered PROVE Earned'
  <1>1. phase = "gather" /\ Team \intersect Working = {}
        /\ UNCHANGED <<task, turn, said, plan>>
    BY DEF Gathered
  <1>2. /\ task.team \in Seq(Team) /\ Team \subseteq Agents
        /\ \A a \in Team : turn[a] \in {"running", "answered", "failed"}
        /\ \A a \in Agents : turn[a] \in {"answered", "failed"} => a \in Team
    BY <1>1 DEF Earned, TeamIsAsked
  <1>3. InTurn("answered") \subseteq Team
    BY <1>2 DEF InTurn
  <1>4. CASE InTurn("answered") = {}
    <2>1. \A a \in Team : turn[a] = "failed"
      BY <1>1, <1>2, <1>4 DEF InTurn, Working
    <2>2. Merited("all failed", {})
      BY <2>1 DEF Merited
    <2>3. Conclude("all failed", {})
      BY <1>4 DEF Gathered
    <2> QED BY <1>1, <2>2, <2>3, ConcludeEarned
  <1>5. CASE InTurn("answered") # {} /\ task.mode = "merge"
    <2>1. Merited("answer", InTurn("answered"))
      BY <1>5 DEF Merited, InTurn
    <2>2. Conclude("answer", InTurn("answered"))
      BY <1>5 DEF Gathered
    <2> QED BY <1>1, <2>1, <2>2, ConcludeEarned
  <1>6. CASE InTurn("answered") # {} /\ task.mode = "vote"
    <2> DEFINE by == {a \in InTurn("answered") : said[a] = said[Winner]}
    <2>1. /\ Winner \in InTurn("answered")
          /\ \A b \in InTurn("answered") : Votes(said[b]) <= Votes(said[Winner])
      BY <1>2, <1>3, <1>6, WinnerLeads
    <2>2. Votes(said[Winner]) = Cardinality(by)
      BY DEF Votes
    <2>3. Merited("answer", by)
      <3>1. \A a \in by : a \in InTurn("answered") /\ said[a] = said[Winner]
        OBVIOUS
      <3>2. Winner \in by
        BY <2>1
      <3> HIDE DEF by
      <3> QED BY <1>6, <2>1, <2>2, <3>1, <3>2 DEF Merited, InTurn
    <2>4. Conclude("answer", by)
      BY <1>6 DEF Gathered
    <2> HIDE DEF by
    <2> QED BY <1>1, <2>3, <2>4, ConcludeEarned
  <1> QED BY <1>1, <1>4, <1>5, <1>6 DEF CoordinationSound, WorkIsKnown

LEMMA WaitReturnsEarned ==
    ASSUME CoordinationSound, Earned, WaitReturns PROVE Earned'
  <1>1. phase = "wait" /\ UNCHANGED <<task, said, chain, plan>> /\ task.mode = "first"
    BY DEF WaitReturns, Earned, ModeOfPhase
  <1>2. verdict.how = "none" \/ verdict.how \notin {"answer", "all failed"}
    BY <1>1 DEF CoordinationSound, ChainLeads
  <1>3. CASE \E a \in Ended \intersect InTurn("answered") :
             /\ phase' = "drain"
             /\ current' = a
             /\ turn' = [b \in Agents |->
                           IF turn[b] = "running" THEN "cancelling" ELSE turn[b]]
             /\ UNCHANGED <<seen, verdict>>
    <2>1. phase' = "drain" /\ current' \in Agents /\ turn'[current'] = "answered"
          /\ verdict' = verdict
      BY <1>3 DEF InTurn
    <2>2. OutcomeIsEarned'
      BY <1>2, <2>1 DEF OutcomeIsEarned
    <2> QED BY <1>1, <2>1, <2>2 DEF Earned, ModeOfPhase, TeamIsAsked, DecisionIsDue
  <1>4. CASE /\ Ended \intersect InTurn("answered") = {}
             /\ seen' = seen \union Ended
             /\ IF Team \subseteq seen'
                THEN Conclude("all failed", {})
                ELSE UNCHANGED <<phase, verdict>>
             /\ UNCHANGED <<turn, current>>
    <2>1. \A a \in seen' : turn[a] = "failed"
      BY <1>1, <1>4 DEF Earned, DecisionIsDue, Ended, InTurn
    <2>2. CASE Team \subseteq seen'
      <3>1. Merited("all failed", {})
        BY <2>1, <2>2 DEF Merited
      <3>2. Conclude("all failed", {})
        BY <1>4, <2>2
      <3> QED BY <1>1, <1>4, <3>1, <3>2, ConcludeEarned
    <2>3. CASE ~(Team \subseteq seen')
      <3>1. UNCHANGED <<task, phase, turn, said, chain, current, plan, verdict>>
        BY <1>1, <1>4, <2>3
      <3>2. OutcomeIsEarned'
        BY <1>2, <3>1 DEF OutcomeIsEarned
      <3> QED BY <1>1, <2>1, <3>1, <3>2 DEF Earned, ModeOfPhase, TeamIsAsked, DecisionIsDue, Team
    <2> QED BY <2>2, <2>3
  <1> QED BY <1>3, <1>4 DEF WaitReturns

(* One agent after the other: an answer is of the agent asked last. *)
LEMMA AskEarned ==
    ASSUME CoordinationSound, Earned, phase \in OneByOne, UNCHANGED <<task, verdict>>,
           NEW where \in OneByOne, NEW agent, Ask(where, agent),
           where = "chain" <=> phase = "chain",
           where = "synthesize" => plan' = {} /\ agent = Supervisor
    PROVE  Earned'
  <1>1. phase' = where /\ current' = agent
    BY DEF Ask
  <1>2. verdict.how \notin {"answer", "all failed"}
    BY DEF CoordinationSound, ChainLeads, OneByOne
  <1>3. OutcomeIsEarned'
    BY <1>2 DEF OutcomeIsEarned
  <1>4. ModeOfPhase' /\ TeamIsAsked'
    BY <1>1 DEF Earned, ModeOfPhase, TeamIsAsked, OneByOne
  <1>5. Supervisor' = Supervisor
    BY DEF Supervisor, Team
  <1>6. DecisionIsDue'
    BY <1>1, <1>5 DEF DecisionIsDue, OneByOne
  <1> QED BY <1>3, <1>4, <1>6 DEF Earned

LEMMA HandOffEarned ==
    ASSUME CoordinationSound, Earned, HandOff PROVE Earned'
  <1>1. phase = "chain" /\ turn[current] = "answered" /\ UNCHANGED <<task, said, plan>>
        /\ task.mode = "handoff"
    BY DEF HandOff, Earned, ModeOfPhase
  <1>2. CASE Conclude("answer", {current}) /\ UNCHANGED turn
    <2>1. Merited("answer", {current})
      BY <1>1 DEF Merited
    <2> QED BY <1>1, <1>2, <2>1, ConcludeEarned
  <1>3. CASE Conclude("handoff failed", {})
    BY <1>3, GiveUpEarned
  <1>4. CASE Ask("chain", said[current]) /\ UNCHANGED verdict
    BY <1>1, <1>4, AskEarned DEF OneByOne
  <1> QED BY <1>2, <1>3, <1>4 DEF HandOff, AskNext

LEMMA AssignEarned ==
    ASSUME CoordinationSound, Earned, phase \in {"decompose", "dispatch"},
           NEW assignments, Assign(assignments), UNCHANGED <<task, verdict>>
    PROVE  Earned'
  <1>1. CASE Ask("synthesize", Supervisor) /\ plan' = {}
    BY <1>1, AskEarned DEF OneByOne
  <1>2. CASE \E a : Ask("dispatch", a)
    BY <1>2, AskEarned DEF OneByOne
  <1> QED BY <1>1, <1>2 DEF Assign

LEMMA CoordinationStepEarned ==
    ASSUME CoordinationSound, Earned, CoordinationStep PROVE Earned'
  <1>1. CASE Drained
    <2>1. phase = "drain" /\ Conclude("answer", {current}) /\ UNCHANGED <<task, turn, said, plan>>
      BY <1>1 DEF Drained
    <2>2. Merited("answer", {current})
      BY <2>1 DEF Merited, Earned, DecisionIsDue, ModeOfPhase
    <2> QED BY <2>1, <2>2, ConcludeEarned
  <1>2. CASE Decomposed
    <2>1. CASE \E how \in {"supervisor failed", "strategy failed"} : Conclude(how, {})
      BY <2>1, GiveUpEarned
    <2>2. CASE \E some : Assign(some) /\ UNCHANGED verdict
      BY <1>2, <2>2, AssignEarned DEF Decomposed
    <2> QED BY <1>2, <2>1, <2>2 DEF Decomposed
  <1>3. CASE Dispatched
    BY <1>3, AssignEarned DEF Dispatched
  <1>4. CASE Synthesized
    <2>1. phase = "synthesize" /\ turn[current] = "answered" /\ Conclude("answer", {current})
          /\ UNCHANGED <<task, turn, said, plan>>
      BY <1>4 DEF Synthesized
    <2>2. Merited("answer", {current})
      BY <2>1 DEF Merited, Earned, DecisionIsDue, ModeOfPhase
    <2> QED BY <2>1, <2>2, ConcludeEarned
  <1>5. CASE AgentErrorEnds
    BY <1>5, GiveUpEarned DEF AgentErrorEnds
  <1>6. CASE Stopped
    BY <1>6, GiveUpEarned DEF Stopped
  <1> QED BY <1>1, <1>2, <1>3, <1>4, <1>5, <1>6, GatheredEarned, WaitReturnsEarned, HandOffEarned
         DEF CoordinationStep

LEMMA CancelEarned ==
    ASSUME CoordinationSound, CancelCoordination PROVE Earned'
  <1>1. CASE phase = "wait"
    BY <1>1, GiveUpEarned DEF CancelCoordination
  <1>2. CASE phase # "wait"
    <2>1. phase' = "stopping" /\ verdict' = verdict /\ phase # "over"
      BY <1>2 DEF CancelCoordination
    <2>2. OutcomeIsEarned'
      BY <2>1 DEF OutcomeIsEarned, CoordinationSound, ChainLeads
    <2> QED BY <2>1, <2>2 DEF Earned, ModeOfPhase, TeamIsAsked, DecisionIsDue
  <1> QED BY <1>1, <1>2

LEMMA OverEarned ==
    ASSUME CoordinationOver PROVE Earned'
  <1>1. phase' = "idle" /\ verdict' = Undecided
    BY DEF CoordinationOver
  <1> QED BY <1>1 DEF Earned, ModeOfPhase, TeamIsAsked, DecisionIsDue, OutcomeIsEarned, Undecided

LEMMA EarnedStutters ==
    ASSUME Earned, UNCHANGED coordinationVars PROVE Earned'
  <1>1. UNCHANGED <<task, phase, turn, said, seen, current, plan, verdict>>
    BY DEF coordinationVars
  <1>2. Team' = Team /\ Supervisor' = Supervisor /\ InTurn("answered")' = InTurn("answered")
    BY <1>1 DEF Team, Supervisor, InTurn
  <1>3. \A text : Votes(text)' = Votes(text)
    BY <1>1 DEF Votes, InTurn
  <1>4. OutcomeIsEarned'
    BY <1>1, <1>2, <1>3 DEF Earned, OutcomeIsEarned
  <1>5. ModeOfPhase' /\ TeamIsAsked' /\ DecisionIsDue'
    BY <1>1, <1>2 DEF Earned, ModeOfPhase, TeamIsAsked, DecisionIsDue
  <1> QED BY <1>4, <1>5 DEF Earned

-----------------------------------------------------------------------------
(* Nested calls.                                                           *)

Frames ==
    [flow : DOMAIN Flows, at : Nat \ {0}, depth : Nat, kits : BOOLEAN,
     governance : {"free", "strict", "permissive"}, via : DOMAIN Calls \union {"host"},
     suspended : BOOLEAN]

(* The depth of a frame is its place; one that may use kits is governed as *)
(* the root is.                                                            *)
FrameSound(i) ==
    /\ stack[i].depth = i - 1
    /\ stack[i].kits => stack[i].governance = stack[1].governance

(* The call that pushed a frame was let through by its own limits.         *)
CallSound(i) ==
    /\ stack[i].via \in DOMAIN Calls
    /\ i - 1 <= Calls[stack[i].via].maxDepth
    /\ Calls[stack[i].via].kind = "skill" =>
          /\ Permits(stack[1].governance, Calls[stack[i].via].kit)
          /\ Satisfies(deps.version, deps.constraint)

StackSound ==
    /\ stack \in Seq(Frames)
    /\ stack # <<>> => IsVersion(deps.version) /\ IsVersion(deps.constraint.version)
    /\ \A i \in 1 .. Len(stack) : FrameSound(i)
    /\ \A i \in 2 .. Len(stack) : CallSound(i)

(* Two frames of one call differ in the place reached in its flow alone. *)
Alike(f, g) ==
    /\ f.depth = g.depth
    /\ f.kits = g.kits
    /\ f.governance = g.governance
    /\ f.via = g.via

(* Frames are popped, and move on in their flows. *)
Shrinks ==
    /\ stack' \in Seq(Frames)
    /\ stack' # <<>>
    /\ Len(stack') <= Len(stack)
    /\ \A i \in 1 .. Len(stack') : Alike(stack'[i], stack[i])
    /\ deps' = deps

LEMMA ShrinksSound ==
    ASSUME StackSound, stack # <<>>, Shrinks PROVE StackSound'
  <1>1. stack \in Seq(Frames) /\ stack' \in Seq(Frames) /\ Len(stack') <= Len(stack)
        /\ stack' # <<>> /\ deps' = deps
    BY DEF StackSound, Shrinks
  <1>2. Len(stack) \in Nat /\ Len(stack') \in Nat /\ 1 \in 1 .. Len(stack')
    BY <1>1
  <1>3. \A i \in 1 .. Len(stack') :
            /\ i \in 1 .. Len(stack)
            /\ stack'[i].depth = stack[i].depth /\ stack'[i].kits = stack[i].kits
            /\ stack'[i].governance = stack[i].governance /\ stack'[i].via = stack[i].via
    BY <1>1, <1>2 DEF Shrinks, Alike
  <1>4. stack'[1].governance = stack[1].governance
    BY <1>2, <1>3
  <1>5. \A i \in 1 .. Len(stack') : FrameSound(i)'
    BY <1>3, <1>4 DEF StackSound, FrameSound
  <1>6. \A i \in 2 .. Len(stack') : i \in 1 .. Len(stack') /\ i \in 2 .. Len(stack)
    BY <1>1, <1>2
  <1>7. \A i \in 2 .. Len(stack') : CallSound(i)'
    BY <1>1, <1>3, <1>4, <1>6 DEF StackSound, CallSound
  <1> QED BY <1>1, <1>5, <1>7 DEF StackSound

(* A frame that moves on keeps all but its place. *)
LEMMA MovesOn ==
    ASSUME NEW f \in Frames
    PROVE  [f EXCEPT !.at = @ + 1] \in Frames
  BY DEF Frames

LEMMA MovedIsAlike ==
    ASSUME NEW f \in Frames
    PROVE  Alike([f EXCEPT !.at = @ + 1], f)
  BY DEF Frames, Alike

LEMMA AlikeIsReflexive ==
    ASSUME NEW f PROVE Alike(f, f)
  BY DEF Alike

LEMMA ProceedShrinks ==
    ASSUME StackSound, stack # <<>>, stack' = Proceed, deps' = deps
    PROVE  Shrinks
  <1>1. stack \in Seq(Frames) /\ Len(stack) \in Nat /\ Len(stack) \in DOMAIN stack
    BY DEF StackSound
  <1>2. stack[Len(stack)] \in Frames
    BY <1>1
  <1>3. stack' = [stack EXCEPT ![Len(stack)] = [stack[Len(stack)] EXCEPT !.at = @ + 1]]
    BY DEF Proceed
  <1>4. stack' \in Seq(Frames) /\ Len(stack') = Len(stack)
    BY <1>1, <1>2, <1>3, MovesOn
  <1>5. \A i \in 1 .. Len(stack) :
            stack'[i] = IF i = Len(stack) THEN [stack[i] EXCEPT !.at = @ + 1] ELSE stack[i]
    BY <1>1, <1>3
  <1>6. \A i \in 1 .. Len(stack) : stack[i] \in Frames
    BY <1>1
  <1>7. \A i \in 1 .. Len(stack) : Alike(stack'[i], stack[i])
    BY <1>5, <1>6, MovedIsAlike, AlikeIsReflexive
  <1> QED BY <1>1, <1>4, <1>7 DEF Shrinks

LEMMA RaiseShrinks ==
    ASSUME StackSound, stack # <<>>, RaiseStep, deps' = deps
    PROVE  Shrinks
  <1>1. stack \in Seq(Frames) /\ Len(stack) \in Nat /\ 1 \in 1 .. Len(stack)
    BY DEF StackSound
  <1>2. \A n \in 1 .. Len(stack) :
            /\ SubSeq(stack, 1, n) \in Seq(Frames)
            /\ Len(SubSeq(stack, 1, n)) = n
            /\ \A i \in 1 .. n : SubSeq(stack, 1, n)[i] = stack[i] /\ stack[i] \in Frames
    BY <1>1
  <1>3. CASE stack' = Proceed
    BY <1>3, ProceedShrinks
  <1>4. CASE stack' = SubSeq(stack, 1, 1)
    BY <1>1, <1>2, <1>4, AlikeIsReflexive DEF Shrinks
  <1>5. ASSUME NEW n \in 1 .. Len(stack), stack' = [SubSeq(stack, 1, n) EXCEPT ![n].at = @ + 1]
        PROVE  Shrinks
    <2> DEFINE kept == SubSeq(stack, 1, n)
    <2>1. kept \in Seq(Frames) /\ Len(kept) = n /\ n \in 1 .. Len(kept)
          /\ \A i \in 1 .. n : kept[i] = stack[i] /\ stack[i] \in Frames
      BY <1>1, <1>2
    <2>2. stack' = [kept EXCEPT ![n] = [kept[n] EXCEPT !.at = @ + 1]]
      BY <1>5
    <2> HIDE DEF kept
    <2>3. kept[n] \in Frames
      BY <2>1
    <2>4. stack' \in Seq(Frames) /\ Len(stack') = n
      BY <2>1, <2>2, <2>3, MovesOn
    <2>5. \A i \in 1 .. n :
              stack'[i] = IF i = n THEN [stack[i] EXCEPT !.at = @ + 1] ELSE stack[i]
      BY <2>1, <2>2
    <2>6. \A i \in 1 .. n : Alike(stack'[i], stack[i])
      BY <2>1, <2>5, MovedIsAlike, AlikeIsReflexive
    <2>7. stack' # <<>> /\ n <= Len(stack)
      BY <1>1, <2>4
    <2> QED BY <2>4, <2>6, <2>7 DEF Shrinks
  <1> QED BY <1>3, <1>4, <1>5 DEF RaiseStep

LEMMA ReturnShrinks ==
    ASSUME StackSound, stack # <<>>, ReturnFromRun
    PROVE  StackSound'
  <1>1. stack \in Seq(Frames) /\ Len(stack) \in Nat /\ 1 \in 1 .. Len(stack) /\ deps' = deps
    BY DEF StackSound, ReturnFromRun
  <1>2. CASE stack' = stack
    BY <1>1, <1>2 DEF StackSound, FrameSound, CallSound
  <1>3. CASE Len(stack) # 1 /\ stack' = [Front(stack) EXCEPT ![Len(stack) - 1].at = @ + 1]
    <2> DEFINE n == Len(stack) - 1
               kept == SubSeq(stack, 1, n)
    <2> PICK m \in Nat : m = Len(stack)
      BY <1>1
    <2>1. n \in 1 .. Len(stack) /\ n \in Nat /\ n <= Len(stack)
      <3>1. m # 1 /\ 1 \in 1 .. m
        BY <1>1, <1>3
      <3>2. m - 1 \in 1 .. m /\ m - 1 \in Nat /\ m - 1 <= m
        BY <3>1
      <3> QED BY <3>2
    <2>2. kept \in Seq(Frames) /\ Len(kept) = n /\ n \in 1 .. Len(kept)
          /\ \A i \in 1 .. n : kept[i] = stack[i] /\ stack[i] \in Frames
      BY <1>1, <2>1
    <2>3. stack' = [kept EXCEPT ![n] = [kept[n] EXCEPT !.at = @ + 1]]
      BY <1>3 DEF Front
    <2> HIDE DEF kept, n
    <2>4. kept[n] \in Frames
      BY <2>2
    <2>5. stack' \in Seq(Frames) /\ Len(stack') = n
      BY <2>2, <2>3, <2>4, MovesOn
    <2>6. \A i \in 1 .. n :
              stack'[i] = IF i = n THEN [stack[i] EXCEPT !.at = @ + 1] ELSE stack[i]
      BY <2>2, <2>3
    <2>7. \A i \in 1 .. n : Alike(stack'[i], stack[i])
      BY <2>2, <2>6, MovedIsAlike, AlikeIsReflexive
    <2>8. stack' # <<>>
      BY <2>1, <2>5
    <2> QED BY <1>1, <2>1, <2>5, <2>7, <2>8, ShrinksSound DEF Shrinks
  <1> QED BY <1>2, <1>3 DEF ReturnFromRun

(* A step of the innermost run is one of its workflow. *)
LEMMA CurrentIsCall ==
    ASSUME StackSound, stack # <<>>, StepsLeft
    PROVE  /\ Top \in Frames /\ Current \in DOMAIN Calls
           /\ Top = stack[Len(stack)] /\ Len(stack) \in Nat \ {0}
  <1>1. Top \in Frames /\ Len(stack) \in Nat \ {0}
    BY DEF StackSound, Top
  <1>2. Flows[Top.flow] \in Seq(DOMAIN Calls) /\ Top.at \in Nat \ {0}
    BY <1>1, CallsAssumption DEF Frames
  <1>3. Current \in DOMAIN Calls
    BY <1>2 DEF Current, StepsLeft
  <1> QED BY <1>1, <1>3 DEF Top

(* A call pushes a frame one deeper, let through by its max_depth. *)
LEMMA EnterSound ==
    ASSUME StackSound, stack # <<>>, StepsLeft, UNCHANGED deps,
           Call.kind \in {"workflow", "skill"}, ~TooDeep,
           NEW flow \in DOMAIN Flows, NEW kits \in BOOLEAN,
           NEW governance \in {"free", "strict", "permissive"},
           Enter(ChildFrame(flow, kits, governance)),
           kits => Top.kits /\ governance = Top.governance,
           Call.kind = "skill" =>
               /\ Top.kits
               /\ Permits(Top.governance, Call.kit)
               /\ Satisfies(deps.version, deps.constraint)
    PROVE  StackSound'
  <1> PICK n : n = Len(stack)
    OBVIOUS
  <1> DEFINE frame == ChildFrame(flow, kits, governance)
  <1>1. Top \in Frames /\ Current \in DOMAIN Calls /\ Top = stack[n] /\ n \in Nat \ {0}
    BY CurrentIsCall
  <1>2. stack \in Seq(Frames) /\ FrameSound(n)
    BY <1>1 DEF StackSound
  <1>3. Top.depth = n - 1 /\ (Top.kits => Top.governance = stack[1].governance)
    BY <1>1, <1>2 DEF FrameSound
  <1>4. Calls[Current].maxDepth \in Int /\ Call = Calls[Current]
    BY <1>1, CallsAssumption DEF Call
  <1>5. n <= Calls[Current].maxDepth
    BY <1>1, <1>3, <1>4 DEF TooDeep
  <1>6. frame.depth = n /\ frame.kits = kits /\ frame.governance = governance
        /\ frame.via = Current
    BY <1>1, <1>3 DEF ChildFrame
  <1>7. frame \in Frames
    BY <1>1, <1>3 DEF ChildFrame, Frames
  <1> HIDE DEF frame
  <1>8. stack' = Append(stack, frame)
    BY DEF Enter, frame
  <1>9. stack' \in Seq(Frames) /\ Len(stack') = n + 1 /\ stack'[n + 1] = frame
        /\ stack'[1] = stack[1] /\ \A i \in 1 .. n : stack'[i] = stack[i]
    BY <1>1, <1>2, <1>7, <1>8
  <1>10. FrameSound(n + 1)'
    BY <1>1, <1>3, <1>6, <1>9 DEF FrameSound
  <1>11. \A i \in 1 .. n : FrameSound(i)'
    BY <1>9 DEF StackSound, FrameSound
  <1>12. CallSound(n + 1)'
    <2>1. stack'[n + 1].via = Current /\ stack'[1].governance = stack[1].governance
      BY <1>6, <1>9
    <2>2. Calls[Current].kind = "skill" =>
            /\ Permits(stack[1].governance, Calls[Current].kit)
            /\ Satisfies(deps.version, deps.constraint)
      BY <1>3, <1>4
    <2>3. (n + 1) - 1 <= Calls[Current].maxDepth
      BY <1>1, <1>5
    <2> QED BY <1>1, <2>1, <2>2, <2>3 DEF CallSound
  <1>13. \A i \in 2 .. n : CallSound(i)'
    <2>1. \A i \in 2 .. n : i \in 1 .. n
      BY <1>1
    <2> QED BY <1>9, <2>1 DEF StackSound, CallSound
  <1>14. \A i \in 1 .. Len(stack') : i = n + 1 \/ i \in 1 .. n
    BY <1>1, <1>9
  <1>15. \A i \in 2 .. Len(stack') : i = n + 1 \/ i \in 2 .. n
    BY <1>1, <1>9
  <1>16. IsVersion(deps'.version) /\ IsVersion(deps'.constraint.version)
    BY DEF StackSound
  <1> QED BY <1>9, <1>10, <1>11, <1>12, <1>13, <1>14, <1>15, <1>16 DEF StackSound

(* A plain step may suspend its own context. *)
LEMMA PlainReturnShrinks ==
    ASSUME StackSound, stack # <<>>, PlainStepReturns
    PROVE  Shrinks
  <1>1. PICK b \in BOOLEAN : stack' = [Proceed EXCEPT ![Len(stack)].suspended = b]
    BY DEF PlainStepReturns
  <1>2. deps' = deps
    BY DEF PlainStepReturns
  <1>3. stack \in Seq(Frames) /\ Len(stack) \in Nat /\ Len(stack) \in DOMAIN stack
    BY DEF StackSound
  <1>4. \A i \in 1 .. Len(stack) : stack[i] \in Frames
    BY <1>3
  <1> DEFINE moved(f) == [[f EXCEPT !.at = @ + 1] EXCEPT !.suspended = b]
  <1>5. \A f \in Frames : moved(f) \in Frames
    <2> TAKE f \in Frames
    <2>1. f.at \in Nat
      BY DEF Frames
    <2>2. f.at + 1 \in Nat
      BY <2>1
    <2> DEFINE next == f.at + 1
    <2>3. moved(f) = [[f EXCEPT !.at = next] EXCEPT !.suspended = b]
      BY DEF Frames
    <2> HIDE DEF next
    <2>4. [f EXCEPT !.at = next] \in Frames
      BY <2>2 DEF Frames, next
    <2>5. \A g \in Frames : [g EXCEPT !.suspended = b] \in Frames
      BY <1>1 DEF Frames
    <2> QED BY <2>3, <2>4, <2>5
  <1>6. stack' = [stack EXCEPT ![Len(stack)] = moved(stack[Len(stack)])]
    BY <1>1, <1>3 DEF Proceed
  <1>7. \A f \in Frames : Alike(moved(f), f)
    BY DEF Frames, Alike
  <1> HIDE DEF moved
  <1>8. stack' \in Seq(Frames) /\ Len(stack') = Len(stack)
    BY <1>3, <1>4, <1>5, <1>6
  <1>9. \A i \in 1 .. Len(stack) :
            stack'[i] = IF i = Len(stack) THEN moved(stack[i]) ELSE stack[i]
    BY <1>3, <1>6
  <1>10. \A i \in 1 .. Len(stack) : Alike(stack'[i], stack[i])
    BY <1>4, <1>7, <1>9, AlikeIsReflexive
  <1>11. stack' # <<>>
    BY <1>3, <1>8
  <1> QED BY <1>2, <1>3, <1>8, <1>10, <1>11 DEF Shrinks

LEMMA CallSkillSound ==
    ASSUME StackSound, stack # <<>>, CallSkill PROVE StackSound'
  <1>1. StepsLeft /\ Call.kind = "skill" /\ UNCHANGED deps
    BY DEF CallSkill, Running
  <1>2. CASE RaiseStep
    BY <1>1, <1>2, RaiseShrinks, ShrinksSound
  <1>3. CASE Resolves /\ ~TooDeep /\ Enter(ChildFrame(Call.flow, TRUE, Top.governance))
    <2>1. Top \in Frames
      BY <1>1, CurrentIsCall
    <2>2. Top.governance \in {"free", "strict", "permissive"}
      BY <2>1 DEF Frames
    <2>3. Call.flow \in DOMAIN Flows
      BY <1>3, CallsAssumption DEF Resolves
    <2>4. Top.kits /\ Permits(Top.governance, Call.kit) /\ Satisfies(deps.version, deps.constraint)
      BY <1>3 DEF Resolves
    <2> QED BY <1>1, <1>3, <2>2, <2>3, <2>4, EnterSound
  <1> QED BY <1>2, <1>3 DEF CallSkill

LEMMA CallWorkflowSound ==
    ASSUME StackSound, stack # <<>>, CallWorkflow PROVE StackSound'
  <1>1. StepsLeft /\ Call.kind = "workflow" /\ UNCHANGED deps
    BY DEF CallWorkflow, Running
  <1>2. CASE RaiseStep
    BY <1>1, <1>2, RaiseShrinks, ShrinksSound
  <1>3. CASE /\ ~TooDeep /\ Call.flow \in DOMAIN Flows
             /\ Enter(ChildFrame(Call.flow, FALSE, "free"))
    BY <1>1, <1>3, EnterSound
  <1> QED BY <1>2, <1>3 DEF CallWorkflow

LEMMA StackStutters ==
    ASSUME StackSound, UNCHANGED <<deps, stack>> PROVE StackSound'
  BY DEF StackSound, FrameSound, CallSound

LEMMA CallProgressSound ==
    ASSUME StackSound, CoordinationSound, stack # <<>>, CallProgress
    PROVE  StackSound' /\ CoordinationSound'
  <1>1. CASE Run
    <2>1. CoordinationSound'
      BY <1>1, CoordinationStutters DEF Run
    <2>2. CASE PlainStepReturns
      BY <2>1, <2>2, PlainReturnShrinks, ShrinksSound
    <2>3. CASE PlainStepRaises
      <3>1. RaiseStep /\ UNCHANGED deps /\ StepsLeft
        BY <2>3 DEF PlainStepRaises, Running
      <3> QED BY <2>1, <3>1, RaiseShrinks, ShrinksSound
    <2> QED BY <1>1, <2>1, <2>2, <2>3, CallWorkflowSound, CallSkillSound, ReturnShrinks DEF Run
  <1>2. CASE CallCoordination
    <2>1. UNCHANGED deps /\ StepsLeft /\ Call.kind = "coordination"
      BY <1>2 DEF CallCoordination, Running
    <2>2. CASE RaiseStep /\ UNCHANGED coordinationVars
      BY <2>1, <2>2, RaiseShrinks, ShrinksSound, CoordinationStutters
    <2>3. CASE \E mode \in Call.modes, team \in Call.teams, first \in Call.first :
                  ToSet(team) \subseteq Agents /\ Coordinate(mode, team, first) /\ UNCHANGED stack
      <3>1. PICK mode \in Call.modes, team \in Call.teams, first \in Call.first :
                  ToSet(team) \subseteq Agents /\ Coordinate(mode, team, first) /\ UNCHANGED stack
        BY <2>3
      <3>2. Current \in DOMAIN Calls
        BY <2>1, CurrentIsCall
      <3>3. mode \in Modes /\ team \in Seq(ToSet(team))
        BY <2>1, <3>2, CallsAssumption DEF Call
      <3> QED BY <2>1, <3>1, <3>3, CoordinateSound, StackStutters
    <2> QED BY <1>2, <2>2, <2>3 DEF CallCoordination
  <1>3. CASE CoordinationOver
    <2>1. UNCHANGED deps /\ (stack' = Proceed \/ RaiseStep)
      BY <1>3 DEF CoordinationOver
    <2> QED BY <1>3, <2>1, ProceedShrinks, RaiseShrinks, ShrinksSound, OverSound
  <1>4. CASE (AgentStep \/ CoordinationStep) /\ UNCHANGED callVars
    BY <1>4, AgentStepSound, CoordinationStepSound, StackStutters DEF callVars
  <1> QED BY <1>1, <1>2, <1>3, <1>4 DEF CallProgress

LEMMA InitSound == Init => StackSound /\ CoordinationSound
  <1>1. CallIdle => StackSound
    BY DEF CallIdle, StackSound
  <1>2. InitCall => StackSound
    <2> SUFFICES ASSUME NEW s \in Scenarios, deps = s.deps,
                        stack = <<[flow |-> s.flow, at |-> 1, depth |-> 0, kits |-> s.kits,
                                   governance |-> s.governance, via |-> "host",
                                   suspended |-> FALSE]>>
                 PROVE  StackSound
      BY DEF InitCall
    <2>1. stack \in Seq(Frames) /\ Len(stack) = 1 /\ stack[1].depth = 0
      BY CallsAssumption DEF Frames
    <2>2. IsVersion(deps.version) /\ IsVersion(deps.constraint.version)
      BY CallsAssumption
    <2>3. \A i \in 1 .. Len(stack) : FrameSound(i)
      BY <2>1 DEF FrameSound
    <2>4. \A i \in 2 .. Len(stack) : CallSound(i)
      BY <2>1
    <2> QED BY <2>1, <2>2, <2>3, <2>4 DEF StackSound
  <1> QED BY <1>1, <1>2, IdleIsSound DEF Init, InitCall, CallIdle

LEMMA NextSound ==
    ASSUME StackSound, CoordinationSound, [Next]_vars
    PROVE  StackSound' /\ CoordinationSound'
  <1>1. CASE UNCHANGED agentVars
    BY <1>1, StackStutters, CoordinationStutters DEF agentVars, callVars
  <1>2. CASE stack # <<>> /\ CallProgress
    BY <1>2, CallProgressSound
  <1>3. CASE CancelCoordination /\ UNCHANGED callVars
    BY <1>3, CancelSound, StackStutters DEF callVars
  <1> QED BY <1>1, <1>2, <1>3 DEF Next, Progress, vars

LEMMA Inductive == Spec => [](StackSound /\ CoordinationSound)
  BY InitSound, NextSound, PTL DEF Spec

LEMMA EarnedInductive == Spec => []Earned
  <1>1. Init => Earned
    BY IdleIsEarned DEF Init, InitCall, CallIdle
  <1>2. ASSUME StackSound, CoordinationSound, Earned, [Next]_vars PROVE Earned'
    <2>1. CASE UNCHANGED coordinationVars
      BY <1>2, <2>1, EarnedStutters
    <2>2. CASE CancelCoordination
      BY <1>2, <2>2, CancelEarned
    <2>3. CASE stack # <<>> /\ CallProgress
      <3>1. CASE CallCoordination
        <4>1. StepsLeft /\ Call.kind = "coordination"
          BY <3>1 DEF CallCoordination, Running
        <4>2. CASE \E mode \in Call.modes, team \in Call.teams, first \in Call.first :
                      ToSet(team) \subseteq Agents /\ Coordinate(mode, team, first)
          <5>1. PICK mode \in Call.modes, team \in Call.teams, first \in Call.first :
                      ToSet(team) \subseteq Agents /\ Coordinate(mode, team, first)
            BY <4>2
          <5>2. Current \in DOMAIN Calls
            BY <1>2, <2>3, <4>1, CurrentIsCall
          <5>3. mode \in Modes /\ team \in Seq(ToSet(team))
            BY <4>1, <5>2, CallsAssumption DEF Call
          <5> QED BY <1>2, <5>1, <5>3, CoordinateEarned
        <4> QED BY <2>1, <3>1, <4>2 DEF CallCoordination
      <3>2. CASE AgentStep \/ CoordinationStep
        BY <1>2, <3>2, AgentStepEarned, CoordinationStepEarned
      <3> QED BY <2>1, <2>3, <3>1, <3>2, OverEarned DEF CallProgress, Run
    <2> QED BY <1>2, <2>1, <2>2, <2>3 DEF Next, Progress, vars, agentVars
  <1> QED BY <1>1, <1>2, Inductive, PTL DEF Spec

-----------------------------------------------------------------------------
(* Executions of strategies.                                               *)

InLoop == {"steps", "decided", "generate", "evaluate", "sequence", "delegated", "answered"}

ConfigSound ==
    /\ config.max \in Nat
    /\ config.kind \in {"event-driven", "agent-delegation"} => config.max = 1
    /\ IsReflection => \A s \in Steps : config.tags[s] \subseteq {"generate", "evaluate"}

ExecutionTyped ==
    /\ begun \in Nat /\ round \in Nat
    /\ DOMAIN stamp = Steps
    /\ todo \subseteq DOMAIN Workflow

(* The rounds begun are those of the loop variable, and no verdict is on   *)
(* record before the end.                                                  *)
RoundsAreCounted ==
    /\ begun <= config.max
    /\ outcome # "running" => pc = "ended"
    /\ outcome = "running" => pc # "ended" /\ record = NoRecord
    /\ pc = "start" => round = 0 /\ begun = 0
    /\ ~IsLoop => record = NoRecord
    /\ IsLoop /\ outcome = "running" => round = begun
    /\ pc \in InLoop => begun > 0

DueOrDone(i) == i \in todo \/ stamp[Workflow[i]] = begun

(* What a round still has to run, or has run. *)
StampsAreFresh ==
    /\ IsGoal /\ pc \in {"steps", "decided"} => \A i \in DOMAIN Workflow : DueOrDone(i)
    /\ pc = "decided" => todo = {}
    /\ IsReflection /\ pc \in {"generate", "evaluate"} => \A i \in Tagged("generate") : DueOrDone(i)
    /\ IsReflection /\ pc = "evaluate" => \A i \in Tagged("evaluate") : DueOrDone(i)

(* A loop that ended without a verdict has used all its rounds, or was     *)
(* suspended.                                                              *)
EndIsKnown ==
    /\ outcome = "goal attempts exhausted" => begun = config.max
    /\ outcome = "returned" /\ ~suspended =>
          begun = config.max \/ (begun > 0 /\ (IsLoop => record.verdict))
    /\ outcome = "returned" /\ record.verdict => begun > 0

ExecutionSound ==
    /\ ConfigSound /\ ExecutionTyped /\ RoundsAreCounted /\ StampsAreFresh
    /\ EndIsKnown /\ VerdictIsOfTheLastRound

LEMMA WorkflowPlaces ==
    /\ DOMAIN Workflow \subseteq Nat
    /\ \A i \in DOMAIN Workflow : Workflow[i] \in Steps
    /\ \A s \in Steps : \E i \in DOMAIN Workflow : Workflow[i] = s
  <1>1. DOMAIN Workflow = 1 .. Len(Workflow) /\ Len(Workflow) \in Nat
    BY WorkflowAssumption
  <1> QED BY <1>1 DEF Steps, ToSet

LEMMA ExecutionStarts == Init => ExecutionSound
  <1> SUFFICES ASSUME Init PROVE ExecutionSound
    OBVIOUS
  <1>1. PICK configs \in {Configs, {[kind |-> "none", max |-> 0]}} : StartIn(configs)
    BY DEF Init, InitStrategy, StrategyIdle
  <1>2. config \in configs /\ pc = "start" /\ todo = {} /\ round = 0 /\ begun = 0
        /\ stamp = [s \in Steps |-> 0] /\ record = NoRecord /\ outcome = "running"
    BY <1>1 DEF StartIn
  <1>3. ConfigSound
    <2>1. 0 .. MaxRounds \subseteq Nat
      BY RoundsAssumption
    <2>2. CASE configs = {[kind |-> "none", max |-> 0]}
      BY <1>2, <2>2 DEF ConfigSound, IsReflection
    <2>3. CASE configs = Configs
      BY <1>2, <2>1, <2>3 DEF ConfigSound, IsReflection, Configs
    <2> QED BY <2>2, <2>3
  <1>4. ExecutionTyped
    BY <1>2 DEF ExecutionTyped
  <1>5. RoundsAreCounted
    BY <1>2, <1>3 DEF RoundsAreCounted, ConfigSound, InLoop
  <1>6. StampsAreFresh /\ EndIsKnown /\ VerdictIsOfTheLastRound
    BY <1>2 DEF StampsAreFresh, EndIsKnown, VerdictIsOfTheLastRound
  <1> QED BY <1>3, <1>4, <1>5, <1>6 DEF ExecutionSound

(* An end that is none of the loop's own. *)
LEMMA RaiseSound ==
    ASSUME ExecutionSound, outcome = "running", NEW error,
           error \notin {"running", "returned"}, Raise(error),
           error = "goal attempts exhausted" => begun = config.max
    PROVE  ExecutionSound'
  <1>1. pc' = "ended" /\ outcome' = error
        /\ UNCHANGED <<config, todo, round, begun, context, record>>
    BY DEF Raise, End
  <1>2. UNCHANGED <<results, stamp, suspended>>
    BY <1>1 DEF context
  <1>3. ConfigSound' /\ ExecutionTyped'
    BY <1>1, <1>2 DEF ExecutionSound, ConfigSound, ExecutionTyped, IsReflection
  <1>4. RoundsAreCounted'
    BY <1>1 DEF ExecutionSound, RoundsAreCounted, IsLoop, IsGoal, IsReflection, InLoop
  <1>5. StampsAreFresh' /\ EndIsKnown' /\ VerdictIsOfTheLastRound'
    BY <1>1 DEF StampsAreFresh, EndIsKnown, VerdictIsOfTheLastRound
  <1> QED BY <1>3, <1>4, <1>5 DEF ExecutionSound

(* A loop returns without a verdict when it is suspended, or used up. *)
LEMMA ReturnSound ==
    ASSUME ExecutionSound, outcome = "running", IsLoop, NEW rounds, Return(rounds, FALSE),
           suspended \/ begun = config.max
    PROVE  ExecutionSound'
  <1>1. pc' = "ended" /\ outcome' = "returned" /\ record' = [rounds |-> rounds, verdict |-> FALSE]
        /\ UNCHANGED <<config, todo, round, begun, context>>
    BY DEF Return, End
  <1>2. UNCHANGED <<results, stamp, suspended>> /\ ~record'.verdict
    BY <1>1 DEF context
  <1>3. ConfigSound' /\ ExecutionTyped'
    BY <1>1, <1>2 DEF ExecutionSound, ConfigSound, ExecutionTyped, IsReflection
  <1>4. RoundsAreCounted'
    BY <1>1 DEF ExecutionSound, RoundsAreCounted, IsLoop, IsGoal, IsReflection, InLoop
  <1>5. StampsAreFresh' /\ EndIsKnown' /\ VerdictIsOfTheLastRound'
    BY <1>1, <1>2 DEF StampsAreFresh, EndIsKnown, VerdictIsOfTheLastRound
  <1> QED BY <1>3, <1>4, <1>5 DEF ExecutionSound

(* The other strategies return without a record, after their one round or  *)
(* suspended.                                                              *)
LEMMA EndSound ==
    ASSUME ExecutionSound, outcome = "running", ~IsLoop, End("returned"), UNCHANGED record,
           suspended \/ begun > 0
    PROVE  ExecutionSound'
  <1>1. pc' = "ended" /\ outcome' = "returned" /\ record' = NoRecord
        /\ UNCHANGED <<config, todo, round, begun, context>>
    BY DEF End, ExecutionSound, RoundsAreCounted
  <1>2. UNCHANGED <<results, stamp, suspended>> /\ ~record'.verdict
    BY <1>1 DEF context, NoRecord
  <1>3. ConfigSound' /\ ExecutionTyped'
    BY <1>1, <1>2 DEF ExecutionSound, ConfigSound, ExecutionTyped, IsReflection
  <1>4. RoundsAreCounted'
    BY <1>1 DEF ExecutionSound, RoundsAreCounted, IsLoop, IsGoal, IsReflection, InLoop
  <1>5. StampsAreFresh' /\ EndIsKnown' /\ VerdictIsOfTheLastRound'
    BY <1>1, <1>2 DEF StampsAreFresh, EndIsKnown, VerdictIsOfTheLastRound, IsLoop, IsGoal,
                      IsReflection
  <1> QED BY <1>3, <1>4, <1>5 DEF ExecutionSound

(* A step of the round returns. *)
LEMMA StepReturnsSound ==
    ASSUME ExecutionSound, outcome = "running", pc \in {"steps", "generate", "evaluate", "sequence"},
           StepReturns
    PROVE  ExecutionSound'
  <1> DEFINE i == Min(todo)
  <1>1. i \in todo /\ i \in DOMAIN Workflow
    BY LeastNumber, WorkflowPlaces DEF StepReturns, ExecutionSound, ExecutionTyped
  <1>2. stamp' = [stamp EXCEPT ![Workflow[i]] = begun] /\ todo' = todo \ {i}
        /\ UNCHANGED <<config, pc, round, begun, record, outcome>>
    BY DEF StepReturns, NextStep
  <1> HIDE DEF i
  <1>3. ConfigSound' /\ RoundsAreCounted'
    BY <1>2 DEF ExecutionSound, ConfigSound, RoundsAreCounted, IsReflection, IsLoop, IsGoal
  <1>4. ExecutionTyped'
    BY <1>2 DEF ExecutionSound, ExecutionTyped
  <1>5. \A j \in DOMAIN Workflow : DueOrDone(j) => DueOrDone(j)'
    BY <1>1, <1>2, WorkflowPlaces DEF ExecutionSound, ExecutionTyped, DueOrDone
  <1>6. \A tag : Tagged(tag)' = Tagged(tag) /\ Tagged(tag) \subseteq DOMAIN Workflow
    BY <1>2 DEF Tagged
  <1>7. StampsAreFresh'
    BY <1>2, <1>5, <1>6 DEF ExecutionSound, StampsAreFresh, IsGoal, IsReflection
  <1>8. EndIsKnown' /\ VerdictIsOfTheLastRound'
    BY <1>2 DEF EndIsKnown, VerdictIsOfTheLastRound
  <1> QED BY <1>3, <1>4, <1>7, <1>8 DEF ExecutionSound

(* The loop moves on within its round, or begins the next one. *)
LEMMA LoopSound ==
    ASSUME ExecutionSound, outcome = "running", IsLoop,
           UNCHANGED <<config, stamp, suspended, record, outcome>>,
           pc' \notin {"start", "ended"}, todo' \subseteq DOMAIN Workflow,
           \/ round' = round /\ begun' = begun
           \/ round' = round + 1 /\ begun' = begun + 1 /\ round < config.max,
           pc' \in InLoop => begun' > 0,
           StampsAreFresh'
    PROVE  ExecutionSound'
  <1>1. ConfigSound' /\ ExecutionTyped'
    BY DEF ExecutionSound, ConfigSound, ExecutionTyped, IsReflection
  <1>2. round = begun /\ round \in Nat /\ config.max \in Nat /\ begun <= config.max
    BY DEF ExecutionSound, ConfigSound, ExecutionTyped, RoundsAreCounted
  <1>3. round' = begun' /\ begun' <= config.max
    BY <1>2
  <1>4. RoundsAreCounted'
    BY <1>3 DEF ExecutionSound, RoundsAreCounted, IsLoop, IsGoal, IsReflection
  <1>5. EndIsKnown' /\ VerdictIsOfTheLastRound'
    BY DEF EndIsKnown, VerdictIsOfTheLastRound
  <1> QED BY <1>1, <1>4, <1>5 DEF ExecutionSound

(* What every step of a round still running knows. *)
LEMMA StillRunning ==
    ASSUME ExecutionSound, pc # "ended" PROVE outcome = "running" /\ record = NoRecord
  BY DEF ExecutionSound, RoundsAreCounted

LEMMA GoalLoopOverSound ==
    ASSUME ExecutionSound, IsGoal, pc \in {"start", "sleep", "decided"}, NEW n,
           GoalLoopOver(n, FALSE), suspended \/ begun = config.max
    PROVE  ExecutionSound'
  <1>1. outcome = "running" /\ IsLoop
    BY StillRunning DEF IsLoop
  <1>2. CASE suspended
    BY <1>1, <1>2, ReturnSound DEF GoalLoopOver
  <1>3. CASE ~suspended
    BY <1>1, <1>3, RaiseSound DEF GoalLoopOver
  <1> QED BY <1>2, <1>3

LEMMA GoalSound ==
    ASSUME ExecutionSound, GoalNext PROVE ExecutionSound'
  <1>1. IsGoal /\ IsLoop /\ ~IsReflection /\ pc # "ended"
    BY DEF GoalNext, NextAttempt, GoalStepReturns, GoalStepRaises, EvaluateGoal, GoalDecided,
           IsGoal, IsReflection, IsLoop
  <1>2. outcome = "running" /\ record = NoRecord /\ round = begun /\ begun \in Nat
    BY <1>1, StillRunning DEF ExecutionSound, RoundsAreCounted, ExecutionTyped
  <1>3. CASE NextAttempt
    <2>1. CASE /\ round < config.max /\ ~suspended
               /\ round' = round + 1 /\ begun' = begun + 1
               /\ Loop("steps", DOMAIN Workflow)
      <3>1. pc' = "steps" /\ todo' = DOMAIN Workflow
            /\ UNCHANGED <<config, results, stamp, suspended, record, outcome>>
        BY <2>1 DEF Loop, context
      <3>2. StampsAreFresh'
        BY <1>1, <3>1 DEF StampsAreFresh, DueOrDone, IsReflection
      <3> QED BY <1>1, <1>2, <2>1, <3>1, <3>2, LoopSound
    <2>2. CASE suspended /\ GoalLoopOver(round + 1, FALSE)
      BY <1>1, <1>3, <2>2, GoalLoopOverSound DEF NextAttempt
    <2>3. CASE round = config.max /\ GoalLoopOver(round, FALSE)
      BY <1>1, <1>2, <1>3, <2>3, GoalLoopOverSound DEF NextAttempt
    <2> QED BY <1>3, <2>1, <2>2, <2>3 DEF NextAttempt
  <1>4. CASE GoalStepReturns
    BY <1>2, <1>4, StepReturnsSound DEF GoalStepReturns
  <1>5. CASE GoalStepRaises
    BY <1>2, <1>5, RaiseSound DEF GoalStepRaises, StepRaises
  <1>6. CASE EvaluateGoal
    <2>1. CASE Raise("goal condition failed")
      BY <1>2, <2>1, RaiseSound
    <2>2. CASE /\ pc' = "decided"
               /\ UNCHANGED <<config, todo, round, begun, context, record, outcome>>
      <3>1. pc = "steps" /\ todo = {} /\ todo' = {} /\ UNCHANGED <<stamp, suspended>>
        BY <1>6, <2>2 DEF EvaluateGoal, context
      <3>2. StampsAreFresh'
        BY <1>1, <2>2, <3>1 DEF ExecutionSound, StampsAreFresh, DueOrDone, IsGoal, IsReflection
      <3>3. begun' > 0
        BY <2>2, <3>1 DEF ExecutionSound, RoundsAreCounted, InLoop
      <3> QED BY <1>1, <1>2, <2>2, <3>1, <3>2, <3>3, LoopSound
    <2> QED BY <1>6, <2>1, <2>2 DEF EvaluateGoal
  <1>7. CASE GoalDecided
    <2>0. pc = "decided"
      BY <1>7 DEF GoalDecided
    <2>1. CASE GoalMet /\ GoalLoopOver(round, TRUE)
      <3>1. pc' = "ended" /\ outcome' = "returned" /\ record' = [rounds |-> round, verdict |-> TRUE]
            /\ UNCHANGED <<config, todo, round, begun, context>>
        BY <2>1 DEF GoalLoopOver, Return, End
      <3>2. UNCHANGED <<results, stamp, suspended>>
        BY <3>1 DEF context
      <3>3. record'.rounds = round /\ record'.verdict = TRUE
        BY <3>1
      <3>4. ConfigSound' /\ ExecutionTyped'
        BY <3>1, <3>2 DEF ExecutionSound, ConfigSound, ExecutionTyped, IsReflection
      <3>5. RoundsAreCounted' /\ StampsAreFresh'
        BY <1>1, <3>1 DEF ExecutionSound, RoundsAreCounted, StampsAreFresh, IsLoop, IsGoal,
                          IsReflection, InLoop
      <3>6. begun > 0
        BY <2>0 DEF ExecutionSound, RoundsAreCounted, InLoop
      <3>7. EndIsKnown'
        BY <3>1, <3>3, <3>6 DEF EndIsKnown
      <3>8. \A s \in Steps : stamp[s] = begun
        BY <1>1, <2>0, WorkflowPlaces DEF ExecutionSound, StampsAreFresh, DueOrDone
      <3>9. VerdictIsOfTheLastRound'
        BY <1>1, <1>2, <2>1, <3>1, <3>2, <3>3, <3>8
           DEF VerdictIsOfTheLastRound, GoalMet, IsGoal, IsReflection
      <3> QED BY <3>4, <3>5, <3>7, <3>9 DEF ExecutionSound
    <2>2. CASE round = config.max /\ GoalLoopOver(round, FALSE)
      BY <1>1, <1>2, <2>0, <2>2, GoalLoopOverSound
    <2>3. CASE round' = round /\ begun' = begun /\ Loop("sleep", {})
      <3>1. pc' = "sleep" /\ todo' = {}
            /\ UNCHANGED <<config, results, stamp, suspended, record, outcome>>
        BY <2>3 DEF Loop, context
      <3>2. StampsAreFresh'
        BY <3>1 DEF StampsAreFresh
      <3> QED BY <1>1, <1>2, <2>3, <3>1, <3>2, LoopSound DEF InLoop
    <2> QED BY <1>7, <2>1, <2>2, <2>3 DEF GoalDecided
  <1> QED BY <1>3, <1>4, <1>5, <1>6, <1>7 DEF GoalNext

LEMMA ReflectionSound ==
    ASSUME ExecutionSound, ReflectionNext PROVE ExecutionSound'
  <1>1. IsReflection /\ IsLoop /\ ~IsGoal /\ pc # "ended"
    BY DEF ReflectionNext, Partition, NextIteration, ReflectionStepReturns,
           ReflectionStepRaises, Generated, Evaluated, IsGoal, IsReflection, IsLoop
  <1>2. outcome = "running" /\ record = NoRecord /\ round = begun /\ begun \in Nat
    BY <1>1, StillRunning DEF ExecutionSound, RoundsAreCounted, ExecutionTyped
  <1>3. \A tag : Tagged(tag) \subseteq DOMAIN Workflow
    BY DEF Tagged
  <1>4. CASE Partition
    <2>1. CASE \E error \in {"no generate step", "no evaluate step"} : Raise(error)
      BY <1>2, <2>1, RaiseSound
    <2>2. CASE UNCHANGED <<round, begun>> /\ Loop("again", {})
      <3>1. pc' = "again" /\ todo' = {}
            /\ UNCHANGED <<config, results, stamp, suspended, record, outcome>>
        BY <2>2 DEF Loop, context
      <3>2. StampsAreFresh'
        BY <3>1 DEF StampsAreFresh
      <3> QED BY <1>1, <1>2, <2>2, <3>1, <3>2, LoopSound DEF InLoop
    <2> QED BY <1>4, <2>1, <2>2 DEF Partition
  <1>5. CASE NextIteration
    <2>1. CASE /\ round < config.max
               /\ round' = round + 1 /\ begun' = begun + 1
               /\ Loop("generate", Tagged("generate"))
      <3>1. pc' = "generate" /\ todo' = Tagged("generate") /\ Tagged("generate")' = Tagged("generate")
            /\ UNCHANGED <<config, results, stamp, suspended, record, outcome>>
        BY <2>1 DEF Loop, context, Tagged
      <3>2. StampsAreFresh'
        BY <1>1, <3>1 DEF StampsAreFresh, DueOrDone, IsGoal
      <3> QED BY <1>1, <1>2, <1>3, <2>1, <3>1, <3>2, LoopSound
    <2>2. CASE suspended /\ Return(round + 1, FALSE)
      BY <1>1, <1>2, <2>2, ReturnSound
    <2>3. CASE round = config.max /\ Return(round, FALSE)
      BY <1>1, <1>2, <2>3, ReturnSound
    <2> QED BY <1>5, <2>1, <2>2, <2>3 DEF NextIteration
  <1>6. CASE ReflectionStepReturns
    BY <1>2, <1>6, StepReturnsSound DEF ReflectionStepReturns
  <1>7. CASE ReflectionStepRaises
    BY <1>2, <1>7, RaiseSound DEF ReflectionStepRaises, StepRaises
  <1>8. CASE Generated
    <2>1. pc = "generate" /\ todo = {}
      BY <1>8 DEF Generated
    <2>2. CASE suspended /\ Return(round, FALSE)
      BY <1>1, <1>2, <2>2, ReturnSound
    <2>3. CASE UNCHANGED <<round, begun>> /\ Loop("evaluate", Tagged("evaluate"))
      <3>1. pc' = "evaluate" /\ todo' = Tagged("evaluate")
            /\ UNCHANGED <<config, results, stamp, suspended, record, outcome>>
        BY <2>3 DEF Loop, context
      <3>2. \A tag : Tagged(tag)' = Tagged(tag)
        BY <3>1 DEF Tagged
      <3>3. \A i \in Tagged("generate") : stamp[Workflow[i]] = begun
        BY <1>1, <2>1 DEF ExecutionSound, StampsAreFresh, DueOrDone
      <3>4. StampsAreFresh'
        BY <1>1, <2>3, <3>1, <3>2, <3>3 DEF StampsAreFresh, DueOrDone, IsGoal
      <3>5. begun' > 0
        BY <2>1, <2>3 DEF ExecutionSound, RoundsAreCounted, InLoop
      <3> QED BY <1>1, <1>2, <1>3, <2>3, <3>1, <3>4, <3>5, LoopSound
    <2> QED BY <1>8, <2>2, <2>3 DEF Generated
  <1>9. CASE Evaluated
    <2>1. pc = "evaluate" /\ todo = {}
      BY <1>9 DEF Evaluated
    <2>2. CASE Raise("threshold needs a number")
      BY <1>2, <2>2, RaiseSound
    <2>3. CASE Converged /\ Return(round, TRUE) /\ UNCHANGED previous
      <3>1. pc' = "ended" /\ outcome' = "returned" /\ record' = [rounds |-> round, verdict |-> TRUE]
            /\ UNCHANGED <<config, todo, round, begun, context>>
        BY <2>3 DEF Return, End
      <3>2. UNCHANGED <<results, stamp, suspended>>
        BY <3>1 DEF context
      <3>3. record'.rounds = round /\ record'.verdict = TRUE
        BY <3>1
      <3>4. ConfigSound' /\ ExecutionTyped'
        BY <3>1, <3>2 DEF ExecutionSound, ConfigSound, ExecutionTyped, IsReflection
      <3>5. RoundsAreCounted' /\ StampsAreFresh'
        BY <1>1, <3>1 DEF ExecutionSound, RoundsAreCounted, StampsAreFresh, IsLoop, IsGoal,
                          IsReflection, InLoop
      <3>6. begun > 0
        BY <2>1 DEF ExecutionSound, RoundsAreCounted, InLoop
      <3>7. EndIsKnown'
        BY <3>1, <3>3, <3>6 DEF EndIsKnown
      <3>8. \A s \in Steps : config.tags[s] # {} => stamp[s] = begun
        <4> SUFFICES ASSUME NEW s \in Steps, config.tags[s] # {} PROVE stamp[s] = begun
          OBVIOUS
        <4>1. PICK i \in DOMAIN Workflow : Workflow[i] = s
          BY WorkflowPlaces
        <4>2. i \in Tagged("generate") \/ i \in Tagged("evaluate")
          BY <1>1, <4>1 DEF Tagged, ExecutionSound, ConfigSound
        <4>3. DueOrDone(i)
          BY <1>1, <2>1, <4>2 DEF ExecutionSound, StampsAreFresh
        <4> QED BY <2>1, <4>1, <4>3 DEF DueOrDone
      <3>9. Tagged("evaluate")' = Tagged("evaluate")
        BY <3>1 DEF Tagged
      <3>10. VerdictIsOfTheLastRound'
        BY <1>1, <1>2, <2>3, <3>1, <3>2, <3>3, <3>8, <3>9
           DEF VerdictIsOfTheLastRound, Converged, CurrentEval, IsGoal, IsReflection
      <3> QED BY <3>4, <3>5, <3>7, <3>10 DEF ExecutionSound
    <2>4. CASE /\ pc' = "again"
               /\ UNCHANGED <<config, todo, round, begun, stamp, suspended, record, outcome>>
      <3>1. StampsAreFresh'
        BY <2>4 DEF StampsAreFresh
      <3> QED BY <1>1, <1>2, <2>1, <2>4, <3>1, LoopSound DEF InLoop
    <2> QED BY <1>9, <2>2, <2>3, <2>4 DEF Evaluated
  <1> QED BY <1>4, <1>5, <1>6, <1>7, <1>8, <1>9 DEF ReflectionNext

(* The other strategies move on in their one round. *)
LEMMA OneRoundSound ==
    ASSUME ExecutionSound, outcome = "running", ~IsLoop,
           UNCHANGED <<config, round, stamp, record, outcome>>,
           pc' \notin {"start", "ended", "decided"}, todo' \subseteq DOMAIN Workflow,
           begun' \in Nat, begun' > 0, begun' <= config.max
    PROVE  ExecutionSound'
  <1>1. ConfigSound' /\ ExecutionTyped'
    BY DEF ExecutionSound, ConfigSound, ExecutionTyped, IsReflection
  <1>2. RoundsAreCounted'
    BY DEF ExecutionSound, RoundsAreCounted, IsLoop, IsGoal, IsReflection
  <1>3. StampsAreFresh' /\ EndIsKnown' /\ VerdictIsOfTheLastRound'
    BY DEF StampsAreFresh, EndIsKnown, VerdictIsOfTheLastRound, IsLoop, IsGoal, IsReflection
  <1> QED BY <1>1, <1>2, <1>3 DEF ExecutionSound

LEMMA EventDrivenSound ==
    ASSUME ExecutionSound, EventDrivenNext PROVE ExecutionSound'
  <1>1. ~IsLoop /\ pc \in {"start", "sequence"} /\ config.max = 1
    BY DEF EventDrivenNext, InjectTrigger, SequenceStepReturns, SequenceStepRaises, SequenceOver,
           IsEventDriven, IsLoop, IsGoal, IsReflection, ExecutionSound, ConfigSound
  <1>2. outcome = "running"
    BY <1>1, StillRunning
  <1>3. CASE InjectTrigger
    BY <1>1, <1>2, <1>3, OneRoundSound DEF InjectTrigger
  <1>4. CASE SequenceStepReturns
    BY <1>2, <1>4, StepReturnsSound DEF SequenceStepReturns
  <1>5. CASE SequenceStepRaises
    BY <1>2, <1>5, RaiseSound DEF SequenceStepRaises, StepRaises
  <1>6. CASE SequenceOver
    <2>1. begun > 0
      BY <1>6 DEF SequenceOver, ExecutionSound, RoundsAreCounted, InLoop
    <2> QED BY <1>1, <1>2, <1>6, <2>1, EndSound DEF SequenceOver
  <1> QED BY <1>3, <1>4, <1>5, <1>6 DEF EventDrivenNext

LEMMA DelegationSound ==
    ASSUME ExecutionSound, AgentDelegationNext PROVE ExecutionSound'
  <1>1. ~IsLoop /\ pc \in {"start", "delegated", "answered"} /\ config.max = 1
    BY DEF AgentDelegationNext, Validate, DelegateAnswers, DelegationOver, AgentRaisesAgentError,
           AgentRaises, IsDelegation, IsLoop, IsGoal, IsReflection, ExecutionSound, ConfigSound
  <1>2. outcome = "running" /\ begun \in Nat /\ begun <= config.max
        /\ (pc # "start" => begun > 0) /\ todo \subseteq DOMAIN Workflow
    BY <1>1, StillRunning DEF ExecutionSound, ExecutionTyped, RoundsAreCounted, InLoop
  <1>3. CASE Validate
    <2>1. CASE Refusal # "none" /\ Raise(Refusal)
      BY <1>2, <2>1, RaiseSound DEF Refusal
    <2>2. CASE suspended /\ End("returned") /\ UNCHANGED record
      BY <1>1, <1>2, <2>2, EndSound
    <2>3. CASE /\ begun' = 1 /\ pc' = "delegated"
               /\ UNCHANGED <<config, todo, round, context, record, outcome>>
      BY <1>1, <1>2, <2>3, OneRoundSound DEF context
    <2> QED BY <1>3, <2>1, <2>2, <2>3 DEF Validate
  <1>4. CASE DelegateAnswers
    BY <1>1, <1>2, <1>4, OneRoundSound DEF DelegateAnswers
  <1>5. CASE DelegationOver
    BY <1>1, <1>2, <1>5, EndSound DEF DelegationOver
  <1>6. CASE AgentRaisesAgentError \/ AgentRaises
    BY <1>2, <1>6, RaiseSound DEF AgentRaisesAgentError, AgentRaises
  <1> QED BY <1>3, <1>4, <1>5, <1>6 DEF AgentDelegationNext

LEMMA SuspendSound ==
    ASSUME ExecutionSound, Suspend PROVE ExecutionSound'
  <1>1. pc # "ended" /\ UNCHANGED <<config, pc, todo, round, begun, results, stamp, record, outcome>>
    BY DEF Suspend
  <1>2. outcome' = "running"
    BY <1>1, StillRunning
  <1>3. ConfigSound' /\ ExecutionTyped' /\ RoundsAreCounted'
    BY <1>1 DEF ExecutionSound, ConfigSound, ExecutionTyped, RoundsAreCounted, IsLoop, IsGoal,
                IsReflection
  <1>4. StampsAreFresh'
    BY <1>1 DEF ExecutionSound, StampsAreFresh, DueOrDone, Tagged, IsGoal, IsReflection
  <1>5. EndIsKnown' /\ VerdictIsOfTheLastRound'
    BY <1>2 DEF EndIsKnown, VerdictIsOfTheLastRound
  <1> QED BY <1>3, <1>4, <1>5 DEF ExecutionSound

LEMMA ExecutionStutters ==
    ASSUME ExecutionSound, UNCHANGED executionVars PROVE ExecutionSound'
  <1>1. UNCHANGED <<config, pc, todo, round, begun, results, stamp, suspended, record, outcome,
                    previous>>
    BY DEF executionVars, strategyVars, context
  <1>2. ConfigSound' /\ ExecutionTyped' /\ RoundsAreCounted' /\ EndIsKnown'
    BY <1>1 DEF ExecutionSound, ConfigSound, ExecutionTyped, RoundsAreCounted, EndIsKnown, IsLoop,
                IsGoal, IsReflection
  <1>3. \A tag : Tagged(tag)' = Tagged(tag)
    BY <1>1 DEF Tagged
  <1>4. StampsAreFresh'
    BY <1>1, <1>3 DEF ExecutionSound, StampsAreFresh, DueOrDone, IsGoal, IsReflection
  <1>5. VerdictIsOfTheLastRound'
    BY <1>1, <1>3 DEF ExecutionSound, VerdictIsOfTheLastRound, IsGoal, IsReflection
  <1> QED BY <1>2, <1>4, <1>5 DEF ExecutionSound

LEMMA ExecutionInductive == Spec => []ExecutionSound
  <1>1. ASSUME ExecutionSound, [Next]_vars PROVE ExecutionSound'
    <2>1. CASE UNCHANGED executionVars
      BY <1>1, <2>1, ExecutionStutters
    <2> QED BY <1>1, <2>1, GoalSound, ReflectionSound, EventDrivenSound, DelegationSound,
               SuspendSound
            DEF Next, Progress, StrategyProgress, vars
  <1> QED BY <1>1, ExecutionStarts, PTL DEF Spec

(* What a step does to the rounds: it begins one more, or ends them all,   *)
(* or neither; and nothing once they have ended.                           *)
Moves ==
    /\ config' = config
    /\ outcome = "running"
    /\ \/ begun' = begun
       \/ begun' = begun + 1 /\ outcome' = "running"

LEMMA StepMoves ==
    ASSUME ExecutionSound, StrategyProgress \/ Suspend PROVE Moves
  <1>1. pc # "ended"
    BY DEF StrategyProgress, Suspend, GoalNext, NextAttempt, GoalStepReturns, GoalStepRaises,
           EvaluateGoal, GoalDecided, ReflectionNext, Partition, NextIteration,
           ReflectionStepReturns, ReflectionStepRaises, Generated, Evaluated,
           EventDrivenNext, InjectTrigger, SequenceStepReturns, SequenceStepRaises, SequenceOver,
           AgentDelegationNext, Validate, DelegateAnswers, DelegationOver, AgentRaisesAgentError,
           AgentRaises
  <1>2. outcome = "running" /\ (pc = "start" => begun = 0)
    BY <1>1, StillRunning DEF ExecutionSound, RoundsAreCounted
  <1>3. CASE Suspend
    BY <1>2, <1>3 DEF Suspend, Moves
  <1>4. CASE GoalNext
    BY <1>2, <1>4 DEF GoalNext, NextAttempt, GoalStepReturns, GoalStepRaises, EvaluateGoal,
           GoalDecided, GoalLoopOver, StepReturns, StepRaises, Loop, Raise, Return, End, Moves
  <1>5. CASE ReflectionNext
    BY <1>2, <1>5 DEF ReflectionNext, Partition, NextIteration, ReflectionStepReturns,
           ReflectionStepRaises, Generated, Evaluated, StepReturns, StepRaises, Loop, Raise,
           Return, End, Moves
  <1>6. ASSUME config' = config, UNCHANGED outcome, pc = "start", begun' = 1 PROVE Moves
    BY <1>2, <1>6 DEF Moves
  <1>7. ASSUME config' = config, UNCHANGED begun PROVE Moves
    BY <1>2, <1>7 DEF Moves
  <1>8. CASE EventDrivenNext
    <2>1. CASE InjectTrigger
      BY <1>6, <2>1 DEF InjectTrigger
    <2>2. CASE SequenceStepReturns \/ SequenceStepRaises \/ SequenceOver
      BY <1>7, <2>2 DEF SequenceStepReturns, SequenceStepRaises, SequenceOver, StepReturns,
                        StepRaises, Raise, End
    <2> QED BY <1>8, <2>1, <2>2 DEF EventDrivenNext
  <1>9. CASE AgentDelegationNext
    <2>1. CASE Validate
      BY <1>6, <1>7, <2>1 DEF Validate, Raise, End
    <2>2. CASE DelegateAnswers \/ DelegationOver \/ AgentRaisesAgentError \/ AgentRaises
      BY <1>7, <2>2 DEF DelegateAnswers, DelegationOver, AgentRaisesAgentError, AgentRaises,
                        Raise, End
    <2> QED BY <1>9, <2>1, <2>2 DEF AgentDelegationNext
  <1> QED BY <1>3, <1>4, <1>5, <1>8, <1>9 DEF StrategyProgress

LEMMA LoopEndedIsKnown ==
    ASSUME EndIsKnown, begun \in Nat
    PROVE  /\ LoopEnded = "no" <=> outcome = "running"
           /\ LoopEnded \in {"no", "satisfied", "exhausted", "interrupted", "failed"}
           /\ LoopEnded = "satisfied" => begun > 0
           /\ LoopEnded = "exhausted" => begun = config.max
  BY DEF EndIsKnown, LoopEnded, LoopSatisfied

LEMMA StepIsOfTheLoop ==
    ASSUME ExecutionSound, ExecutionSound', [Next]_vars
    PROVE  [Rounds!Next]_(Rounds!loopVars)
  <1>1. begun \in Nat /\ begun' \in Nat /\ EndIsKnown /\ EndIsKnown' /\ begun' <= config'.max
    BY DEF ExecutionSound, ExecutionTyped, RoundsAreCounted
  <1>2. CASE UNCHANGED executionVars
    <2>1. UNCHANGED <<config, begun, record, outcome, suspended>>
      BY <1>2 DEF executionVars, strategyVars, context
    <2>2. LoopEnded' = LoopEnded
      BY <2>1 DEF LoopEnded, LoopSatisfied, IsLoop, IsGoal, IsReflection
    <2> QED BY <2>1, <2>2 DEF Rounds!loopVars
  <1>3. CASE StrategyProgress \/ Suspend
    <2>1. Moves
      BY <1>3, StepMoves
    <2>2. LoopEnded = "no"
      BY <1>1, <2>1, LoopEndedIsKnown DEF Moves
    <2>3. /\ LoopEnded' = "no" <=> outcome' = "running"
          /\ LoopEnded' \in {"no", "satisfied", "exhausted", "interrupted", "failed"}
          /\ LoopEnded' = "satisfied" => begun' > 0
          /\ LoopEnded' = "exhausted" => begun' = config'.max
      BY <1>1 DEF EndIsKnown, LoopEnded, LoopSatisfied, IsLoop, IsGoal, IsReflection
    <2>4. CASE begun' = begun /\ LoopEnded' = "no"
      BY <2>1, <2>2, <2>4 DEF Moves, Rounds!loopVars
    <2>5. CASE begun' = begun /\ LoopEnded' # "no"
      <3>1. Rounds!Finish
        BY <2>1, <2>2, <2>3, <2>5 DEF Moves, Rounds!Finish
      <3> QED BY <3>1 DEF Rounds!Next
    <2>6. CASE begun' = begun + 1 /\ outcome' = "running"
      <3>1. begun < config.max
        BY <1>1, <2>1, <2>6 DEF Moves, ExecutionSound, ConfigSound
      <3>2. Rounds!Round
        BY <2>1, <2>2, <2>3, <2>6, <3>1 DEF Moves, Rounds!Round
      <3> QED BY <3>2 DEF Rounds!Next
    <2> QED BY <2>1, <2>4, <2>5, <2>6 DEF Moves
  <1> QED BY <1>2, <1>3 DEF Next, Progress, vars

-----------------------------------------------------------------------------
(* What satisfies a constraint by comparing the numbers one after the      *)
(* other is what the constraint means.                                     *)
Number(a, b, c) == 10000 * a + 100 * b + c

Above(a, b, c, d, e, f) ==
    \/ a > d
    \/ a = d /\ b > e
    \/ a = d /\ b = e /\ c >= f

LEMMA NumberIsNat ==
    ASSUME NEW a \in Nat, NEW b \in TwoDigits, NEW c \in TwoDigits
    PROVE  Number(a, b, c) \in Nat
  BY DEF Number, TwoDigits

LEMMA AboveIsNoLess ==
    ASSUME NEW a \in Nat, NEW b \in TwoDigits, NEW c \in TwoDigits,
           NEW d \in Nat, NEW e \in TwoDigits, NEW f \in TwoDigits
    PROVE  Above(a, b, c, d, e, f) <=> Number(a, b, c) >= Number(d, e, f)
  BY DEF Number, Above, TwoDigits

LEMMA SameNumber ==
    ASSUME NEW a \in Nat, NEW b \in TwoDigits, NEW c \in TwoDigits,
           NEW d \in Nat, NEW e \in TwoDigits, NEW f \in TwoDigits
    PROVE  Number(a, b, c) = Number(d, e, f) => (a = d /\ b = e /\ c = f)
  BY DEF Number, TwoDigits

(* Below the next major version, and below the next minor one. *)
LEMMA BelowNextMajor ==
    ASSUME NEW v, NEW w, v[1] \in Nat, v[2] \in Nat, v[3] \in Nat,
           w[1] \in Nat, w[2] \in Nat, w[3] \in Nat,
           Above(v[1], v[2], v[3], w[1], w[2], w[3]),
           ~Above(v[1], v[2], v[3], w[1] + 1, 0, 0)
    PROVE  v[1] = w[1]
  BY DEF Above

LEMMA BelowNextMinor ==
    ASSUME NEW v, NEW w, v[1] \in Nat, v[2] \in Nat, v[3] \in Nat,
           w[1] \in Nat, w[2] \in Nat, w[3] \in Nat,
           Above(v[1], v[2], v[3], w[1], w[2], w[3]),
           ~Above(v[1], v[2], v[3], w[1], w[2] + 1, 0)
    PROVE  v[1] = w[1] /\ v[2] = w[2] /\ v[3] >= w[3]
  BY DEF Above

LEMMA AtLeastIsAbove ==
    ASSUME NEW v, NEW d, NEW e, NEW f
    PROVE  AtLeast(v, <<d, e, f>>) <=> Above(v[1], v[2], v[3], d, e, f)
  <1> DEFINE w == <<d, e, f>>
  <1>1. w[1] = d /\ w[2] = e /\ w[3] = f
    OBVIOUS
  <1> HIDE DEF w
  <1>2. AtLeast(v, w) <=> Above(v[1], v[2], v[3], d, e, f)
    BY <1>1, Zenon DEF AtLeast, Above
  <1> QED BY <1>2 DEF w

LEMMA Numbers ==
    ASSUME NEW v, IsVersion(v)
    PROVE  /\ v[1] \in Nat /\ v[2] \in TwoDigits /\ v[3] \in TwoDigits
           /\ v = <<v[1], v[2], v[3]>>
           /\ Rank(v) = Number(v[1], v[2], v[3])
           /\ Rank(v) \in Nat
  <1>1. v[1] \in Nat /\ v[2] \in TwoDigits /\ v[3] \in TwoDigits /\ v = <<v[1], v[2], v[3]>>
    BY DEF IsVersion
  <1>2. Rank(v) = Number(v[1], v[2], v[3])
    BY DEF Rank, Number
  <1>3. Number(v[1], v[2], v[3]) \in Nat
    BY <1>1, NumberIsNat
  <1> QED BY <1>1, <1>2, <1>3

LEMMA AtLeastMeans ==
    ASSUME NEW v, NEW w, IsVersion(v), IsVersion(w)
    PROVE  AtLeast(v, w) <=> Rank(v) >= Rank(w)
  <1>1. v[1] \in Nat /\ v[2] \in TwoDigits /\ v[3] \in TwoDigits
    BY Numbers
  <1>2. w[1] \in Nat /\ w[2] \in TwoDigits /\ w[3] \in TwoDigits
    BY Numbers
  <1>3. AtLeast(v, w) <=> Above(v[1], v[2], v[3], w[1], w[2], w[3])
    BY Zenon DEF AtLeast, Above
  <1>4. Above(v[1], v[2], v[3], w[1], w[2], w[3])
        <=> Number(v[1], v[2], v[3]) >= Number(w[1], w[2], w[3])
    BY <1>1, <1>2, AboveIsNoLess, Zenon
  <1>5. Rank(v) = Number(v[1], v[2], v[3]) /\ Rank(w) = Number(w[1], w[2], w[3])
    BY Numbers
  <1> QED BY <1>3, <1>4, <1>5, Zenon

LEMMA SameRank ==
    ASSUME NEW v, NEW w, IsVersion(v), IsVersion(w)
    PROVE  v = w <=> Rank(v) = Rank(w)
  <1>1. v[1] \in Nat /\ v[2] \in TwoDigits /\ v[3] \in TwoDigits
    BY Numbers
  <1>2. w[1] \in Nat /\ w[2] \in TwoDigits /\ w[3] \in TwoDigits
    BY Numbers
  <1>3. Number(v[1], v[2], v[3]) = Number(w[1], w[2], w[3])
        => (v[1] = w[1] /\ v[2] = w[2] /\ v[3] = w[3])
    BY <1>1, <1>2, SameNumber
  <1>4. Rank(v) = Number(v[1], v[2], v[3]) /\ Rank(w) = Number(w[1], w[2], w[3])
    BY Numbers
  <1>5. v = <<v[1], v[2], v[3]>> /\ w = <<w[1], w[2], w[3]>>
    BY Numbers
  <1>6. (v[1] = w[1] /\ v[2] = w[2] /\ v[3] = w[3]) => v = w
    BY <1>5, Zenon
  <1> QED BY <1>3, <1>4, <1>6, Zenon

LEMMA SatisfiesMeans ==
    ASSUME NEW c, NEW v, IsVersion(v), IsVersion(c.version), Satisfies(v, c)
    PROVE  Means(c, v)
  <1> DEFINE w == c.version
  <1>1. v[1] \in Nat /\ v[2] \in TwoDigits /\ v[3] \in TwoDigits /\ Rank(v) \in Nat
    BY Numbers
  <1>2. w[1] \in Nat /\ w[2] \in TwoDigits /\ w[3] \in TwoDigits /\ Rank(w) \in Nat
    BY Numbers
  <1>3. (AtLeast(v, w) <=> Rank(v) >= Rank(w)) /\ (AtLeast(w, v) <=> Rank(w) >= Rank(v))
    BY AtLeastMeans
  <1>4. v = w <=> Rank(v) = Rank(w)
    BY SameRank
  <1> HIDE DEF w
  <1>5. ASSUME Caret(v, w)
        PROVE  v[1] = w[1] /\ (w[1] = 0 => v[2] = w[2]) /\ AtLeast(v, w)
    <2>1. AtLeast(v, w) /\ Above(v[1], v[2], v[3], w[1], w[2], w[3])
      BY <1>5, Zenon DEF Caret, AtLeast, Above
    <2>2. v[2] \in Nat /\ v[3] \in Nat /\ w[2] \in Nat /\ w[3] \in Nat
      BY <1>1, <1>2 DEF TwoDigits
    <2>3. CASE w[1] >= 1
      <3>1. ~Above(v[1], v[2], v[3], w[1] + 1, 0, 0)
        BY <1>5, <2>3, AtLeastIsAbove, Zenon DEF Caret
      <3>2. v[1] = w[1]
        BY <1>1, <1>2, <2>1, <2>2, <3>1, BelowNextMajor, Zenon
      <3> QED BY <1>2, <2>1, <2>3, <3>2
    <2>4. CASE w[1] = 0
      <3>1. ~(w[1] >= 1)
        BY <2>4
      <3>2. ~Above(v[1], v[2], v[3], w[1], w[2] + 1, 0)
        BY <1>5, <2>4, <3>1, AtLeastIsAbove, Zenon DEF Caret
      <3>3. v[1] = w[1] /\ v[2] = w[2]
        BY <1>1, <1>2, <2>1, <2>2, <3>2, BelowNextMinor, Zenon
      <3> QED BY <2>1, <3>3
    <2> QED BY <1>2, <2>3, <2>4
  <1>6. ASSUME Tilde(v, w)
        PROVE  v[1] = w[1] /\ v[2] = w[2] /\ v[3] >= w[3]
    <2>1. Above(v[1], v[2], v[3], w[1], w[2], w[3])
      BY <1>6, Zenon DEF Tilde, AtLeast, Above
    <2>2. ~Above(v[1], v[2], v[3], w[1], w[2] + 1, 0)
      BY <1>6, AtLeastIsAbove, Zenon DEF Tilde
    <2>3. v[2] \in Nat /\ v[3] \in Nat /\ w[2] \in Nat /\ w[3] \in Nat
      BY <1>1, <1>2 DEF TwoDigits
    <2> QED BY <1>1, <1>2, <2>1, <2>2, <2>3, BelowNextMinor, Zenon
  <1>7. CASE c.op \in {"any", ">=", ">", "<=", "<", "!="}
    BY <1>1, <1>2, <1>3, <1>4, <1>7 DEF Satisfies, Means, w
  <1>8. CASE c.op = "^"
    BY <1>3, <1>5, <1>8 DEF Satisfies, Means, w
  <1>9. CASE c.op = "~"
    BY <1>6, <1>9 DEF Satisfies, Means, w
  <1>10. CASE c.op \notin {"any", ">=", ">", "<=", "<", "!=", "^", "~"}
    BY <1>10 DEF Satisfies, Means, w
  <1> QED BY <1>7, <1>8, <1>9, <1>10

-----------------------------------------------------------------------------
(***************************************************************************)
(* However a coordination ends, none of its agents is left at work, but    *)
(* for those of a first-result dispatch cancelled while it waited          *)
(* (parallel_dispatch.py:165): for any number of agents and any teams.     *)
(***************************************************************************)
THEOREM NobodyLeftAtWork == Spec => []NoAgentLeftAtWork
  <1>1. StackSound /\ CoordinationSound => NoAgentLeftAtWork
    BY DEF CoordinationSound, CoordinationTyped, WorkIsKnown, NoAgentLeftAtWork,
           InTurn, Working, Busy
  <1> QED BY <1>1, Inductive, PTL

(***************************************************************************)
(* A chain of hand-offs goes where its markers say and makes no more than  *)
(* max_handoffs of them, for any agents and any limit (handoff.py:94).     *)
(***************************************************************************)
THEOREM ChainsFollow == Spec => []ChainFollowsMarkers
  <1>1. StackSound /\ CoordinationSound => ChainFollowsMarkers
    BY DEF CoordinationSound, ChainLeads
  <1> QED BY <1>1, Inductive, PTL

(***************************************************************************)
(* An answer is one that was given, a vote is won by the most votes, and a *)
(* dispatch that reports that all failed had no answer: for any number of  *)
(* agents, any teams and whatever they say (parallel_dispatch.py:243,      *)
(* supervisor.py).                                                         *)
(***************************************************************************)
THEOREM OutcomesAreEarned == Spec => []OutcomeIsEarned
  <1>1. Earned => OutcomeIsEarned
    BY DEF Earned
  <1> QED BY <1>1, EarnedInductive, PTL

(***************************************************************************)
(* Nested runs are no deeper than the max_depth of each call on the way,   *)
(* for any workflows and kits that call each other (call_agent.py:137).    *)
(***************************************************************************)
THEOREM NestingBounded == Spec => []NestingIsBounded
  <1>1. StackSound /\ CoordinationSound => NestingIsBounded
    BY DEF StackSound, CallSound, NestingIsBounded
  <1> QED BY <1>1, Inductive, PTL

(***************************************************************************)
(* Every skill that runs is permitted by the governance of the root's      *)
(* context and of a version the constraint means, for any kits, policies   *)
(* and versions whose minor and patch numbers are below 100.               *)
(***************************************************************************)
THEOREM OnlyPermittedSkills == Spec => []SkillsArePermitted
  <1>1. ASSUME StackSound PROVE SkillsArePermitted
    <2> SUFFICES ASSUME NEW i \in 2 .. Len(stack), Calls[stack[i].via].kind = "skill"
                 PROVE  /\ Permits(stack[1].governance, Calls[stack[i].via].kit)
                        /\ Means(deps.constraint, deps.version)
      BY DEF SkillsArePermitted
    <2>1. /\ Permits(stack[1].governance, Calls[stack[i].via].kit)
          /\ Satisfies(deps.version, deps.constraint)
      BY <1>1 DEF StackSound, CallSound
    <2>2. stack # <<>>
      OBVIOUS
    <2>3. IsVersion(deps.version) /\ IsVersion(deps.constraint.version)
      BY <1>1, <2>2 DEF StackSound
    <2> QED BY <2>1, <2>3, SatisfiesMeans
  <1> QED BY <1>1, Inductive, PTL

(***************************************************************************)
(* A goal is met, and a reflection converges, on results of the round just *)
(* run, for any workflow, any values and tags, any number of rounds and    *)
(* suspensions at any await (goal_oriented.py:167, reflection.py:174).     *)
(***************************************************************************)
THEOREM VerdictsAreFresh == Spec => []VerdictIsOfTheLastRound
  <1>1. ExecutionSound => VerdictIsOfTheLastRound
    BY DEF ExecutionSound
  <1> QED BY <1>1, ExecutionInductive, PTL

(***************************************************************************)
(* Every strategy is a bounded loop of rounds (module RoundLoop): it ends  *)
(* once, satisfied only after a round, and exhausted only after as many as *)
(* max_attempts or max_iterations allow (goal_oriented.py:111,             *)
(* reflection.py:121).                                                     *)
(***************************************************************************)
THEOREM StrategiesAreLoops == Spec => LoopsAreBounded
  <1>1. Init => Rounds!Init
    <2> SUFFICES ASSUME Init PROVE Rounds!Init
      OBVIOUS
    <2>1. ExecutionSound
      BY ExecutionStarts
    <2>2. begun = 0 /\ outcome = "running"
      BY DEF Init, InitStrategy, StrategyIdle, StartIn
    <2> QED BY <2>1, <2>2 DEF Rounds!Init, ExecutionSound, ConfigSound, LoopEnded
  <1>2. ExecutionSound /\ ExecutionSound' /\ [Next]_vars => [Rounds!Next]_(Rounds!loopVars)
    BY StepIsOfTheLoop
  <1> QED BY <1>1, <1>2, ExecutionInductive, PTL DEF Spec, LoopsAreBounded, Rounds!Spec
=============================================================================
