--------------------------- MODULE CircuitBreaker ---------------------------
(***************************************************************************)
(* InMemoryCircuitBreaker as its callers use it.  A caller asks is_open,   *)
(* and when it is let through it calls the provider and reports the        *)
(* outcome later, unless it is cancelled in between.  Each method holds    *)
(* the lock; nothing is held between the question and the report, so       *)
(* reports arrive in any order and in any later state of the circuit.      *)
(***************************************************************************)
EXTENDS BreakerState

CONSTANTS
    Callers,    \* threads or tasks that share the breaker
    Providers,
    Nobody      \* a caller that calls no provider

ASSUME CallersAssumption == Nobody \notin Providers

VARIABLES
    circuit,    \* _states: the record of each provider
    calling,    \* the provider a caller was let through to
    probing,    \* history: it was let through while the circuit was half-open
    streak,     \* history: failures of a provider since its last success
    wins        \* history: successes of a provider since its last failure

vars == <<circuit, calling, probing, streak, wins>>

\* The histories stop counting where no property tells more apart.
StreakBound == FailureThreshold
WinsBound == SuccessThreshold

UpTo(bound, n) == IF n < bound THEN n ELSE bound

TypeOK ==
    /\ circuit \in [Providers -> ProviderStates]
    /\ calling \in [Callers -> Providers \cup {Nobody}]
    /\ probing \in [Callers -> BOOLEAN]
    /\ streak \in [Providers -> 0 .. StreakBound]
    /\ wins \in [Providers -> 0 .. WinsBound]

Init ==
    /\ circuit = [p \in Providers |-> Fresh]
    /\ calling = [c \in Callers |-> Nobody]
    /\ probing = [c \in Callers |-> FALSE]
    /\ streak = [p \in Providers |-> 0]
    /\ wins = [p \in Providers |-> 0]

\* is_open(p) answered False.
Admit(c, p) ==
    /\ calling[c] = Nobody
    /\ ~ Blocks(circuit[p])
    /\ circuit' = [circuit EXCEPT ![p] = Asked(@)]
    /\ calling' = [calling EXCEPT ![c] = p]
    /\ probing' = [probing EXCEPT ![c] = circuit'[p].state = "half-open"]
    /\ UNCHANGED <<streak, wins>>

\* The caller is done with provider p.
Leave(c) ==
    /\ calling' = [calling EXCEPT ![c] = Nobody]
    /\ probing' = [probing EXCEPT ![c] = FALSE]

Succeed(c) ==
    /\ calling[c] # Nobody
    /\ circuit' = [circuit EXCEPT ![calling[c]] = AfterSuccess(@)]
    /\ streak' = [streak EXCEPT ![calling[c]] = 0]
    /\ wins' = [wins EXCEPT ![calling[c]] = UpTo(WinsBound, @ + 1)]
    /\ Leave(c)

Fail(c) ==
    /\ calling[c] # Nobody
    /\ circuit' = [circuit EXCEPT ![calling[c]] = AfterFailure(@)]
    /\ streak' = [streak EXCEPT ![calling[c]] = UpTo(StreakBound, @ + 1)]
    /\ wins' = [wins EXCEPT ![calling[c]] = 0]
    /\ Leave(c)

\* Cancelled between is_open and the report: the breaker hears nothing.
Abandon(c) ==
    /\ calling[c] # Nobody
    /\ Leave(c)
    /\ UNCHANGED <<circuit, streak, wins>>

Tick ==
    /\ \E p \in Providers : Aged(circuit[p]) # circuit[p]
    /\ circuit' = [p \in Providers |-> Aged(circuit[p])]
    /\ UNCHANGED <<calling, probing, streak, wins>>

Finish(c) == Succeed(c) \/ Fail(c) \/ Abandon(c)

Next ==
    \/ \E c \in Callers : Finish(c) \/ \E p \in Providers : Admit(c, p)
    \/ Tick

Spec == Init /\ [][Next]_vars

\* Time passes, every call ends, and there is always new demand for every
\* provider: the workflows that use it keep being run.
FairSpec ==
    /\ Spec
    /\ WF_vars(Tick)
    /\ \A c \in Callers : WF_vars(Finish(c))
    /\ \A p \in Providers : SF_vars(\E c \in Callers : Admit(c, p))

-----------------------------------------------------------------------------
State(p) == circuit[p].state

\* While a circuit is closed fewer than FailureThreshold failures have come
\* in since the last success, whichever callers reported them and in whatever
\* order: the count the code keeps is the number of consecutive failures
\* (CircuitBreakerConfig: "consecutive failures before the circuit opens").
ClosedMeansHealthy ==
    \A p \in Providers : State(p) = "closed" =>
        /\ circuit[p].failures = streak[p]
        /\ streak[p] < FailureThreshold

\* A half-open circuit has counted no failure and too few successes to close:
\* a late report cannot leave it half-open with its verdict already reached.
HalfOpenUndecided ==
    \A p \in Providers : State(p) = "half-open" =>
        /\ circuit[p].failures = 0
        /\ circuit[p].successes < SuccessThreshold

\* CLOSED -> OPEN -> HALF_OPEN -> CLOSED or OPEN: the only transitions, and
\* the window must be over before an open circuit lets a probe through.
Transitions ==
    [][\A p \in Providers :
          /\ State(p) = "closed" => State(p)' # "half-open"
          /\ State(p) = "open" => State(p)' # "closed"
          /\ State(p) = "open" /\ State(p)' = "half-open" =>
                 circuit[p].elapsed >= RecoveryWindow]_vars

\* A circuit closes again only after SuccessThreshold successes in a row with
\* no failure between them, so no success reported before the circuit opened
\* is counted (CircuitBreakerConfig: "consecutive successes in half-open").
ClosesOnSuccesses ==
    [][\A p \in Providers :
          State(p) = "half-open" /\ State(p)' = "closed" =>
              wins[p]' >= SuccessThreshold]_vars

\* An open circuit does not stay open for ever: late failures of calls that
\* were in flight restart the window, but only finitely many exist, and then
\* the next caller is let through.
OpenLetsAProbeThrough ==
    \A p \in Providers : State(p) = "open" ~> State(p) # "open"

\* CircuitState documents HALF_OPEN as "a single request is allowed through".
SingleProbe ==
    \A p \in Providers :
        \A c1, c2 \in {c \in Callers : calling[c] = p /\ probing[c]} : c1 = c2
=============================================================================
