------------------------ MODULE CircuitBreakerProofs ------------------------
(***************************************************************************)
(* The circuit breaker is correct for any number of callers and providers  *)
(* and any thresholds.                                                     *)
(***************************************************************************)
EXTENDS CircuitBreaker, BreakerStateProofs

\* Saturating counters stay within their bound.
LEMMA UpToType ==
    ASSUME NEW bound \in Nat, NEW n \in 0 .. bound
    PROVE  UpTo(bound, n + 1) \in 0 .. bound
BY DEF UpTo

LEMMA InitType == Init => TypeOK
<1> SUFFICES ASSUME Init PROVE TypeOK
    OBVIOUS
<1>1. circuit \in [Providers -> ProviderStates]
    BY FreshType DEF Init
<1>2. QED
    BY <1>1, BreakerAssumption DEF Init, TypeOK, StreakBound, WinsBound

\* Each action keeps the types.
LEMMA NextType == TypeOK /\ [Next]_vars => TypeOK'
<1> SUFFICES ASSUME TypeOK, [Next]_vars PROVE TypeOK'
    OBVIOUS
<1> USE DEF TypeOK
<1>1. ASSUME NEW c \in Callers, NEW p \in Providers, Admit(c, p)
      PROVE  TypeOK'
    BY <1>1, BreakerTypes DEF Admit
<1>2. ASSUME NEW c \in Callers, Succeed(c)
      PROVE  TypeOK'
    <2>1. calling[c] \in Providers
        BY <1>2 DEF Succeed
    <2>2. circuit' \in [Providers -> ProviderStates]
        BY <1>2, <2>1, AfterSuccessType DEF Succeed
    <2>3. streak' \in [Providers -> 0 .. StreakBound]
        BY <1>2, <2>1, BreakerAssumption DEF Succeed, StreakBound
    <2>4. wins' \in [Providers -> 0 .. WinsBound]
        <3>1. UpTo(WinsBound, wins[calling[c]] + 1) \in 0 .. WinsBound
            BY <2>1, UpToType, BreakerAssumption DEF WinsBound
        <3>2. QED
            BY <1>2, <2>1, <3>1 DEF Succeed
    <2>5. QED
        BY <1>2, <2>2, <2>3, <2>4 DEF Succeed, Leave
<1>3. ASSUME NEW c \in Callers, Fail(c)
      PROVE  TypeOK'
    <2>1. calling[c] \in Providers
        BY <1>3 DEF Fail
    <2>2. circuit' \in [Providers -> ProviderStates]
        BY <1>3, <2>1, AfterFailureType DEF Fail
    <2>3. streak' \in [Providers -> 0 .. StreakBound]
        <3>1. UpTo(StreakBound, streak[calling[c]] + 1) \in 0 .. StreakBound
            BY <2>1, UpToType, BreakerAssumption DEF StreakBound
        <3>2. QED
            BY <1>3, <2>1, <3>1 DEF Fail
    <2>4. wins' \in [Providers -> 0 .. WinsBound]
        BY <1>3, <2>1, BreakerAssumption DEF Fail, WinsBound
    <2>5. QED
        BY <1>3, <2>2, <2>3, <2>4 DEF Fail, Leave
<1>4. ASSUME NEW c \in Callers, Abandon(c)
      PROVE  TypeOK'
    BY <1>4 DEF Abandon, Leave
<1>5. CASE Tick
    BY <1>5, BreakerTypes DEF Tick
<1>6. CASE UNCHANGED vars
    BY <1>6 DEF vars
<1>7. QED
    BY <1>1, <1>2, <1>3, <1>4, <1>5, <1>6 DEF Next, Finish

\* Type correctness of the circuit breaker and its callers.
THEOREM TypeCorrect == Spec => []TypeOK
BY InitType, NextType, PTL DEF Spec

-----------------------------------------------------------------------------
(***************************************************************************)
(* The counters of one provider's record, after each method                *)
(***************************************************************************)

\* The part of the two invariants that speaks of one record ps and of the
\* number n of failures since its last success.
Sound(ps, n) ==
    /\ ps.state = "closed" => ps.failures = n /\ n < FailureThreshold
    /\ ps.state = "half-open" => ps.failures = 0 /\ ps.successes < SuccessThreshold

LEMMA SoundAsked ==
    ASSUME NEW ps \in ProviderStates, NEW n, Sound(ps, n)
    PROVE  Sound(Asked(ps), n)
BY BreakerAssumption DEF Sound, Asked, ProviderStates

LEMMA SoundAged ==
    ASSUME NEW ps \in ProviderStates, NEW n, Sound(ps, n)
    PROVE  Sound(Aged(ps), n)
BY DEF Sound, Aged, ProviderStates

LEMMA SoundAfterSuccess ==
    ASSUME NEW ps \in ProviderStates, NEW n, Sound(ps, n)
    PROVE  Sound(AfterSuccess(ps), 0)
<1>1. CASE ps.state # "half-open"
    BY <1>1, BreakerAssumption DEF Sound, AfterSuccess, ProviderStates
<1>2. CASE ps.state = "half-open"
    BY <1>2, BreakerAssumption DEF Sound, AfterSuccess, ProviderStates
<1>3. QED
    BY <1>1, <1>2

LEMMA SoundAfterFailure ==
    ASSUME NEW ps \in ProviderStates, NEW n \in 0 .. StreakBound, Sound(ps, n)
    PROVE  Sound(AfterFailure(ps), UpTo(StreakBound, n + 1))
<1>1. CASE ps.state = "closed" /\ n + 1 < FailureThreshold
    BY <1>1, BreakerAssumption
       DEF Sound, AfterFailure, ProviderStates, UpTo, StreakBound
<1>2. CASE ps.state = "closed" /\ n + 1 >= FailureThreshold
    BY <1>2, BreakerAssumption DEF Sound, AfterFailure, ProviderStates
<1>3. CASE ps.state # "closed"
    BY <1>3, BreakerAssumption
       DEF Sound, AfterFailure, ProviderStates, CircuitStates
<1>4. QED
    BY <1>1, <1>2, <1>3, BreakerAssumption DEF StreakBound

CountersSound == \A p \in Providers : Sound(circuit[p], streak[p])

LEMMA InitSound == Init => CountersSound
BY BreakerAssumption DEF Init, CountersSound, Sound, Fresh

LEMMA NextSound == TypeOK /\ CountersSound /\ [Next]_vars => CountersSound'
<1> SUFFICES ASSUME TypeOK, CountersSound, [Next]_vars,
                    NEW p \in Providers
             PROVE  Sound(circuit[p], streak[p])'
    BY DEF CountersSound
<1>t. /\ circuit \in [Providers -> ProviderStates]
      /\ streak \in [Providers -> 0 .. StreakBound]
      /\ calling \in [Callers -> Providers \cup {Nobody}]
      /\ circuit[p] \in ProviderStates
      /\ streak[p] \in 0 .. StreakBound
      /\ Sound(circuit[p], streak[p])
    BY DEF TypeOK, CountersSound
<1>1. ASSUME NEW c \in Callers, NEW q \in Providers, Admit(c, q)
      PROVE  Sound(circuit'[p], streak'[p])
    BY <1>1, <1>t, SoundAsked DEF Admit
<1>2. ASSUME NEW c \in Callers, Succeed(c)
      PROVE  Sound(circuit'[p], streak'[p])
    BY <1>2, <1>t, SoundAfterSuccess DEF Succeed
<1>3. ASSUME NEW c \in Callers, Fail(c)
      PROVE  Sound(circuit'[p], streak'[p])
    BY <1>3, <1>t, SoundAfterFailure DEF Fail
<1>4. ASSUME NEW c \in Callers, Abandon(c)
      PROVE  Sound(circuit'[p], streak'[p])
    BY <1>4, <1>t DEF Abandon
<1>5. CASE Tick
    BY <1>5, <1>t, SoundAged DEF Tick
<1>6. CASE UNCHANGED vars
    BY <1>6, <1>t DEF vars
<1>7. QED
    BY <1>1, <1>2, <1>3, <1>4, <1>5, <1>6 DEF Next, Finish

LEMMA SoundMeans == CountersSound => ClosedMeansHealthy /\ HalfOpenUndecided
BY DEF CountersSound, Sound, ClosedMeansHealthy, HalfOpenUndecided, State

\* While a circuit is closed its failure count is the number of consecutive
\* failures and is below the threshold, however the reports interleave.
THEOREM ClosedHealthy == Spec => []ClosedMeansHealthy
<1>1. TypeOK /\ CountersSound /\ [Next]_vars => (TypeOK /\ CountersSound)'
    BY NextType, NextSound
<1>2. Init => TypeOK /\ CountersSound
    BY InitType, InitSound
<1>3. QED
    BY <1>1, <1>2, SoundMeans, PTL DEF Spec

\* A half-open circuit has neither failed nor succeeded often enough.
THEOREM HalfOpenIsUndecided == Spec => []HalfOpenUndecided
<1>1. TypeOK /\ CountersSound /\ [Next]_vars => (TypeOK /\ CountersSound)'
    BY NextType, NextSound
<1>2. Init => TypeOK /\ CountersSound
    BY InitType, InitSound
<1>3. QED
    BY <1>1, <1>2, SoundMeans, PTL DEF Spec

-----------------------------------------------------------------------------
(***************************************************************************)
(* What one step may do to a circuit                                       *)
(***************************************************************************)

Legal(ps, after) ==
    /\ ps.state = "closed" => after.state # "half-open"
    /\ ps.state = "open" => after.state # "closed"
    /\ ps.state = "open" /\ after.state = "half-open" =>
           ps.elapsed >= RecoveryWindow

LEMMA LegalMethods ==
    ASSUME NEW ps \in ProviderStates
    PROVE  /\ Legal(ps, ps)
           /\ Legal(ps, Asked(ps))
           /\ Legal(ps, AfterFailure(ps))
           /\ Legal(ps, AfterSuccess(ps))
           /\ Legal(ps, Aged(ps))
<1>1. Legal(ps, ps)
    BY DEF Legal, ProviderStates, CircuitStates
<1>2. Legal(ps, Asked(ps))
    BY DEF Legal, Asked, WindowOver, ProviderStates, CircuitStates
<1>3. Legal(ps, AfterFailure(ps))
    BY DEF Legal, AfterFailure, ProviderStates, CircuitStates
<1>4. Legal(ps, AfterSuccess(ps))
    BY DEF Legal, AfterSuccess, ProviderStates, CircuitStates
<1>5. Legal(ps, Aged(ps))
    BY DEF Legal, Aged, ProviderStates, CircuitStates
<1>6. QED
    BY <1>1, <1>2, <1>3, <1>4, <1>5

LEMMA NextLegal ==
    ASSUME TypeOK, [Next]_vars, NEW p \in Providers
    PROVE  Legal(circuit[p], circuit'[p])
<1>t. /\ circuit \in [Providers -> ProviderStates]
      /\ circuit[p] \in ProviderStates
      /\ calling \in [Callers -> Providers \cup {Nobody}]
    BY DEF TypeOK
<1>1. ASSUME NEW c \in Callers, NEW q \in Providers, Admit(c, q)
      PROVE  Legal(circuit[p], circuit'[p])
    BY <1>1, <1>t, LegalMethods DEF Admit
<1>2. ASSUME NEW c \in Callers, Finish(c)
      PROVE  Legal(circuit[p], circuit'[p])
    BY <1>2, <1>t, LegalMethods DEF Finish, Succeed, Fail, Abandon
<1>3. CASE Tick
    BY <1>3, <1>t, LegalMethods DEF Tick
<1>4. CASE UNCHANGED vars
    BY <1>4, <1>t, LegalMethods DEF vars
<1>5. QED
    BY <1>1, <1>2, <1>3, <1>4 DEF Next

\* CLOSED -> OPEN -> HALF_OPEN are the only ways, and only a window that is
\* over lets an open circuit become half-open.
THEOREM LegalTransitions == Spec => Transitions
<1>1. TypeOK /\ [Next]_vars =>
          [\A p \in Providers :
              /\ State(p) = "closed" => State(p)' # "half-open"
              /\ State(p) = "open" => State(p)' # "closed"
              /\ State(p) = "open" /\ State(p)' = "half-open" =>
                     circuit[p].elapsed >= RecoveryWindow]_vars
    BY NextLegal DEF Legal, State
<1>2. QED
    BY <1>1, InitType, NextType, PTL DEF Spec, Transitions

\* The successes a half-open circuit has counted are successes in a row.
Earned(ps, n) == ps.state = "half-open" => ps.successes <= n

WinsCounted == \A p \in Providers : Earned(circuit[p], wins[p])

LEMMA EarnedMethods ==
    ASSUME NEW ps \in ProviderStates, NEW n \in 0 .. WinsBound,
           NEW m, Sound(ps, m), Earned(ps, n)
    PROVE  /\ Earned(Asked(ps), n)
           /\ Earned(AfterFailure(ps), 0)
           /\ Earned(AfterSuccess(ps), UpTo(WinsBound, n + 1))
           /\ Earned(Aged(ps), n)
           /\ ps.state = "half-open" /\ AfterSuccess(ps).state = "closed" =>
                  UpTo(WinsBound, n + 1) >= SuccessThreshold
<1>1. Earned(Asked(ps), n)
    BY DEF Earned, Asked, ProviderStates
<1>2. Earned(AfterFailure(ps), 0)
    BY DEF Earned, AfterFailure, ProviderStates
<1>3. /\ Earned(AfterSuccess(ps), UpTo(WinsBound, n + 1))
      /\ ps.state = "half-open" /\ AfterSuccess(ps).state = "closed" =>
             UpTo(WinsBound, n + 1) >= SuccessThreshold
    <2>1. CASE ps.state # "half-open"
        BY <2>1 DEF Earned, AfterSuccess, ProviderStates
    <2>2. CASE ps.state = "half-open" /\ ps.successes + 1 < SuccessThreshold
        <3>1. AfterSuccess(ps) =
                  [ps EXCEPT !.failures = 0, !.successes = ps.successes + 1]
            BY <2>2, BreakerAssumption DEF AfterSuccess, ProviderStates
        <3>2. /\ AfterSuccess(ps).state = "half-open"
              /\ AfterSuccess(ps).successes = ps.successes + 1
            BY <2>2, <3>1 DEF ProviderStates
        <3>3. ps.successes + 1 <= UpTo(WinsBound, n + 1)
            BY <2>2, BreakerAssumption DEF Earned, UpTo, WinsBound, ProviderStates
        <3>4. QED
            BY <3>2, <3>3 DEF Earned
    <2>3. CASE ps.state = "half-open" /\ ps.successes + 1 >= SuccessThreshold
        <3>1. AfterSuccess(ps).state = "closed"
            BY <2>3, BreakerAssumption DEF AfterSuccess, ProviderStates
        <3>2. UpTo(WinsBound, n + 1) >= SuccessThreshold
            BY <2>3, BreakerAssumption DEF Earned, UpTo, WinsBound, ProviderStates
        <3>3. QED
            BY <3>1, <3>2 DEF Earned
    <2>4. QED
        BY <2>1, <2>2, <2>3, BreakerAssumption DEF ProviderStates
<1>5. Earned(Aged(ps), n)
    BY DEF Earned, Aged, ProviderStates
<1>6. QED
    BY <1>1, <1>2, <1>3, <1>5

LEMMA NextEarned ==
    TypeOK /\ CountersSound /\ WinsCounted /\ [Next]_vars => WinsCounted'
<1> SUFFICES ASSUME TypeOK, CountersSound, WinsCounted, [Next]_vars,
                    NEW p \in Providers
             PROVE  Earned(circuit'[p], wins'[p])
    BY DEF WinsCounted
<1>t. /\ circuit \in [Providers -> ProviderStates]
      /\ wins \in [Providers -> 0 .. WinsBound]
      /\ calling \in [Callers -> Providers \cup {Nobody}]
      /\ circuit[p] \in ProviderStates
      /\ wins[p] \in 0 .. WinsBound
      /\ Sound(circuit[p], streak[p])
      /\ Earned(circuit[p], wins[p])
    BY DEF TypeOK, CountersSound, WinsCounted
<1>1. ASSUME NEW c \in Callers, NEW q \in Providers, Admit(c, q)
      PROVE  Earned(circuit'[p], wins'[p])
    BY <1>1, <1>t, EarnedMethods DEF Admit
<1>2. ASSUME NEW c \in Callers, Succeed(c)
      PROVE  Earned(circuit'[p], wins'[p])
    BY <1>2, <1>t, EarnedMethods DEF Succeed
<1>3. ASSUME NEW c \in Callers, Fail(c)
      PROVE  Earned(circuit'[p], wins'[p])
    BY <1>3, <1>t, EarnedMethods DEF Fail
<1>4. ASSUME NEW c \in Callers, Abandon(c)
      PROVE  Earned(circuit'[p], wins'[p])
    BY <1>4, <1>t DEF Abandon
<1>5. CASE Tick
    BY <1>5, <1>t, EarnedMethods DEF Tick
<1>6. CASE UNCHANGED vars
    BY <1>6, <1>t DEF vars
<1>7. QED
    BY <1>1, <1>2, <1>3, <1>4, <1>5, <1>6 DEF Next, Finish

\* Only a success closes a half-open circuit.
LEMMA ClosingStep ==
    ASSUME TypeOK, CountersSound, WinsCounted, [Next]_vars,
           NEW p \in Providers, State(p) = "half-open", State(p)' = "closed"
    PROVE  wins'[p] >= SuccessThreshold
<1>t. /\ circuit \in [Providers -> ProviderStates]
      /\ wins \in [Providers -> 0 .. WinsBound]
      /\ calling \in [Callers -> Providers \cup {Nobody}]
      /\ circuit[p] \in ProviderStates
      /\ wins[p] \in 0 .. WinsBound
      /\ Sound(circuit[p], streak[p])
      /\ Earned(circuit[p], wins[p])
      /\ circuit[p].state = "half-open"
      /\ circuit'[p].state = "closed"
    BY DEF TypeOK, CountersSound, WinsCounted, State
<1>1. PICK c \in Callers : Succeed(c)
    <2>1. ASSUME NEW c \in Callers, NEW q \in Providers, Admit(c, q)
          PROVE  FALSE
        BY <2>1, <1>t DEF Admit, Asked, ProviderStates
    <2>2. ASSUME NEW c \in Callers, Fail(c)
          PROVE  FALSE
        <3>1. AfterFailure(circuit[p]).state = "open"
            BY <1>t DEF AfterFailure, ProviderStates
        <3>2. QED
            BY <2>2, <1>t, <3>1 DEF Fail
    <2>3. ASSUME NEW c \in Callers, Abandon(c)
          PROVE  FALSE
        BY <2>3, <1>t DEF Abandon
    <2>4. CASE Tick
        BY <2>4, <1>t DEF Tick, Aged, ProviderStates
    <2>5. CASE UNCHANGED vars
        BY <2>5, <1>t DEF vars
    <2>6. QED
        BY <2>1, <2>2, <2>3, <2>4, <2>5 DEF Next, Finish
<1>2. calling[c] = p
    BY <1>1, <1>t DEF Succeed
<1>3. /\ circuit'[p] = AfterSuccess(circuit[p])
      /\ wins'[p] = UpTo(WinsBound, wins[p] + 1)
    BY <1>1, <1>2, <1>t DEF Succeed
<1>4. QED
    BY <1>3, <1>t, EarnedMethods

\* A half-open circuit closes only after SuccessThreshold successes in a row.
THEOREM ClosesAfterSuccesses == Spec => ClosesOnSuccesses
<1>1. Init => TypeOK /\ CountersSound /\ WinsCounted
    <2>1. Init => WinsCounted
        BY BreakerAssumption DEF Init, WinsCounted, Earned, Fresh
    <2>2. QED
        BY <2>1, InitType, InitSound
<1>2. TypeOK /\ CountersSound /\ WinsCounted /\ [Next]_vars =>
          (TypeOK /\ CountersSound /\ WinsCounted)'
    BY NextType, NextSound, NextEarned
<1>3. TypeOK /\ CountersSound /\ WinsCounted /\ [Next]_vars =>
          [\A p \in Providers :
              State(p) = "half-open" /\ State(p)' = "closed" =>
                  wins[p]' >= SuccessThreshold]_vars
    BY ClosingStep
<1>4. QED
    BY <1>1, <1>2, <1>3, PTL DEF Spec, ClosesOnSuccesses
=============================================================================
