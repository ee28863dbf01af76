------------------------- MODULE BreakerStateProofs -------------------------
(***************************************************************************)
(* Lemmas about the methods of the circuit breaker, cited by the proofs    *)
(* about every module that shares one.                                     *)
(***************************************************************************)
EXTENDS BreakerState, TLAPS

\* A new record is a state of a provider (_ProviderState's defaults).
LEMMA FreshType == Fresh \in ProviderStates
BY BreakerAssumption DEF Fresh, ProviderStates, CircuitStates

\* is_open keeps the type of the record it is asked about.
LEMMA AskedType ==
    ASSUME NEW ps \in ProviderStates
    PROVE  Asked(ps) \in ProviderStates
BY BreakerAssumption DEF Asked, ProviderStates, CircuitStates, WindowOver

\* record_failure keeps the type of the record.
LEMMA AfterFailureType ==
    ASSUME NEW ps \in ProviderStates
    PROVE  AfterFailure(ps) \in ProviderStates
<1>1. 0 \in 0 .. RecoveryWindow
    BY BreakerAssumption
<1>2. ps.failures + 1 \in Nat
    BY DEF ProviderStates
<1>3. QED
    BY <1>1, <1>2 DEF AfterFailure, ProviderStates, CircuitStates

\* record_success keeps the type of the record.
LEMMA AfterSuccessType ==
    ASSUME NEW ps \in ProviderStates
    PROVE  AfterSuccess(ps) \in ProviderStates
<1>1. ps.successes + 1 \in Nat
    BY DEF ProviderStates
<1>2. CASE ps.state # "half-open"
    BY <1>2 DEF AfterSuccess, ProviderStates, CircuitStates
<1>3. CASE ps.state = "half-open"
    BY <1>1, <1>3 DEF AfterSuccess, ProviderStates, CircuitStates
<1>4. QED
    BY <1>2, <1>3

\* The clock stays within the recovery window.
LEMMA AgedType ==
    ASSUME NEW ps \in ProviderStates
    PROVE  Aged(ps) \in ProviderStates
BY BreakerAssumption DEF Aged, WindowOver, ProviderStates, CircuitStates

LEMMA BreakerTypes ==
    ASSUME NEW ps \in ProviderStates
    PROVE  /\ Asked(ps) \in ProviderStates
           /\ AfterFailure(ps) \in ProviderStates
           /\ AfterSuccess(ps) \in ProviderStates
           /\ Aged(ps) \in ProviderStates
BY AskedType, AfterFailureType, AfterSuccessType, AgedType
=============================================================================
