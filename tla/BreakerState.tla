---------------------------- MODULE BreakerState ----------------------------
(***************************************************************************)
(* The per-provider state of InMemoryCircuitBreaker and the four methods   *)
(* of the ICircuitBreaker port as functions on it.  Every method runs      *)
(* under one lock, so each is a single atomic step wherever it is used.    *)
(*                                                                         *)
(* Time.  The code keeps last_failure_time and compares the time elapsed   *)
(* since then with recovery_window.  The model keeps that elapsed time     *)
(* itself, in ticks, and stops counting at RecoveryWindow: the comparison  *)
(* elapsed >= recovery_window cannot tell later instants apart.            *)
(***************************************************************************)
EXTENDS Naturals

CONSTANTS
    FailureThreshold,   \* CircuitBreakerConfig.failure_threshold
    SuccessThreshold,   \* CircuitBreakerConfig.success_threshold
    RecoveryWindow      \* CircuitBreakerConfig.recovery_window, in ticks

\* InMemoryCircuitBreaker.__init__ raises ValueError outside these ranges.
ASSUME BreakerAssumption ==
    /\ FailureThreshold \in Nat \ {0}
    /\ SuccessThreshold \in Nat \ {0}
    /\ RecoveryWindow \in Nat

CircuitStates == {"closed", "open", "half-open"}

ProviderStates ==
    [state : CircuitStates, failures : Nat, successes : Nat,
     elapsed : 0 .. RecoveryWindow]

\* A provider the breaker has not met behaves like a new record.
Fresh == [state |-> "closed", failures |-> 0, successes |-> 0, elapsed |-> 0]

WindowOver(ps) == ps.elapsed >= RecoveryWindow

\* Mutant: the window is never looked at.
BlocksForEver(ps) == ps.state = "open"

\* What is_open answers: only OPEN within its window blocks a request.
Blocks(ps) == ps.state = "open" /\ ~ WindowOver(ps)

\* is_open also moves OPEN past its window to HALF_OPEN.
Asked(ps) ==
    IF ps.state = "open" /\ WindowOver(ps)
    THEN [ps EXCEPT !.state = "half-open", !.failures = 0, !.successes = 0]
    ELSE ps

AfterFailure(ps) ==
    LET n == ps.failures + 1
    IN  IF ps.state = "half-open"
        THEN [ps EXCEPT !.state = "open", !.failures = n, !.successes = 0,
                        !.elapsed = 0]
        ELSE IF n >= FailureThreshold
        THEN [ps EXCEPT !.state = "open", !.failures = n, !.elapsed = 0]
        ELSE [ps EXCEPT !.failures = n]

\* Mutant: a success of a closed circuit leaves the failures counted.
AfterSuccessKeeps(ps) ==
    IF ps.state # "half-open" THEN ps
    ELSE IF ps.successes + 1 >= SuccessThreshold THEN Fresh
    ELSE [ps EXCEPT !.successes = @ + 1]

\* Mutant: a late success closes an open circuit.
AfterSuccessAnywhere(ps) ==
    IF ps.state = "closed" THEN [ps EXCEPT !.failures = 0] ELSE Fresh

\* Mutant: one success short of the threshold is enough.
AfterSuccessEarly(ps) ==
    IF ps.state # "half-open" THEN [ps EXCEPT !.failures = 0]
    ELSE IF ps.successes + 2 >= SuccessThreshold THEN Fresh
    ELSE [ps EXCEPT !.successes = @ + 1]

AfterSuccess(ps) ==
    LET n == ps.successes + 1
    IN  IF ps.state # "half-open"
        THEN [ps EXCEPT !.failures = 0]
        ELSE IF n >= SuccessThreshold
        THEN [ps EXCEPT !.state = "closed", !.failures = 0, !.successes = 0]
        ELSE [ps EXCEPT !.failures = 0, !.successes = n]

\* One tick of time.monotonic(), seen by a provider whose circuit is open.
Aged(ps) ==
    IF ps.state = "open" /\ ~ WindowOver(ps)
    THEN [ps EXCEPT !.elapsed = @ + 1]
    ELSE ps
=============================================================================
