CONSTANTS
    Callers = {c1, c2, c3}
    Providers = {p1}
    Nobody = Nobody
    FailureThreshold = 2
    SuccessThreshold = 2
    RecoveryWindow = 2
SPECIFICATION FairSpec
INVARIANTS
    ClosedMeansHealthy
PROPERTIES
    Transitions
    ClosesOnSuccesses
    OpenLetsAProbeThrough
CHECK_DEADLOCK FALSE
