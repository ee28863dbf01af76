CONSTANTS
    a = a
    b = b
    c = c
    d = d
    vendor = vendor
    NoStep = NoStep
    NoProvider = NoProvider
    Runs = {r1, r2}
    Steps = {a, b, c, d}
    Workflow <- RecoveryWorkflow
    Conditional = {d}
    Then <- RecoveryThen
    Else <- RecoveryThen
    Strategy <- RecoveryStrategy
    Fallback <- RecoveryFallback
    MaxAttempts <- RecoveryAttempts
    Timed = {c}
    Suspending = {a}
    Providers = {vendor}
    Provider <- RecoveryProvider
    Metered = {a, c}
    Garbling = {}
    StepCost = 1
    DegradeAt = 1
    MaxCostUsd = 2
    HasDelegate = TRUE
    FailureThreshold = 1
    SuccessThreshold = 1
    RecoveryWindow = 1
SPECIFICATION Spec
INVARIANTS
    ErrorsSurface
SYMMETRY RunSymmetry
