CONSTANTS
    a = a
    b = b
    c = c
    d = d
    vendor = vendor
    NoStep = NoStep
    NoProvider = NoProvider
    Runs = {r1, r2}
    Steps = {a, b, c}
    Workflow <- BranchWorkflow
    Conditional = {a}
    Then <- BranchThen
    Else <- BranchElse
    Strategy <- BranchStrategy
    Fallback <- BranchFallback
    MaxAttempts <- BranchAttempts
    Timed = {b}
    Suspending = {}
    Providers = {vendor}
    Provider <- BranchProvider
    Metered = {a, b}
    Garbling = {}
    StepCost = 1
    DegradeAt = 1
    MaxCostUsd = 2
    HasDelegate = FALSE
    FailureThreshold = 2
    SuccessThreshold = 1
    RecoveryWindow = 1
SPECIFICATION Spec
INVARIANTS
    CompletedStepsAreBilled
