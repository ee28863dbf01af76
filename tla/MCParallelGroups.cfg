CONSTANTS
    a = a
    b = b
    c = c
    ka = ka
    kb = kb
    kc = kc
    out = out
    Steps = {a, b, c}
    Workflow <- ThreeSteps
    Keys = {ka, kb, kc, out}
    Id <- ThreeIds
    OutputKey <- SharedOutput
    NoKey = NoKey
    Suspending = {b}
    Limits = {0, 1, 2}
    Parent = Parent
    Absent = Absent
SPECIFICATION FairSpec
INVARIANTS
    LimitRespected
    NoStragglers
    ErrorsCollected
    ResultsReachParent
    WinnerStays
PROPERTY
    StrategyEnds
