CONSTANTS
    a = a
    b = b
    c = c
    ka = ka
    kb = kb
    kc = kc
    out = out
    Steps = {a, b, c}
    Workflow <- ThreeSteps
    Keys = {ka, kb, kc, out}
    Id <- ThreeIds
    OutputKey <- OutputIsId
    NoKey = NoKey
    Suspending = {a}
    Limits = {2}
    Parent = Parent
    Absent = Absent
SPECIFICATION Spec
INVARIANT NoResultDropped
