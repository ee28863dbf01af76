CONSTANTS
    a = a
    b = b
    Executions = {e1, e2}
    Steps = {a, b}
    Plan <- SequentialPlan
    Persistent = TRUE
    Skippable = {b}
    Nesting = {}
    Skipped = Skipped
    NoEvent = NoEvent
    MaxInterruptions = 2
SPECIFICATION Spec
INVARIANTS
    RunsAccountedFor
    RecordedPrefix
PROPERTY RecordsOnce
SYMMETRY ExecutionSymmetry
CHECK_DEADLOCK FALSE
