CONSTANTS
    a = a
    b = b
    Executions = {e1}
    Steps = {a, b}
    Plan <- SequentialPlan
    Persistent = TRUE
    Skippable = {b}
    Nesting = {}
    Skipped = Skipped
    NoEvent = NoEvent
    MaxInterruptions = 0
SPECIFICATION Spec
INVARIANT CompletionsAreRecorded
CHECK_DEADLOCK FALSE
