CONSTANTS
    Patterns = {1, 2}
    Values = {"x", "y"}
    MaxPieces = 2
    MaxMessages = 2
SPECIFICATION Spec
INVARIANT AnswersAreRestored
CHECK_DEADLOCK FALSE
