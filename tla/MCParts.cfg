CONSTANTS
    Tools = {"search"}
    LoopTools = {"search", "unknown"}
    MaxLength = 4
    Rewrites <- MCRewrites
    MaxCalls = 2
    ToolNames = {"get", "put"}
    Registered <- MCRegistered
    AllowedTools <- MCAllowedTools
    Servers = {"files", "lost"}
    Connected = {"files"}
    MaxTime = 3
    MaxSteps = 2
    ModelSteps <- MCModelSteps
    EmptySteps <- MCEmptySteps
    Checks <- MCChecks
    ToolRequests <- MCToolRequests
    PlainCalls <- MCPlainCalls
    Approvals = {r1, r2}
    Levels = {low, high}
    Approvers = {"alice"}
    Loops = {1, 2}
    MaxTicks = 2
    MaxRetries = 1
    MaxLines = 6
    Items = {k1, k2}
    Keys = {a, b}
    Threads = {t1, t2}
    MaxWrites = 3
    MaxStates = 2
    MaxSyncs = 4
    MaxEvents = 3
    McpServers = {1, 2}
    Compositions <- MCCompositions
SPECIFICATION FairSpec
INVARIANTS
    RequestsAreWellFormed
    
    VerdictTellsTheTruth
    StepKeepsItsBudget
    EventsAreWhole
    ChoicesSurviveSyncs
    SavedStatesSurvive
    ChunksInOrder
    EveryClientIsClosed
PROPERTIES
    FirstDecisionStands
    EveryPartEnds
CHECK_DEADLOCK FALSE
