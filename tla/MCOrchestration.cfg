CONSTANTS
    draft = draft
    review = review
    Workflow <- MCWorkflow
    Values <- MCValues
    None = "none"
    Suspending = {draft}
    GoalStep = review
    Truthy = {"low", "text none"}
    Unresolvable = {"none"}
    BackoffBase = 1
    BackoffMax = 2
    Text <- MCText
    Score <- MCScore
    NotANumber = 0
    Threshold = 2
    MaxRounds = 4
    Agents = {"ann", "bob", "supervisor"}
    Stranger = "stranger"
    Texts = {"yes", "no"}
    MaxHandoffs = 3
    Flows <- AllFlows
    Calls <- MCCalls
    Tolerant = {"again", "deeper", "borrow"}
    KitFlows <- MCKitFlows
    Allowed = {"first kit"}
    Blocked = {"first kit"}
    Scenarios <- MCScenarios
SPECIFICATION FairSpec
INVARIANTS
    VerdictIsOfTheLastRound
    NoAgentLeftAtWork
    OutcomeIsEarned
    ChainFollowsMarkers
    NestingIsBounded
    SkillsArePermitted
PROPERTIES
    LoopsAreBounded
    EveryOrchestrationEnds
CHECK_DEADLOCK FALSE
