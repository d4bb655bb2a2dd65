CONSTANTS
    Chunks = {c1}
    Contents = {x}
    Keys = {k1, k2}
    MaxSeed = 0
    MaxRecords = 0
    MaxPlan = 1
    SeedResults <- MCSeedResults
    ToolResults <- MCToolResults
    Plans <- MCPlans
    Projections = {1, 3}
    MaxAgentSteps = 2
    TokenLimit = 6
    ReserveOutput = 2
    MaxToolRetries = 2
    Slack = 1
SPECIFICATION FairChatSpec
INVARIANTS
    BudgetRespected
    CompletionsBounded
    StopReasonTruthful
    NoSessionLeft
    StreamTellsTrace
    StreamEndsWell
PROPERTY RequestEnds
