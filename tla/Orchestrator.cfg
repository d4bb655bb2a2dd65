CONSTANTS
    Chunks = {c1, c2}
    Contents = {x, y}
    Keys = {k1, k2}
    MaxSeed = 1
    MaxRecords = 2
    MaxPlan = 2
    SeedResults <- MCSeedResults
    ToolResults <- MCToolResults
    Plans <- MCPlans
    Projections = {1}
    MaxAgentSteps = 2
    TokenLimit = 1
    ReserveOutput = 0
    MaxToolRetries = 1
    Slack = 0
SYMMETRY Symmetry
SPECIFICATION Spec
INVARIANTS
    TypeOK
    LabelsMeanWhatWasShown
    ToolCallsAnswered
    TraceTellsConversation
    AttemptsBounded
    CitationsHaveSources
    TurnsPair
    ProvidersToldTheSame
PROPERTY ImplementsGroundedAnswer
