SPECIFICATION Spec
CONSTANTS
    StepCount = 2
    InitialFlows <- ShortFlows
    Contexts <- MCContexts
    Documents <- ShortDocuments
    Budgets = {1}
    Fallbacks = {1}
    FlowTimeout = 3
    BackoffCap = 2
    SerdeFeature = TRUE
    MaxElapsed = 3
    MaxCalls = 1
    MaxHistory = 3
INVARIANTS
    TypeOK
    BoundedExecutions
    HistoryTracksCurrent
    OkLeavesNavigable
    CompletedStepsAreLeft
PROPERTIES
    ReopenedOnlyThroughSkipped
CHECK_DEADLOCK FALSE
