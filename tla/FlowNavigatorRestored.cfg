SPECIFICATION Spec
CONSTANTS
    StepCount = 3
    InitialFlows <- AllFlows
    Contexts <- MCContexts
    Documents <- MCDocuments
    Budgets = {1}
    Fallbacks = {2}
    FlowTimeout = 2
    BackoffCap = 2
    SerdeFeature = TRUE
    MaxElapsed = 3
    MaxCalls = 1
    MaxHistory = 3
INVARIANT
    RestoredHandlesFailure
CHECK_DEADLOCK FALSE
