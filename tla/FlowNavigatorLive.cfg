SPECIFICATION FairSpec
CONSTANTS
    StepCount = 3
    InitialFlows <- AcyclicFlows
    Contexts <- MCContexts
    Documents <- MCDocuments
    Budgets = {2}
    Fallbacks = {3}
    FlowTimeout = 3
    BackoffCap = 2
    SerdeFeature = FALSE
    MaxElapsed = 4
    MaxCalls = 1
    MaxHistory = 3
PROPERTIES
    AdvanceReturns
    NoLateExecution
CHECK_DEADLOCK FALSE
