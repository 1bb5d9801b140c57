SPECIFICATION Spec
CONSTANTS
    Tasks = {t1, t2}
    Origins = {"shop", "bank"}
    Actions <- SomeActions
    Setups <- TwoSetups
    MaxRequests = 1
    MaxOrigins = 1
    MaxRetries = 1
    MaxResets = 1
SYMMETRY TaskSymmetry
INVARIANTS
    TypeOK
    ConfirmedBeforeSent
    AppliedOncePerCall
    OvershootBounded
    OriginsWithinBudget
CHECK_DEADLOCK FALSE
