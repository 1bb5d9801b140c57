SPECIFICATION Spec
CONSTANTS
    Tasks = {t1}
    Origins = {"shop", "bank"}
    Actions <- SomeActions
    Setups <- DisclosureSetup
    MaxRequests = 1
    MaxOrigins = 1
    MaxRetries = 0
    MaxResets = 0
INVARIANT DeniedIsNotSent
CHECK_DEADLOCK FALSE
