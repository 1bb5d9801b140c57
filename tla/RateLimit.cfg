SPECIFICATION Spec
CONSTANTS
    Tasks = {t1, t2}
    Limits = {1, 2}
    Window = 3
    TicksPerSecond = 2
    StartTime = 3
    UnsignedInstants = TRUE
    MaxTime = 9
    MaxLog = 3
SYMMETRY TaskSymmetry
INVARIANTS
    TypeOK
    BoundAtDecision
    RetryNotTooLate
CHECK_DEADLOCK FALSE
