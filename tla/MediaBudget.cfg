SPECIFICATION Spec
CONSTANTS
    Tasks = {t1, t2, t3}
    Sizes = {1, 3}
    MaxFetches = 3
    MaxBandwidth = 5
    MaxDownloads = 6
SYMMETRY TaskSymmetry
PROPERTY ImplementsAllowance
CHECK_DEADLOCK FALSE
