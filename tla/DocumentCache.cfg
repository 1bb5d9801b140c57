SPECIFICATION Spec
CONSTANTS
    Callers = {c1, c2}
    Urls = {u1, u2, u3}
    Ttls = {0, 1, NoTtl}
    NoTtl = NoTtl
    DefaultTtl = 2
    MaxEntries = 2
    MaxFetches = 3
SYMMETRY Symmetries
INVARIANTS
    WithinCapacity
    ServedFresh
PROPERTY LiveEntriesSurvive
CHECK_DEADLOCK FALSE
