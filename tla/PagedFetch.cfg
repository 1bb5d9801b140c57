SPECIFICATION PagedSpec
CONSTANTS
    Urls = {1, 2, 3}
    Services <- ForwardServices
    Absent = Absent
    MaxPages = 4
    Tasks = {pager, t1, t2}
    Pager = pager
    Threshold = 2
    Cooldown = 2
    MaxRetries = 1
    BaseDelay = 1
    MaxDelay = 3
    Never = Never
INVARIANTS
    TypeOK
    OpenBreakerHolds
    PagesFollowLinks
PROPERTIES
    BreakerReleases
    FetchReturns
    PaginationEnds
