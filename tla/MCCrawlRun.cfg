SPECIFICATION Spec
CONSTANTS
    MaxFetched = 2
    Workers = {w1, w2}
    r1 = r1
    r2 = r2
    r3 = r3
    o1 = o1
    o2 = o2
    Requests = {r1, r2, r3}
    Seeds = {r1}
    Origins = {o1}
    Origin <- OneOrigin
    MaxPerOrigin = 2
    MaxScheduled = 2
    RateLimited = TRUE
    CrawlDelay = FALSE
    FailureMode = "fail-request"
    NoRequest = NoRequest
    MaxRenewals = 1
    MaxFaults = 1
    MaxExtensionFaults = 1
    MaxHookFaults = 1
INVARIANTS
    TypeOK
    ReservationsBalanced
    FrontierDrained
    OutcomeTold
PROPERTIES
    StopEscalates
CHECK_DEADLOCK FALSE
