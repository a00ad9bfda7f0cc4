SPECIFICATION FairSpec
CONSTANTS
    MaxFetched = 1
    Workers = {w1, w2}
    r1 = r1
    r2 = r2
    r3 = r3
    o1 = o1
    o2 = o2
    Requests = {r1, r2, r3}
    Seeds = {r1, r2, r3}
    Origins = {o1, o2}
    Origin <- TwoOrigins
    MaxPerOrigin = 1
    MaxScheduled = 3
    RateLimited = FALSE
    CrawlDelay = TRUE
    FailureMode = "fail-request"
    NoRequest = NoRequest
    MaxRenewals = 0
    MaxFaults = 2
    MaxExtensionFaults = 1
    MaxHookFaults = 0
INVARIANTS
    WorkKept
PROPERTIES
    RunEnds
CHECK_DEADLOCK FALSE
