SPECIFICATION Spec
CONSTANTS
    MaxFetched = 2
    Workers = {w1, w2}
    r1 = r1
    r2 = r2
    r3 = r3
    o1 = o1
    o2 = o2
    Requests = {r1, r2}
    Seeds = {r1}
    Origins = {o1}
    Origin <- OneOrigin
    MaxPerOrigin = 2
    MaxScheduled = 2
    RateLimited = TRUE
    CrawlDelay = TRUE
    FailureMode = "fail-request"
    NoRequest = NoRequest
    MaxRenewals = 0
    MaxFaults = 0
    MaxExtensionFaults = 0
    MaxHookFaults = 0
INVARIANTS
    CancellationIsNotFatal
CHECK_DEADLOCK FALSE
