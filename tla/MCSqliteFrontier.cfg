SPECIFICATION FairSpec
CONSTANTS
    r1 = r1
    r2 = r2
    r3 = r3
    o1 = o1
    o2 = o2
    c1 = c1
    c2 = c2
    Requests = {r1, r2, r3}
    Clients = {c1, c2}
    Origins = {o1, o2}
    Origin <- MCOrigin
    Rank <- MCRank
    Order = "priority"
    LeaseDuration = 1
    MaxQueueSize = 2
    CandidateLimit = 2
    NoRequest = NoRequest
    MaxTime = 3
    MaxCrashes = 1
INVARIANTS
    TypeOK
    SingleHolder
    NoReadyOriginOverlooked
PROPERTIES
    AbandonedWorkRecovered
    ImplementsContract
