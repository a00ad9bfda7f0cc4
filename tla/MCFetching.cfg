SPECIFICATION FairSpec
CONSTANTS
    r1 = r1
    r2 = r2
    start = start
    page = page
    robots = robots
    moved = moved
    site1 = site1
    NoUrl = NoUrl
    NoOrigin = NoOrigin
    Requests = {r1, r2}
    Urls = {start, page, robots, moved}
    Origins = {site1}
    Start <- Starts2
    IsSeed = {r1}
    OriginOf <- Homes
    RobotsTxt <- RobotsUrls
    Target <- Targets
    Validated = {page}
    Movable = {page}
    open = open
    shut = shut
    Files = {open, shut}
    Fallback = Fallback
    ScopeAllows <- MayVisit
    RobotsAllow <- MayFetch
    SizeOf <- Sizes
    MaxBodyBytes = 100
    MaxVersion = 3
    MaxRetries = 1
    MaxRedirects = 1
    UseStaleOnError = TRUE
    MaxTroubles = 2
    MaxChanges = 1
INVARIANTS
    TypeOK
    RevalidatedBody
    BodiesReleased
    FirstLoadShared
PROPERTIES
    FetchEnds
CHECK_DEADLOCK FALSE
