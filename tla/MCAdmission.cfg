SPECIFICATION FairSpec
CONSTANTS
    w1 = w1
    w2 = w2
    s1 = s1
    s2 = s2
    home = home
    mapIndex = mapIndex
    map1 = map1
    map2 = map2
    a = a
    b = b
    NoRequest = NoRequest
    Main = Main
    Requests = {home, mapIndex, map1, map2, a, b}
    Workers = {w1, w2}
    Seeds = {s1, s2}
    Bootstrap <- Start
    Content <- Site
    Hooked <- HookCalls
    InScope <- Scope
    Directory <- DirectoryOf
    Pattern <- PatternOf
    SeedQuota <- Quotas
    MaxScheduled = 4
    MaxSitemapFiles = 2
    MaxTotalEntries = 2
    MaxIndexDepth = 1
    MaxPerDirectory = 2
    MaxPerPattern = 1
    EnqueueEntries = TRUE
    Refusable = {b}
    MaxResumes = 1
    MaxFaults = 1
INVARIANTS
    TypeOK
    AccountingExact
    LimitsKept
PROPERTIES
    RunEnds
CHECK_DEADLOCK FALSE
