SPECIFICATION Spec
CONSTANTS
    p1 = p1
    p2 = p2
    page = page
    same = same
    dom = dom
    map = map
    script = script
    archive = archive
    sitemap = sitemap
    Closer = Closer
    Callers = {p1, p2, page, map, script, archive}
    Pages = {p1, p2, page, map, script, archive}
    Files = {"resources", "links", "pages", "xml", "entries", "errors", "evidence"}
    Contents = {same, dom, sitemap}
    MaxFaults = 0
    MaxConcurrency = 1
    Kind <- KindOf
    Source <- Bodies
    Rendered <- Doms
    HeaderLinks <- InHeader
    Links <- InPage
    Runs <- RunsOf
    Malformed = {archive}
    WantsRender = {p1, p2}
    MaxLinksPerPage = 1
    MaxRenderedPages = 2
    StoreRaw = TRUE
INVARIANTS
    EvidenceShared
CHECK_DEADLOCK FALSE
