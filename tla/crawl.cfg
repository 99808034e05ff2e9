SPECIFICATION Spec
CONSTANTS
    c1 = c1
    c2 = c2
    Crawler <- TwoCrawlers
    Version <- Versions
    RespectRobots = TRUE
    TTL = 1
    Timeout = 1
    Delay = 2
    JobTimeout = 2
    MaxPages = 2
    MaxTime = 3
    MaxVersions = 2
SYMMETRY Symmetry
INVARIANTS
    VerdictHasEvidence
    RulesAreRecent
    KeptOutStaysOut
    CrawlIsBounded
CHECK_DEADLOCK FALSE
