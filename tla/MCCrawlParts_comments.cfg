\* A robots.txt with a comment between an agent and its rules.
SPECIFICATION PartsSpec
CONSTANTS
    r = r
    a = a
    b = b
    c = c
    e = e
    p = p
    x = x
    o1 = o1
    o2 = o2
    Urls = {r, a, b, c, e, p, x}
    Origins = {o1, o2}
    OriginOf <- OriginsOf
    Root = r
    InScope = {r, a, b, c, e, p}
    Links <- LinksOf
    Canonical <- CanonicalOf
    Disallowed = {p}
    RobotsRefusals = {o1, o2}
    DefaultSitemap = x
    DeclaredSitemaps <- Declared
    SitemapOf <- SitemapsOf
    Redirects <- RedirectsOf
    Sizes = {1, 2}
    Expansions = {0, 1}
    Modes <- AllModes
    Separator = "comment"
    Parts = {"robots"}
    Lines <- FileLines
    MaxLines = 5
    Specificity <- FileSpecificity
    Length <- FileLengths
    Matches <- FileMatches
    Paths = {"/a", "/b"}
    Seconds <- FileSeconds
    MaxDelay = 5
    MaxRules = 2
    MaxSitemaps = 1
    Tokens <- FileTokens
    MaxTokens = 8
    MaxStack = 3
    MaxElements = 3
    MaxLocations = 1
    Delays = {0, 2}
    MaxTime = 4
    MaxPages = 2
    DefaultDelay = 1
    MaxDepth = 2
    Limit = 4
    MaxBytes = 8
    MaxConcurrency = 2
    MaxRedirects = 2
    RenderBytes = 3
    RenderRedirects = 1
    SitemapDepth = 1
    SitemapDocuments = 2
    SitemapLocations = 3
    NoReason = NoReason
INVARIANTS
    DisallowIsHonored
CHECK_DEADLOCK FALSE
