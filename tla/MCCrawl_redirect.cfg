\* An allowed page that redirects to one robots.txt refuses.
SPECIFICATION Spec
CONSTANTS
    r = r
    a = a
    b = b
    c = c
    e = e
    p = p
    x = x
    o1 = o1
    o2 = o2
    Urls = {r, a, b, c, e, p, x}
    Origins = {o1, o2}
    OriginOf <- OriginsOf
    Root = r
    InScope = {r, a, b, c, e, p}
    Links <- LinksOf
    Canonical <- CanonicalOf
    Disallowed = {p}
    RobotsRefusals = {}
    DefaultSitemap = x
    DeclaredSitemaps <- Declared
    SitemapOf <- SitemapsOf
    Redirects <- RedirectsToRefused
    Sizes = {1}
    Expansions = {0}
    Modes <- RespectOnly
    MaxDepth = 1
    Limit = 3
    MaxBytes = 9
    MaxConcurrency = 2
    MaxRedirects = 4
    RenderBytes = 3
    RenderRedirects = 1
    SitemapDepth = 1
    SitemapDocuments = 2
    SitemapLocations = 3
    NoReason = NoReason
INVARIANTS
    DocumentsAllowed
CHECK_DEADLOCK FALSE
