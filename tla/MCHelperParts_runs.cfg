\* A caption call and a GitHub call of two commands, over two process ids; and
\* the extractors' own parts.
SPECIFICATION PartsSpec
CONSTANTS
    Captions = {y1}
    GitHub = {g1}
    Pids = {p1, p2}
    NoPid = NoPid
    Workers <- MCWorkers
    NoWorker = NoWorker
    MaxRuns = 2
    MaxTimers = 2
    Procs = {p, q}
    Names = {d, e, f}
    NoName = none
    Commands = 3
    Timeout = 2
    Stale = 6
    Texts <- MCTexts
    Extensions <- MCExtensions
    MaxStart = 2
    MaxEnd = 2
    MaxCues = 3
    Links = {u, v, w}
    Unusable = unusable
    Relations = {r, s}
    MaxLinks = 2
    MaxElements = 4
INVARIANTS
    RemovedAfterClose
    KillsOnlyItsOwn
    LiveDirectoriesStay
    TranscriptIsFaithful
    LinksFollowThePage
PROPERTIES
    AbortedReturnsNothing
    FirstErrorStands
SYMMETRY PidSymmetry
CHECK_DEADLOCK FALSE
