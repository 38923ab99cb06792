\* fetch_content, at most two URLs at a time, with its helpers and browser calls.
SPECIFICATION FetchSpec
CONSTANTS
    g1 = g1
    y1 = y1
    w1 = w1
    w2 = w2
    w3 = w3
    m1 = m1
    GitHub = {g1}
    Captions = {y1}
    Pages = {w1, w2, w3}
    Malformed = {m1}
    Inputs <- MCInputs
    Concurrency = 2
    Pids = {p1, p2}
    NoPid = NoPid
    Workers <- Grouped
    NoWorker = NoWorker
    MaxRuns = 2
    MaxTimers = 2
INVARIANTS
    FetchTypeOK
    FailsForAReason
    WholeOrNothing
PROPERTIES
    CancelEndsEverything
    HelpersReturn
CHECK_DEADLOCK FALSE
