\* Two processes storing and loading at once: what others can see in between,
\* and that every call comes to an end.  And two processes opening the file.
SPECIFICATION PartsSpec
CONSTANTS
    MaxFailures = 2
    p1 = p1
    p2 = p2
    small = small
    medium = medium
    large = large
    Procs = {p1, p2}
    Scopes = {"own"}
    Ids = {small, medium, large}
    Documents <- DocumentsOf
    Ttl = 2
    MaxResponses = 1
    MaxBytes = 4
    LogicalBytes <- SummedSizes
    MaxTime = 2
    NoProc = NoProc
INVARIANTS
    TypeOK
    CommittedWithinBounds
    WholeResponses
    OpenedIsComplete
PROPERTIES
    ImplementsAtomicTable
    EveryCallReturns
    UnopenableByFailureOnly
    OpensAtLast
CHECK_DEADLOCK FALSE
