\* Two agents in two processes over one database.
SPECIFICATION Spec
CONSTANTS
    a1 = a1
    a2 = a2
    p1 = p1
    p2 = p2
    small = small
    medium = medium
    large = large
    Agents = {a1, a2}
    Procs = {p1, p2}
    ProcOf <- TwoProcesses
    s1 = s1
    s2 = s2
    Sessions = {s1, s2}
    Ids = {medium, large}
    TooLarge = {}
    Ttl = 1
    MaxResponses = 1
    MaxBytes = 4
    LogicalBytes <- SummedSizes
    MaxTime = 1
    MaxGenerations = 1
    NoSession = NoSession
    NoOperation = NoOperation
    NoContent = NoContent
    NoAnswer = NoAnswer
INVARIANTS
    TypeOK
    TableBounded
    NoSilentLoss
SYMMETRY PairSymmetry
PROPERTIES
    ImplementsHandleStore
CHECK_DEADLOCK FALSE
