\* One response whose own rows exceed the byte bound, and nobody else's.
SPECIFICATION Spec
CONSTANTS
    a1 = a1
    a2 = a2
    p1 = p1
    p2 = p2
    small = small
    medium = medium
    large = large
    Agents = {a1}
    Procs = {p1}
    ProcOf <- OneAgent
    s1 = s1
    s2 = s2
    Sessions = {s1, s2}
    Ids = {large}
    TooLarge = {}
    Ttl = 2
    MaxResponses = 2
    MaxBytes = 4
    LogicalBytes <- OversizedSizes
    MaxTime = 2
    MaxGenerations = 3
    NoSession = NoSession
    NoOperation = NoOperation
    NoContent = NoContent
    NoAnswer = NoAnswer
INVARIANTS
    HandlesLastTheirHour
CHECK_DEADLOCK FALSE
