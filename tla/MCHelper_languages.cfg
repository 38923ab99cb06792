\* One caption call: what is reported of a video without captions.
SPECIFICATION Spec
CONSTANTS
    Captions = {y1}
    GitHub = {}
    Pids = {p1}
    NoPid = NoPid
    Workers <- MCWorkers
    NoWorker = NoWorker
    MaxRuns = 1
    MaxTimers = 1
PROPERTIES
    NoCaptionsIsReported
CHECK_DEADLOCK FALSE
