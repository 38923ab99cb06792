\* One invoker: what start does to a service that is running.
SPECIFICATION Spec
CONSTANTS
    c1 = c1
    c2 = c2
    Invokers = {c1}
    Settings = {"port", "dataDir"}
    Address = {"port"}
    Choices = {"default", "chosen"}
    Defaults <- AllDefaults
    NoFile = NoFile
    Stopped = Stopped
    Failed = Failed
INVARIANTS
    StartReconfigures
CHECK_DEADLOCK FALSE
