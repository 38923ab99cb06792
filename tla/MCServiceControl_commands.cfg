\* Two commands at once, killed anywhere, over failing units and new logins.
SPECIFICATION Spec
CONSTANTS
    c1 = c1
    c2 = c2
    Invokers = {c1, c2}
    Settings = {"dataDir"}
    Address = {}
    Choices = {"default", "chosen"}
    Defaults <- AllDefaults
    NoFile = NoFile
    Stopped = Stopped
    Failed = Failed
SYMMETRY Symmetry
INVARIANTS
    TypeOK
    FilesAgree
    RestartReconfigures
CHECK_DEADLOCK FALSE
