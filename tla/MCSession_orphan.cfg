SPECIFICATION SessionSpec
CONSTANTS
    ExitCodes = {0}
    Signals = {15}
    MaxFailures = 4
    NoChange = NoChange
    Unrestricted = 0
    Settings <- MCSettings
    Unsupported = {"bandwidth"}
    Completions = {"applied", "unknown"}
    QueueLimit = 1
    Changes <- OneChange
    Lines <- StopOnly
    MaxLines = 0
    MaxConnections = 0
    MaxInterrupts = 0
    MaxFaults = 1
    SupervisorMayDie = FALSE
INVARIANTS WorkloadDiesWithHelper
CHECK_DEADLOCK FALSE
