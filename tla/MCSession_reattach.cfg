SPECIFICATION SessionSpec
CONSTANTS
    ExitCodes = {}
    Signals = {9}
    MaxFailures = 4
    NoChange = NoChange
    Unrestricted = 0
    Settings <- MCSettings
    Unsupported = {"bandwidth"}
    Completions = {"applied", "unknown"}
    QueueLimit = 1
    Changes <- OneChange
    Lines <- QueueLines
    MaxLines = 3
    MaxConnections = 2
    MaxInterrupts = 0
    MaxFaults = 0
    SupervisorMayDie = FALSE
INVARIANTS SessionTypeOK RepliesInOrder
PROPERTIES EndOfWorkloadEndsSession
CHECK_DEADLOCK FALSE
