SPECIFICATION SessionSpec
CONSTANTS
    ExitCodes = {0}
    Signals = {15}
    MaxFailures = 4
    NoChange = NoChange
    Unrestricted = 0
    Settings <- MCSettings
    Unsupported = {"bandwidth"}
    Completions = {"applied", "restored", "unknown"}
    QueueLimit = 1
    Changes <- OneChange
    Lines <- SetOnly
    MaxLines = 2
    MaxConnections = 1
    MaxInterrupts = 0
    MaxFaults = 0
    SupervisorMayDie = FALSE
INVARIANTS HealthyConversationIsKept
CHECK_DEADLOCK FALSE
