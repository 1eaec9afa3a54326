SPECIFICATION SessionSpec
CONSTANTS
    ExitCodes = {0}
    Signals = {15}
    MaxFailures = 4
    NoChange = NoChange
    Unrestricted = 0
    Settings <- MCSettings
    Unsupported = {"bandwidth"}
    Completions = {"applied", "restored", "unknown"}
    QueueLimit = 1
    Changes <- MCChanges
    Lines <- AllLines
    MaxLines = 2
    MaxConnections = 1
    MaxInterrupts = 2
    MaxFaults = 0
    SupervisorMayDie = FALSE
INVARIANTS StopsFollowStage UnknownProfileStops HelperNeverRefuses ChangeIsInOnePlace ProfileAgreement NoCommandIsLost AcceptedStopIsKept OutcomeCanBePublished
CHECK_DEADLOCK FALSE
