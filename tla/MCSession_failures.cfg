SPECIFICATION SessionSpec
CONSTANTS
    ExitCodes = {0}
    Signals = {15}
    MaxFailures = 4
    NoChange = NoChange
    Unrestricted = 0
    Settings <- MCSettings
    Unsupported = {"bandwidth"}
    Completions = {"applied", "unknown"}
    QueueLimit = 1
    Changes <- OneChange
    Lines <- StopOnly
    MaxLines = 1
    MaxConnections = 1
    MaxInterrupts = 1
    MaxFaults = 1
    SupervisorMayDie = TRUE
INVARIANTS CleanSessionIsComplete WorkloadBeforeEnvironment
PROPERTIES EndOfWorkloadEndsSession StopEndsSession LossOfSupervisorEndsHelper ImplementsLifecycle ImplementsContract
CHECK_DEADLOCK FALSE
