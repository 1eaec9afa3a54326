CONSTANTS
    MaxSessions = 3
    Backends = {"firewalld"}
    Disabling = {}
    MaxFaults = 2
    MaxCrashes = 2
SPECIFICATION CnSpec
INVARIANTS RecoveryIsPossible
CHECK_DEADLOCK FALSE
