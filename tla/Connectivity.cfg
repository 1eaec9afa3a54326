CONSTANTS
    MaxSessions = 3
    Backends = {"nftables", "ufw", "firewalld"}
    Disabling = {"firewalld"}
    MaxFaults = 4
    MaxCrashes = 2
SPECIFICATION CnSpec
INVARIANTS JournalCoversHost RecoveredBeforeUse RecoveryIsPossibleWithoutPolicy
CHECK_DEADLOCK FALSE
