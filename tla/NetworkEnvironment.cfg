CONSTANTS
    MaxFaults = 3
    MaxRival = 2
    Preemptions = {TRUE, FALSE}
SPECIFICATION NeSpec
INVARIANTS CleanReportMeansClean
PROPERTIES UnconfirmedIsFinal OnlyOwnObjectsRemovedAfterSetup
CHECK_DEADLOCK FALSE
