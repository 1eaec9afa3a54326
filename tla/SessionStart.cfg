SPECIFICATION StSpec
CONSTANTS
    MaxSessions = 2
    MaxKills = 2
    NoOne = NoOne
INVARIANTS OwnHelperOnly ControlSocketIsOurs LeftoversDoNoHarm
PROPERTIES LoneHelperLeaves StartIsDecided
CHECK_DEADLOCK FALSE
