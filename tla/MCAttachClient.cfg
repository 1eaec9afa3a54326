SPECIFICATION Spec
CONSTANTS
    Kinds = {"set", "status", "detach"}
    Outcomes <- MCOutcomes
    Room = 2
    ReadMax = 2
    MaxLines = 2
    MaxFaults = 1
INVARIANTS ReportIsTrue LossMeansNoAnswer ScriptIsCarriedOut
PROPERTIES EndOfInputEndsAttach
CHECK_DEADLOCK FALSE
