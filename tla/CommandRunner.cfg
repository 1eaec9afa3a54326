SPECIFICATION RunnerSpec
CONSTANTS
    ReadsPerCycle = 2
    MaxChatter = 2
    MaxFaults = 2
INVARIANTS NoChildOutlivesCommand
PROPERTIES CommandReturns ImplementsCommand
CHECK_DEADLOCK FALSE
