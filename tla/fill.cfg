SPECIFICATION FillSpec
CONSTANTS
    N = 3
    Requested <- ThreeTables
    SelfRefs <- LastSelf
    Chunk = 3
    BatchSize = 1
    Workers = 2
    MaxRowFailures = 2
    MaxZeroRounds = 3
    Modes <- AnyMode
PROPERTIES ImplementsFillContract FillTermination
