SPECIFICATION FairSpec
CONSTANTS
    MaxModelCalls = 6
    MaxToolCalls = 6
    MaxBatch = 7
INVARIANTS
    DriverNeverFails
    EndsCleanly
PROPERTIES
    ImplementsBoundaryLoop
    EventuallyQuiet
CHECK_DEADLOCK FALSE
