SPECIFICATION FairSpec
CONSTANTS
    Plans <- MCPlans
    StudyModes = {"live"}
    BudgetSeconds = 2
    Overrun = 1
    MaxCrashes = 1
INVARIANTS
    ManifestAccepted
    SlotsAreSafe
    TimeIsBounded
    ProbesGateTheStudy
PROPERTIES
    ImplementsSlotLedger
    EventuallyEnded
CHECK_DEADLOCK FALSE
