SPECIFICATION Spec
CONSTANTS
    Titles <- MCTitles
    OpIds <- MCOpIds
    MaxModelCalls = 3
    MaxToolCalls = 3
    Configs <- MCConfigs
    LiveTurns <- MCLiveTurns
    ShortTTL = 1
    LongTTL = 2
    MaxCrashes = 1
    MaxTime = 2
INVARIANTS
    NothingRefused
    NoUnauthorizedWrite
    GradingAgreesWithAdmission
    ExactlyOnce
    SavedEvaluationIsCurrent
    PoliciesProtect
PROPERTIES
    ImplementsApprovedWrites
    EventuallySettled
