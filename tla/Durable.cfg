SPECIFICATION Spec
CONSTANTS
    Titles = {"wanted", "other"}
    ExpectedTitle = "wanted"
    TotalAttempts = 3
    MaxAttempts = 2
    OperationSeconds = 4
    AttemptSeconds = 1
    GraceSeconds = 1
    BackoffSeconds <- MCBackoff
    DelaySeconds = 2
    OverrunSeconds = 1
    MaxModelCalls = 3
    MaxToolCalls = 2
    MaxCrashes = 1
    Configs <- MCConfigs
    LiveTurns <- MCLiveTurns
INVARIANTS
    NothingRefused
    ExactlyOnce
    OnlyCurrentWorkerLives
    NothingIsRefunded
    EvaluationIsFinal
    RecordIsTrue
PROPERTIES
    ImplementsToolService
    EventuallyFinalized
