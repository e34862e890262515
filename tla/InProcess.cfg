SPECIFICATION Spec
CONSTANTS
    Configs <- MCConfigs
    Titles = {"invoice"}
    Title = "invoice"
    BlankTitle = "blank title"
    ChangedTitle = "changed title"
    LiveCalls <- SomeCalls
    LiveContents <- SomeContents
    MaxModelCalls = 3
    MaxToolCalls = 4
    MaxFailures = 1
INVARIANTS
    RunIsAccepted
    RetriesHold
    SuccessIsTrue
CHECK_DEADLOCK FALSE
