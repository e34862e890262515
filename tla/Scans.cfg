SPECIFICATION FairSpec
CONSTANTS
    Profiles <- BothProfiles
    MaxRequests = 2
    MaxSends = 3
    Killable = TRUE
INVARIANTS
    ScanIsSound
    NothingOutlivesTheScan
PROPERTIES
    EvidenceIsFinal
    EventuallyQuiet
CHECK_DEADLOCK FALSE
