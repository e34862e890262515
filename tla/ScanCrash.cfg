SPECIFICATION Spec
CONSTANTS
    Profiles <- SemanticOnly
    MaxRequests = 2
    MaxSends = 3
    Killable = FALSE
INVARIANTS
    FailureIsRetained
CHECK_DEADLOCK FALSE
