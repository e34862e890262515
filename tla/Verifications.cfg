SPECIFICATION FairSpec
CONSTANTS
    Trees <- SomeTrees
    ClaimSets <- SomeClaims
    MaxWrites = 2
INVARIANTS
    SavedVerdictsAreTrue
    StoppedAgentIsGraded
PROPERTIES
    EventuallyGraded
CHECK_DEADLOCK FALSE
