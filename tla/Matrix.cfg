SPECIFICATION FairSpec
CONSTANTS
    Plans <- OneOrTwo
    MaxSinks <- MoreAlone
INVARIANTS
    MatrixIsSound
    FindingsAreReal
PROPERTIES
    EventuallyQuiet
CHECK_DEADLOCK FALSE
