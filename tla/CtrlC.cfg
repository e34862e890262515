SPECIFICATION ComparisonSpec
CONSTANTS
    Designs <- AllDesigns
INVARIANTS
    InterruptKeepsEvidence
CHECK_DEADLOCK FALSE
