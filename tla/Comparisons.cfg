SPECIFICATION ComparisonSpec
CONSTANTS
    Designs <- AllDesigns
INVARIANTS
    ComparisonIsSaved
CHECK_DEADLOCK FALSE
