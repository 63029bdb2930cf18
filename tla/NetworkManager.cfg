SPECIFICATION Spec

CONSTANTS
    MaxEvent = 1
    MaxFault = 2

INVARIANTS RestoredMeansOriginal OkMeansApplied
PROPERTY OthersPreserved
CHECK_DEADLOCK FALSE
