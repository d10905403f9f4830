CONSTANTS
    MaxWaiting = 2
    MaxNormalized = 3
    MaxPublished = 4
SPECIFICATION Spec
INVARIANTS
    UnavailableDegrades
CHECK_DEADLOCK FALSE
