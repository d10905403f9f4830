CONSTANTS
    MaxWaiting = 2
    MaxNormalized = 3
    MaxPublished = 4
SPECIFICATION Spec
INVARIANTS
    ResumeAnswers
CHECK_DEADLOCK FALSE
