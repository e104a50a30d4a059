CONSTANTS
    MaxActions = 4
    Capacity = 2
    Waits = TRUE
SPECIFICATION FairSpec
INVARIANTS
    SubmittedIsPrefix
PROPERTIES
    AllSubmitted
    ConnectionEnds
CHECK_DEADLOCK FALSE
