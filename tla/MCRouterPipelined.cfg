CONSTANTS
    MaxActions = 2
    Capacity = 2
    Waits = FALSE
SPECIFICATION FairSpec
PROPERTY
    LinesArrive
CHECK_DEADLOCK FALSE
