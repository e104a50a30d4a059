CONSTANTS
    MaxActions = 1
    Capacity = 2
    Waits = TRUE
SPECIFICATION Spec
INVARIANT
    EventsAreStreamed
CHECK_DEADLOCK FALSE
