CONSTANTS
    Producers = {p1, p2}
    Consumers = {c1, c2}
    MaxPuts = 2
SPECIFICATION FairSpec
INVARIANTS
    NoLostWakeup
    CancelWillWake
PROPERTIES
    ImplementsFifo
    AcceptedIsTaken
    CancelledStops
CHECK_DEADLOCK FALSE
