CONSTANTS
    Starters = {t1, t2}
    Subscribers = {s1}
    RunCommands = {}
    Resets = {}
    Plain = {a1, a2}
    NoAction = NoAction
    Buffer = 4
    MaxOutputs = 0
SPECIFICATION Spec
SYMMETRY Symmetry
INVARIANTS
    OutcomeReachesSubscriber
    StreamWellBracketed
PROPERTIES
    ImplementsSerial
CHECK_DEADLOCK FALSE
