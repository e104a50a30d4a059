CONSTANTS
    Starters = {t1}
    Subscribers = {s1}
    RunCommands = {r1, r2}
    Resets = {}
    Plain = {}
    NoAction = NoAction
    Buffer = 4
    MaxOutputs = 0
SPECIFICATION Spec
SYMMETRY Symmetry
INVARIANTS
    StreamComplete
    NeverPanics
CHECK_DEADLOCK FALSE
