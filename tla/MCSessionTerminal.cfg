CONSTANTS
    Starters = {t1}
    Subscribers = {}
    RunCommands = {r1, r2}
    Resets = {z1, z2}
    Plain = {}
    NoAction = NoAction
    Buffer = 1
    MaxOutputs = 1
SPECIFICATION FairSpec
INVARIANTS
    ExecutesInOrder
    NoOrphanShell
PROPERTIES
    AcceptedFinishes
    OldReadersEnd
CHECK_DEADLOCK FALSE
