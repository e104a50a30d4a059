CONSTANTS
    Starters = {t1}
    Subscribers = {}
    RunCommands = {}
    Resets = {}
    Plain = {a1}
    NoAction = NoAction
    Buffer = 1
    MaxOutputs = 0
SPECIFICATION FairSpec
PROPERTIES
    QueueIsServed
CHECK_DEADLOCK FALSE
