CONSTANTS
    Starters = {c1, c2}
    Daemons = {d1, d2, d3}
    NoFile = NoFile
    Stale = Stale
    Polls = 2
    MaxSignals = 2
    MaxFaults = 1
    Kinds = {"kill", "remove", "accept", "spawn"}
SPECIFICATION FairStartUpSpec
INVARIANTS
    ServerIsReachable
PROPERTIES
    RetriesAreServed
