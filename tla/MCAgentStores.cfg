CONSTANTS
    Names = {m1, m2}
    None = None
    Torn = Torn
    Sessions = {s1}
    CommandLine = cli
    MaxOps = 3
    MaxDeaths = 1
    Faults = TRUE
SPECIFICATION Spec
INVARIANTS
    StoresFit
PROPERTIES
    SuccessIsEffective
    OthersAreSpared
CHECK_DEADLOCK FALSE
