CONSTANTS
    Names = {m1, m2}
    None = None
    Torn = Torn
    Sessions = {s1}
    CommandLine = cli
    MaxOps = 2
    MaxDeaths = 0
    Faults = FALSE
SPECIFICATION Spec
INVARIANTS
    QuietFilesAreWhole
    ActiveIsUsable
CHECK_DEADLOCK FALSE
