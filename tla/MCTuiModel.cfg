CONSTANTS
    Names = {m1, m2}
    None = None
    Fields = 1
    Lines = {"prompt", "run", "clear", "agents"}
    MaxLines = 2
    MaxKeys = 4
    OthersDo <- MCOthersDo
    MaxOthers = 1
    MaxFailures = 1
SPECIFICATION FairTuiSpec
INVARIANTS
    SelectionIsARow
    QuietListIsCurrent
PROPERTIES
    DeletesAreConfirmed
    SpinnerEnds
CHECK_DEADLOCK FALSE
