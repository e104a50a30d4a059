CONSTANTS
    Paths = {f}
    Texts = {a, b}
    Empty = Empty
    NoPath = NoPath
    Contexts = {1, 2}
    MaxLines = 4
    MaxAdded = 1
    MaxEdits = 1
SPECIFICATION DiffSpec
INVARIANTS
    MergesOrRefuses
    AcceptedIsReversible
CHECK_DEADLOCK FALSE
