CONSTANTS
    Paths = {f, g}
    Texts = {a, b}
    Empty = Empty
    NoPath = NoPath
    Contexts = {1, 2}
    MaxLines = 1
    MaxAdded = 1
    MaxEdits = 0
SPECIFICATION DiffSpec
INVARIANTS
    FreshIsApplied
CHECK_DEADLOCK FALSE
