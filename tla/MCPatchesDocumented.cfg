CONSTANTS
    f1 = f1
    f2 = f2
    x = x
    dotx = dotx
    y = y
    Files = {f1, f2}
    Names = {x, dotx, y}
    FileOf <- MCFileOf
    AgentPatches = {p1}
    ToolEdits = {e1}
    UserEdits = {u1}
    MaxRestarts = 0
SPECIFICATION Spec
SYMMETRY Symmetry
INVARIANTS
    ApplyIsAtomic
    RevertUndoesAgent
PROPERTY
    RevertKeepsUserEdits
CHECK_DEADLOCK FALSE
