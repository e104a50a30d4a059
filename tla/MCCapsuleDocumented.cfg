CONSTANTS
    Sessions = {s1}
    Images = {base, i1}
    BaseImage = base
    NoImage = NoImage
    Publishes = FALSE
SPECIFICATION Spec
INVARIANTS
    ResetUsesPin
    ResetLeavesRunning
    LimitsEnforced
    NetworkChoiceSticks
