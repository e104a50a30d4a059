CONSTANTS
    Sessions = {s1}
    Images = {base, i1, i2}
    BaseImage = base
    NoImage = NoImage
    Publishes = TRUE
SPECIFICATION Spec
INVARIANTS
    PinIsPublished
    ResetReplaces
PROPERTIES
    EnsureSettles
    CapsulePersists
