SPECIFICATION Spec
CONSTANTS
    Path = {a, b}
    Hash = {h1, h2}
    Node = {main, peer}
    None = None
    Device = {1, 2}
    MaxVersion = 3
    MaxLen = 3
SYMMETRY Symmetry
CHECK_DEADLOCK FALSE
INVARIANTS
    BatchIsItsEntries
    ReapplyIsHarmless
    NewEntryIsCurrent
    CleanupIsByRank
    CleanupIsInvisible
