SPECIFICATION Spec
CONSTANTS
    Path = {a, b}
    Hash = {h1, h2}
    None = None
    TempOf <- TempOfOther
    Worlds <- AnyWorld
SYMMETRY Alike
INVARIANTS
    TypeOK
    UndisturbedObjects
    StagedHasObject
    RemovalIsDeliberate
    AddAllSettlesStatus
PROPERTIES
    
    PullGivesAVersion
