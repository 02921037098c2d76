SPECIFICATION Spec
CONSTANTS
    me = me
    first = first
    second = second
    Node = {me, first, second}
    Me = me
    Owners <- One
    Unit = {1, 2, 3, 4, 5}
    Right <- Three
    Edited <- Two
    NoFile = NoFile
    ChunkSize = 2
    MaxThreads = 2
    Hardware = 0
    Worlds <- Keeping
INVARIANT FileIsWhole
