SPECIFICATION Spec
CONSTANTS
    main = main
    peer = peer
    m1 = m1
    p1 = p1
    p2 = p2
    Main = main
    Node = {main, peer}
    Path = {a}
    Hash = {h1, h2}
    None = None
    Proc = {m1, p1}
    At <- OneEach
    Commands <- Cleaning
    Keep = {1}
    Joined <- BothJoined
    MaxSeq = 5
SYMMETRY HashSymmetry
INVARIANTS
    RowsJustified
    OwnersJustified
    OwnerHasObject
    LatestAvailable
    PeerSeesOwners
    ReleasedBeforeDelete
    VersionsIncrease
