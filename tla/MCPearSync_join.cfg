SPECIFICATION FairSpec
CONSTANTS
    main = main
    peer = peer
    m1 = m1
    p1 = p1
    p2 = p2
    Main = main
    Node = {main, peer}
    Path = {a}
    Hash = {h1}
    None = None
    Proc = {m1, p1}
    At <- OneEach
    Commands <- Joining
    Keep = {1}
    Joined <- NobodyJoined
    MaxSeq = 3
INVARIANTS
    TypeOK
    DeviceIdsStable
    LogPrefix
PROPERTIES
    CommandsEnd
