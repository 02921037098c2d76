SPECIFICATION Spec
CONSTANTS
    main = main
    peer = peer
    m1 = m1
    p1 = p1
    p2 = p2
    Main = main
    Node = {main, peer}
    Path = {a, b}
    Hash = {h1}
    None = None
    Proc = {m1, p1}
    At <- OneEach
    Commands <- Publishing
    Keep = {1}
    Joined <- BothJoined
    MaxSeq = 3
PROPERTIES
    PushIsAtomic
