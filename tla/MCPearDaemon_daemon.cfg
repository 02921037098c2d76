SPECIFICATION FairSpec
CONSTANTS
    p1 = p1
    p2 = p2
    Proc = {p1, p2}
    Pid = {d1, d2}
    NoFile = NoFile
    NoPid = NoPid
    MaxPolls = 2
    Worlds <- AnyWorld
INVARIANTS
    TypeOK
    OneDaemon
    ErasedIsStopped
    ReportIsTrue
PROPERTIES
    CommandsEnd
    WokenDaemonEnds
