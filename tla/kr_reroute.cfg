SPECIFICATION Spec
CONSTANTS
    NoSite = NoSite
    Sites <- MCSites
    Links <- RingLinks
    RouteTables <- RerouteTables
    Sessions = {1, 2}
    Requests <- OppositeRequests
    KeyBlockSz = 2
    BlocksPerFile = 2
    InitFiles = 2
    Growing = {}
    MaxNewFiles = 0
    MaxHops = 5
    MaxReroutes = 2
    MaxRestarts = 1
    MaxLosses = 1
    MaxGiveUps = 0
    DiskFails = FALSE
INVARIANTS PeerCopyFirst
CHECK_DEADLOCK FALSE
