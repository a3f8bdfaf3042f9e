SPECIFICATION Spec
CONSTANTS
    NoSite = NoSite
    Sites <- MCSites
    Links <- RingLinks
    RouteTables <- RingTables
    Sessions = {1, 2}
    Requests <- OppositeRequests
    KeyBlockSz = 2
    BlocksPerFile = 2
    InitFiles = 2
    Growing = {}
    MaxNewFiles = 0
    MaxHops = 4
    MaxReroutes = 0
    MaxRestarts = 0
    MaxLosses = 0
    MaxGiveUps = 0
    DiskFails = FALSE
INVARIANTS KeyAgreement
CHECK_DEADLOCK FALSE
