SPECIFICATION Spec
CONSTANTS
    NoSite = NoSite
    Sites <- MCSites
    Links <- LineLinks
    RouteTables <- LineTables
    Sessions = {1, 2}
    Requests <- LineRequests
    KeyBlockSz = 2
    BlocksPerFile = 2
    InitFiles = 2
    Growing = {}
    MaxNewFiles = 0
    MaxHops = 4
    MaxReroutes = 0
    MaxRestarts = 1
    MaxLosses = 0
    MaxGiveUps = 0
    DiskFails = FALSE
INVARIANTS FreshBlocks
CHECK_DEADLOCK FALSE
