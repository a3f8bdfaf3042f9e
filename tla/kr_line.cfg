SPECIFICATION Spec
CONSTANTS
    NoSite = NoSite
    Sites <- MCSites
    Links <- LineLinks
    RouteTables <- LineTables
    Sessions = {a, b}
    Requests <- SharedLinkRequests
    KeyBlockSz = 2
    BlocksPerFile = 2
    InitFiles = 1
    Growing = {{1, 2}}
    MaxNewFiles = 2
    MaxHops = 4
    MaxReroutes = 0
    MaxRestarts = 1
    MaxLosses = 0
    MaxGiveUps = 1
    DiskFails = FALSE
INVARIANTS TypeOK WholeBlocksAgree FreshUntilRestartOrRace
PROPERTIES ImplementsBlockDelivery
SYMMETRY Symmetry
CHECK_DEADLOCK FALSE
