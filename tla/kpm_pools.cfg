SPECIFICATION Spec
CONSTANTS
    t1 = t1
    t2 = t2
    t3 = t3
    b1 = b1
    b2 = b2
    bLost = bLost
    A = A
    B = B
    Local = A
    NoThread = NoThread
    NoBlock = NoBlock
    Threads <- MCThreads3
    Peers <- MCPeers
    PeerBlocks <- MCBlocks1
    Stored <- MCStored
    Indices = {0}
    BlockSz = 1
    FetchOutcomes = {"full", "empty", "throws"}
    IntMax = 3
    MaxCalls = 3
INVARIANTS TypeOK NoKeyIssuedTwice SingleFetcher NoLostWakeup
PROPERTIES CallReturns
CHECK_DEADLOCK FALSE
