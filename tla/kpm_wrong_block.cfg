SPECIFICATION Spec
CONSTANTS
    t1 = t1
    t2 = t2
    t3 = t3
    b1 = b1
    b2 = b2
    bLost = bLost
    A = A
    B = B
    Local = A
    NoThread = NoThread
    NoBlock = NoBlock
    Threads <- MCThreads2
    Peers <- MCPeers
    PeerBlocks <- MCBlocks2
    Stored <- MCStored
    Indices = {0, 1}
    BlockSz = 2
    FetchOutcomes = {"full"}
    IntMax = 3
    MaxCalls = 3
INVARIANT GetKeyFromSuppliedBlock
CHECK_DEADLOCK FALSE
