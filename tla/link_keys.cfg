SPECIFICATION Spec
CONSTANTS
    Handlers = {h1, h2}
    Main = main
    KeyBlockSz = 2
    QllBlockSz = 4
    MaxFiles = 2
    MaxOps = 3
INVARIANTS TypeOK CounterCountsBlocks FreshUnlessRaced ReadExact
PROPERTIES CallEnds
CHECK_DEADLOCK FALSE
