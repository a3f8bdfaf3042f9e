SPECIFICATION Spec
CONSTANTS
    Threads = {t1, t2}
    N = 4
    Self = 2
    Graphs <- SomeGraphs
    Unknown = Unknown
    IntMax = 5
    MaxCalls = 3
INVARIANTS TypeOK ShortestWhenAlone NextHopNotSelf
PROPERTIES CallEnds
CHECK_DEADLOCK FALSE
