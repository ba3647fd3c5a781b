SPECIFICATION FairSpec
CONSTANTS
    Writers = {w1, w2}
    Size <- SmallMessages
    Capacity = 4
    AtomicBlocks = 3
    ReadTimeout = 20
    ReadInterval = 10
    WriteTimeout = 10
    WriteInterval = 5
    w1 = w1
    w2 = w2
INVARIANTS
    TypeOK
    Accounted
    WholeMessages
    FailedWriteInvisible
PROPERTIES
    
    WriteEnds
    ServiceSpec
