SPECIFICATION Spec
CONSTANTS
    Writers = {w1, w2}
    Size <- LargeMessage
    Capacity = 3
    AtomicBlocks = 2
    ReadTimeout = 20
    ReadInterval = 10
    WriteTimeout = 10
    WriteInterval = 5
    w1 = w1
    w2 = w2
INVARIANT NormalReturnIsWhole
