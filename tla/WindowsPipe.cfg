SPECIFICATION FairSpec
CONSTANTS
    Writers = {w1, w2}
    Size <- MCSize
    Exact <- MCExact
    ReadTimeout = 20
    ReadInterval = 10
    WriteTimeout = 20
    WriteInterval = 5
    PendingInterval = 10
    NoWriter = NoWriter
    w1 = w1
    w2 = w2
INVARIANTS
    TypeOK
    OneWriterPerRead
    DoneMeansRead
PROPERTIES
    ReadEnds
    WriteEnds
    ServiceSpec
