SPECIFICATION FairSpec
CONSTANTS
    Registrants <- MCRegistrants
    IdModulus = 3
    ReadTimeout = 20
    ReadInterval = 10
    WriteTimeout = 10
    WriteInterval = 5
    MaxRegistrations = 3
    NONE = NONE
    Missing = Missing
    Mistyped = Mistyped
    p1 = p1
    p2 = p2
    s1 = s1
    s2 = s2
INVARIANTS
    TypeOK
    FreshIds
    ReplyMatchesTable
    PipeOwned
PROPERTIES
    SessionNeverRebound
    ActsForOwner
    PipeRemoved
    UnreachableClientTolerated
    SessionSpec
    StopReturns
    ReplyEnds
    
