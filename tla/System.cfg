SPECIFICATION SysFairSpec
CHECK_DEADLOCK FALSE
CONSTANTS
    Registrants <- MCRegistrants
    IdModulus = 3
    ReadTimeout = 10
    ReadInterval = 10
    WriteTimeout = 10
    WriteInterval = 5
    MaxRegistrations = 2
    MaxRequests = 2
    MaxStarts = 2
    NONE = NONE
    Missing = Missing
    Mistyped = Mistyped
    Nobody = Nobody
    Path = Path
    Clients = {c1, c2}
    c1 = c1
    c2 = c2
INVARIANTS
    SysTypeOK
    PipeHasOneOwner
    AnswerIsOwn
    ByeMeansGone
PROPERTIES
    BridgeSpec
    InvocationEnds
