SPECIFICATION Spec
CONSTANTS
    Registrants <- OneRegistrant
    IdModulus = 2
    ReadTimeout = 20
    ReadInterval = 10
    WriteTimeout = 10
    WriteInterval = 5
    MaxRegistrations = 2
    NONE = NONE
    Missing = Missing
    Mistyped = Mistyped
    p1 = p1
    p2 = p2
    s1 = s1
    s2 = s2
PROPERTY ReaderLossTolerated
