SPECIFICATION Spec
CONSTANTS
    Connections <- MCConnections
    Names = {n1, n2}
    Passwords = {pw}
    ChannelIds <- MCChannelIds
    UIntModulus = 4
    EmptyString = EmptyString
    NotAString = NotAString
    Missing = Missing
    n1 = n1
    n2 = n2
    pw = pw
INVARIANT GivenParameterUsed
