SPECIFICATION Spec
CONSTANTS
    c1 = c1
    c2 = c2
    c3 = c3
    k1 = k1
    k2 = k2
    k3 = k3
    n1 = n1
    NoId = NoId
    CommentId = CommentId
    NoKeys = NoKeys
    NoKey = NoKey
    NoNonce = NoNonce
    DeviceIds <- MCDeviceIds
    WrittenLines <- MCWrittenLines
    JoinedIds = {}
    Keys = {k1, k2, k3}
    DefaultIds <- MCDefaultIds
    DefaultKeys <- MCDefaultKeys
    Faults = {"open"}
    Conns <- MCTwoConns
    Nonces = {n1}
    Window = 1
    MaxTime = 1
    Identities <- MCNamesakes
    Messages <- MCSessionMessages
    Digests = {TRUE}
    SendRoom = 1
    MaxSends = 2
    MaxStarts = 2
INVARIANTS
    SessionImpliesTrusted
PROPERTIES
    ImplementsTrustedSessions
CHECK_DEADLOCK FALSE
