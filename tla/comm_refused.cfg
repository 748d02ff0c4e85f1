SPECIFICATION CommSpec
CONSTANTS
    c1 = c1
    c2 = c2
    c3 = c3
    k1 = k1
    k2 = k2
    k3 = k3
    n1 = n1
    NoId = NoId
    CommentId = CommentId
    NoKeys = NoKeys
    NoKey = NoKey
    NoNonce = NoNonce
    DeviceIds <- MCDeviceIds
    WrittenLines <- MCWrittenLines
    JoinedIds = {}
    Keys = {k1, k2, k3}
    DefaultIds <- MCDefaultIds
    DefaultKeys <- MCDefaultKeys
    Faults = {}
    Conns <- MCConns
    Nonces = {n1}
    Window = 1
    MaxTime = 1
    Identities <- MCIdentities
    Messages <- MCMessages
    Digests = {TRUE}
    SendRoom = 1
    MaxSends = 8
    MaxStarts = 1
    MaxTexts = 2
INVARIANTS
    RefusedAsksForRegistration
CHECK_DEADLOCK FALSE
