SPECIFICATION FairSpec
CONSTANTS
    c1 = c1
    c2 = c2
    c3 = c3
    k1 = k1
    k2 = k2
    k3 = k3
    n1 = n1
    NoId = NoId
    CommentId = CommentId
    NoKeys = NoKeys
    NoKey = NoKey
    NoNonce = NoNonce
    DeviceIds <- MCDeviceIds
    WrittenLines <- MCWrittenLines
    JoinedIds = {}
    Keys = {k1, k2, k3}
    DefaultIds <- MCDefaultIds
    DefaultKeys <- MCDefaultKeys
    Faults = {}
    Conns <- MCTwoConns
    Nonces = {n1}
    Window = 1
    MaxTime = 0
    Identities <- MCNeighbours
    Messages <- MCHandledMessages
    Digests = {FALSE}
    SendRoom = 1
    MaxSends = 3
    MaxStarts = 1
INVARIANTS
    TypeOK
    SessionMapsAgree
    AnnouncedKeyIsSessionKey
    ClosedIsForgotten
    NoOtherStall
    OperationsOnOpenSockets
PROPERTIES
    HangUpIsNoticed
    HangUpsAreWorkedOff
    MessagesAreTaken
CHECK_DEADLOCK FALSE
