SPECIFICATION Spec
CONSTANTS
    c1 = c1
    c2 = c2
    c3 = c3
    piped = piped
    hash = hash
    k1 = k1
    k2 = k2
    k3 = k3
    NoId = NoId
    CommentId = CommentId
    NoKeys = NoKeys
    DeviceIds <- MCPlainIds
    WrittenLines <- MCPlainLines
    JoinedIds = {}
    Keys <- MCKeys
    DefaultIds <- MCDefaultIds
    DefaultKeys <- MCDefaultKeys
    Faults = {}
    MaxLines = 4
INVARIANTS
    DefaultClientsRegistered
