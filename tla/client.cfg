SPECIFICATION FairSpec
CONSTANTS
    c1 = c1
    d1 = d1
    k1 = k1
    n1 = n1
    n2 = n2
    NoKey = NoKey
    Clients = {c1}
    Keys = {k1}
    Identities <- MCIdentities
    Nonces = {n1, n2}
    Responses <- MCResponses
    MaxPending = 2
    MaxTexts = 2
INVARIANTS
    TypeOK
    ConversationInOrder
PROPERTIES
    EndsWithoutServer
    WindsDown
CHECK_DEADLOCK FALSE
