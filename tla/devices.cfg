SPECIFICATION Spec
CONSTANTS
    p1 = p1
    p2 = p2
    d1 = d1
    c1 = c1
    c2 = c2
    c3 = c3
    NoId = NoId
    CommentId = CommentId
    NoKeys = NoKeys
    NoKeyFile = NoKeyFile
    DeviceIds <- MCIds
    WrittenLines <- MCWrittenLines
    JoinedIds = {}
    Keys <- MCKeys
    DefaultIds <- MCDefaultIds
    DefaultKeys <- MCDefaultKeys
    Faults = {"open"}
    Programs = {p1, p2}
    Names = {d1}
    IdModulus = 1
    Junk <- MCJunk
    StoreFaults = {"create", "crash"}
    MaxSeconds = 1
    MaxKeys = 3
SYMMETRY MCSymmetry
INVARIANTS
    KeyTypeOK
    NeverMixed
    KeysOutliveTheProgram
    AcceptedUnderOwnId
PROPERTIES
    AcceptedIsNotLockedOut
CHECK_DEADLOCK FALSE
