SPECIFICATION NonceSpec
CONSTANTS
    a = a
    b = b
    n1 = n1
    n2 = n2
    Conns <- MCConns
    Nonces <- MCNonces
    Window = 2
    MaxTime = 6
SYMMETRY MCSymmetry
INVARIANTS
    NonceTypeOK
    RecentNoncesRefused
    NoOrphanedNonces
    SilentAreForgotten
CHECK_DEADLOCK FALSE
