\* A 409 whose existing connection does not exist.
SPECIFICATION Spec
CONSTANTS
    root = root
    k1 = k1
    c1 = c1
    c2 = c2
    c3 = c3
    a1 = a1
    None = None
    RootKey = root
    Keys <- OneKey
    Conns <- TwoConns
    Removers <- NoRemover
    Faults <- NoFaults
    MaxUsers = 1
    MaxBoots = 0
PROPERTY
    ConflictNamesAConnection
CHECK_DEADLOCK FALSE
