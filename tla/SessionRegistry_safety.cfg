\* Two upgrade requests, one administrator, two keys: a user removed and re-added.
SPECIFICATION Spec
CONSTANTS
    root = root
    k1 = k1
    c1 = c1
    c2 = c2
    c3 = c3
    a1 = a1
    None = None
    RootKey = root
    Keys <- TwoKeys
    Conns <- TwoConns
    Removers <- OneRemover
    Faults <- AllButVanish
    MaxUsers = 3
    MaxBoots = 1
SYMMETRY Interchangeable
INVARIANTS
    RegistryInv
    OneHolderPerKey
    OneServedUnlessRevoked
PROPERTIES
    LeaseSpec
    OnlyOwnCleanup
CHECK_DEADLOCK FALSE
