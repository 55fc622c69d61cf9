\* One client, two links, a channel of two, an account that changes; fair.
SPECIFICATION FairSpec
CONSTANTS
    c1 = c1
    c2 = c2
    None = None
    Clients <- OneClient
    Capacity = 2
    Window = 2
    MaxSent = 5
    MaxLinks = 2
    MaxGrants = 1
INVARIANTS
    TypeOK
    NothingLostSilently
    StatusOfThisLink
PROPERTY
    TokensArrive
CHECK_DEADLOCK FALSE
