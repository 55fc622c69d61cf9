\* Three calls and a keep-alive, a queue of two.
SPECIFICATION FairSpec
CONSTANTS
    d1 = d1
    d2 = d2
    Echo = Echo
    None = None
    Devs <- OneDev
    Capacity = 2
    MaxCalls = 3
    MaxPings = 1
PROPERTY
    BufferingEnds
CHECK_DEADLOCK FALSE
