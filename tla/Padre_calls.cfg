\* Four calls and a keep-alive; the queue of two fills up while the link is down.
SPECIFICATION FairSpec
CONSTANTS
    d1 = d1
    d2 = d2
    Echo = Echo
    None = None
    Devs <- TwoDevs
    Capacity = 2
    MaxCalls = 4
    MaxPings = 1
INVARIANTS
    TypeOK
    AnswersMatch
PROPERTY
    CallsEnd
CHECK_DEADLOCK FALSE
