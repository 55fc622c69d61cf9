SPECIFICATION FairSpec
CONSTANTS
    pump = pump
    jito = jito
    Logs = {pump}
    Shreds = {jito}
    Events <- MCEvents
    MaxEvents = 2
    MaxLinks = 3
INVARIANTS
    FeedsInv
PROPERTIES
    FeedSpec
    LostLinksReplaced
CHECK_DEADLOCK FALSE
