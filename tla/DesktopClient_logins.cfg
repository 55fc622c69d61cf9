\* Two logins with two keys, two tokens; the program may be restarted.
SPECIFICATION FairSpec
CONSTANTS
    k1 = k1
    k2 = k2
    None = None
    Keys <- TwoKeys
    MaxLogins = 2
    MaxSent = 2
    Word = 256
    ParamSet <- ThreeParams
    Curves <- TwoCurves
INVARIANTS
    DecidedOnce
    LoginInv
    BuysWereEnabled
    OrderOfOneConfig
    QuoteAffordable
    OneBuyer
PROPERTY
    LastLoginIsLinked
CHECK_DEADLOCK FALSE
