\* One token, nothing fails, and it is never saved.
SPECIFICATION FairSpec
CONSTANTS
    m1 = m1
    m2 = m2
    m3 = m3
    f1 = f1
    f2 = f2
    s1 = s1
    s2 = s2
    s3 = s3
    k1 = k1
    k2 = k2
    k3 = k3
    d1 = d1
    None = None
    Text <- Texts
    Clean <- CleanTexts
    Mints <- OneMint
    Attrs <- Lone
    Communities <- AllCommunities
    Community <- LoneCommunity
    Devs <- OneDev
    Creator <- SameCreator
    FastJobs <- OneFast
    SlowJobs <- OneSlow
    MintOf <- LoneToken
    OldAth <- NoToken
    FreshCap = 2
    Caps <- NoCaps
    Limit = 3
    Faults <- NoFaults
    MaxBoots = 0
PROPERTY
    TokenIsSaved
CHECK_DEADLOCK FALSE
