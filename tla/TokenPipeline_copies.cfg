\* Two tokens that look alike, each served and analysed, one of them reported
\* twice and traded; one restart; a third token of their
\* developer is in the table from the start and two of his last tokens are listed.
SPECIFICATION Spec
CONSTANTS
    m1 = m1
    m2 = m2
    m3 = m3
    f1 = f1
    f2 = f2
    s1 = s1
    s2 = s2
    s3 = s3
    k1 = k1
    k2 = k2
    k3 = k3
    d1 = d1
    None = None
    Text <- Texts
    Clean <- CleanTexts
    Mints <- ThreeMints
    Attrs <- Copies
    Communities <- AllCommunities
    Community <- OwnCommunities
    Devs <- OneDev
    Creator <- SameCreator
    FastJobs <- TwoFast
    SlowJobs <- ThreeSlow
    MintOf <- FirstTwice
    OldAth <- OldToken
    FreshCap = 2
    Caps <- HighCap
    Limit = 2
    Faults <- FaultKinds
    MaxBoots = 1
SYMMETRY Reports
INVARIANTS
    TypeOK
    SentAreCached
    RowsAreCached
    OldRowsAreFound
    DevCountsRows
    PerfFits
PROPERTIES
    CopiesDroppedOnceCached
    AthNeverDrops
CHECK_DEADLOCK FALSE
