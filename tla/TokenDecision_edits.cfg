\* Two tokens of one creator, edits of two filters of the feed and one of the
\* purchases, every start and every end of the program.
SPECIFICATION Spec
CONSTANTS
    c1 = c1
    t1 = t1
    t2 = t2
    None = None
    Creators <- OneCreator
    Tokens <- TwoTokens
    Attr <- Mixed
    ViewEdits <- FeedEdits
    BuyEdits <- PurchaseEdits
INVARIANTS
    FilesInvariant
    ShownFiltersApply
    ShownBuyFiltersApply
    BansHold
    BoughtWhileOn
CHECK_DEADLOCK FALSE
