\* Every pair of created tokens over two texts, every query.
SPECIFICATION Spec
CONSTANTS
    None = None
    Text <- BlankTexts
    Clean <- CleanBlank
    Tokens <- Created
    MaxInserted = 2
INVARIANTS
    CacheInv
