CONSTANTS
    Nothing = Nothing
    Calls = {c1, c2}
    Bodies = {b1, b2, b3}
    MaxPrice = 2
    CACHE_MAX_ENTRIES = 2
SPECIFICATION QuoteSpec
SYMMETRY QuoteSymmetry
INVARIANTS CacheWithinLimit
PROPERTIES LiveQuoteIsKept
