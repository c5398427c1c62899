CONSTANTS
    m1 = m1
    m2 = m2
    MODELS <- TwoModels
    Offered <- Offers
    Refreshes = {1, 2}
    MaxWrites = 2
    Delegable = {m1}
    MaxRuns = 2
    Chunks <- Split
    MaxFaults = 1
    MARGIN = 10
    UNIT = 7
    MIN_CHARGE = 50
SPECIFICATION FairSpec
INVARIANTS OneRefreshAtATime ServesSomething ReportedIsPublished QuotesAreSound
PROPERTIES CatalogueConverges OfferedWasOnChain PricesNeverGoBack
CHECK_DEADLOCK FALSE
