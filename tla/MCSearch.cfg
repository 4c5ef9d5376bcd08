CONSTANTS
    p1 = p1
    p2 = p2
    NoCursor = NoCursor
    Garbled = Garbled
    NoPage = NoPage
    MaxSeen = 4
    Unset = Unset
    Providers <- MCProviders
    Offers <- MCOffers
    Searches <- MCSearches
    FirstCursors <- MCFirstCursors
    Product <- MCProduct
    Price <- MCPrice
    Matches <- MCMatches
    Score <- MCScore
    SortValue <- MCSortValue
    NoWorse <- MCNoWorse
SPECIFICATION FairSpec
INVARIANTS
    UnwarnedPagesTile
    CheapestListedOnce
    BestOrderRespectsDominance
PROPERTIES
    TraversalEnds
\* A client stops at the last page.
CHECK_DEADLOCK FALSE
