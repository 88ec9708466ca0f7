CONSTANTS
    w1 = w1
    i1 = i1
    i2 = i2
    m1 = m1
    m2 = m2
    Worker = {w1}
    ItemId = {i1, i2}
    MemberId = {m1, m2}
    MaxOrder = 2
    IntMax = 15
    NULL = NULL
    Cmds <- MCCmds
    CatalogRows <- MCCatalogRows
SPECIFICATION ListingSpec
INVARIANTS ListingTypeOK ListedOrdersAreWhole
PROPERTIES ListingsAdvance
