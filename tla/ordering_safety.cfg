CONSTANTS
    w1 = w1
    w2 = w2
    i1 = i1
    i2 = i2
    m1 = m1
    Worker = {w1, w2}
    ItemId = {i1, i2}
    MemberId = {m1}
    MaxOrder = 2
    IntMax = 15
    NULL = NULL
    Cmds <- MCCmds
    CatalogRows <- MCCatalogRows
SYMMETRY Symmetry
SPECIFICATION Spec
INVARIANTS TypeOK StockNeverNegative NoPartialOrder AnswerMatchesDatabase NoLeakedTransaction
PROPERTIES OnlyStaleCommitsShiftBalance ImplementsOrderBook
