CONSTANTS
    w1 = w1
    w2 = w2
    i1 = i1
    i2 = i2
    m1 = m1
    Worker = {w1, w2}
    ItemId = {i1, i2}
    MemberId = {m1}
    MaxOrder = 1
    IntMax = 15
    NULL = NULL
    Cmds <- OppositeCmds
    CatalogRows <- ScarceCatalogRows
SYMMETRY Symmetry
SPECIFICATION Spec
PROPERTIES CancelTransitionsOnce
