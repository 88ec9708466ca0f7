CONSTANTS
    w1 = w1
    w2 = w2
    c1 = c1
    c2 = c2
    c3 = c3
    Worker = {w1}
    Importer = Importer
    Category = {c1, c2}
    CategoryRef = {c1, c2, c3}
    Malformed = Malformed
    NULL = NULL
    IntMax = 15
    MaxPosts = 0
    MaxItem = 2
    Bodies <- MCBodies
    Files <- FailingFiles
SPECIFICATION Spec
INVARIANTS NoRowsMeansNothingStored
