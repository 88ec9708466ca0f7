CONSTANTS
    c1 = c1
    Category = {c1}
    CategoryRef = {c1}
    NULL = NULL
    IntMax = 15
    MaxItem = 3
    DefaultItemLimit = 1
    MaxItemLimit = 2
    Rows <- MCRows
    Requests <- MCRequests
SPECIFICATION SearchSpec
INVARIANTS SearchTypeOK SteadyWalkIsExact WalkByAgeMissesNothing
CONSTRAINT Claimed
