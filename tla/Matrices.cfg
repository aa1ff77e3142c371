SPECIFICATION Spec2
CONSTANTS
    W = 4
    SparseMax = 1
    DenseMin = 3
    BlockWidth = 3
    P = 23
    Matrices <- MCMatrix
    Layouts <- MCLayouts
    SeedLists <- MCSeedLists
    MaxHops = 2
    MaxUpdates = 2
    Operators <- MCOperators
    Requests <- MCRequests
    CompactMax = 2
    InverseFrom = 5
    MaxApplications = 2
INVARIANTS
    RegionsExact
    FormsAgree
    FactorExact
    AppliedExact
CHECK_DEADLOCK FALSE
