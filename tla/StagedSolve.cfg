SPECIFICATION FairSpec
CONSTANTS
    Options <- MCOptions
    Regions <- MCRegions
    Bytes <- MCBytes
    BaseBytes = 2
    MaxSolves = 2
INVARIANTS
    SessionValid
    IterationsAccounted
    FactorsFit
PROPERTIES
    CacheLearned
    NothingEvicted
    SolveReturns
CHECK_DEADLOCK FALSE
