SPECIFICATION FairSpec
CONSTANTS
    N = 3
    Program <- MCProgram
    Running <- MCRunning
    Causes = {"own data"}
INVARIANTS
    NoRankStranded
    SameVerdict
    NoFailureLost
    NothingInFlight
PROPERTIES
    EveryRankReturns
CHECK_DEADLOCK FALSE
