SPECIFICATION Spec
CONSTANTS
    Ranks <- MCRanks
    Blocks <- MCBlocks
    Bytes <- MCBytes
    Calls <- MCCalls
    ReplayRanks = 2
    MaxSolves = 2
INVARIANTS
    OneRecurrence
    SameKind
    WithinBudget
    ReportHonest
PROPERTIES
    PromotedOnce
CHECK_DEADLOCK FALSE
