SPECIFICATION FairSpec
CONSTANTS
    N = 4
    MaxEpoch = 2
    Plans <- ExchangePlans
INVARIANTS
    NoWaitCycle
    MatchedMessages
    GhostsCurrent
    NeighbourSkew
PROPERTIES
    EveryCallReturns
    ImplementsEpochs
CHECK_DEADLOCK FALSE
