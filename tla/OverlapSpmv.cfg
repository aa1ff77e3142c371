SPECIFICATION FairSpec
CONSTANTS
    N = 3
    MaxEpoch = 2
    Plans <- OverlapPlans
INVARIANTS
    DeliveredInEpoch
PROPERTIES
    EveryCallReturns
    ImplementsEpochs
CHECK_DEADLOCK FALSE
