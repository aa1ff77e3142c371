SPECIFICATION DiscoverySpec
CONSTANTS
    Systems <- MCSystems
    Residuals <- MCResiduals
    MaxStages = 2
INVARIANT RegionsSound
CHECK_DEADLOCK FALSE
