SPECIFICATION CSpec
CONSTANTS
    a = a
    b = b
    Callers <- MCCallers
    Sizes <- MCSizes
    Environments <- MCEnvironments
    MaxCalls = 1
    Matrices <- MCMatrices
    LayoutSizes <- MCLayoutSizes
    Tolerances <- MCTolerances
    Faults <- MCFaults
    MaxUses = 5
SYMMETRY CallerSymmetry
INVARIANTS
    OnePool
    CallsAnswered
CHECK_DEADLOCK FALSE
