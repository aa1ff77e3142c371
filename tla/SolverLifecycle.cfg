SPECIFICATION Spec
CONSTANTS
    Matrices <- MCMatrices
    Choices <- MCChoices
    Defaults <- MCDefaults
    MaxChanges = 2
INVARIANTS
    ContextComplete
    SolveSound
PROPERTIES
    GrowthSustained
    SolveReturns
CHECK_DEADLOCK FALSE
