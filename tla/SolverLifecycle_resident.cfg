SPECIFICATION Spec
CONSTANTS
    Matrices <- MCMatrices
    Choices <- MCChoices
    Defaults <- MCDefaults
    MaxChanges = 2
INVARIANT ResidentWithoutHybrid
CHECK_DEADLOCK FALSE
