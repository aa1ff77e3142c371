SPECIFICATION Spec2
CONSTANTS
    Inputs <- MCInputs
    Problems <- MCProblems
    Policies <- MCPolicies
    Timings <- MCTimings
INVARIANTS
    Balanced
    PatternsServed
    SelectionWarranted
PROPERTY CutDecreases
