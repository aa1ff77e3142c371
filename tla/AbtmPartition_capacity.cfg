SPECIFICATION Spec2
CONSTANTS
    Inputs <- MCInputs
    Problems <- MCProblems
    Policies <- MCPolicies
    Timings <- MCTimings
INVARIANT CapacityExists
