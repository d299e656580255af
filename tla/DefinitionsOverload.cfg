\* A body may end wherever no suite is open, and does at the bound.
CHECK_DEADLOCK FALSE
CONSTANTS
    MaxStatements = 4
    MaxDepth = 2
    MaxClauses = 2
    Target <- Python312
    Approximations <- Overloads
SPECIFICATION Spec
INVARIANT LiveDefinitionsKept
