SPECIFICATION SpecModels
CONSTANTS
    MaxClasses = 2
    MaxFields = 2
    MaxPeculiar = 2
    Approximations = {"keyword-only fields"}
INVARIANTS
    ConstructorsAreGenerated
CHECK_DEADLOCK FALSE
