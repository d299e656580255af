SPECIFICATION Spec
CONSTANTS
    MaxParameters = 3
    MaxArguments = 3
    Unusual = TRUE
    Callees <- AllCallees
    Bases <- AllBases
    Situations <- Calls
    Private <- PrivateNames
INVARIANTS FixKeepsBinding
CHECK_DEADLOCK FALSE
