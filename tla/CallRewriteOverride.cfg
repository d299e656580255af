SPECIFICATION Spec
CONSTANTS
    MaxParameters = 2
    MaxArguments = 1
    Unusual = FALSE
    Callees <- AllCallees
    Bases = {"none"}
    Situations <- Calls
    Private <- PrivateNames
INVARIANTS FixSeesOverrides
CHECK_DEADLOCK FALSE
