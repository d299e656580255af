SPECIFICATION Spec
CONSTANTS
    MaxParameters = 2
    MaxArguments = 1
    Unusual = FALSE
    Callees <- AllCallees
    Bases = {"class"}
    Situations <- Calls
    Private <- PrivateNames
INVARIANTS FixLeavesReceiver
CHECK_DEADLOCK FALSE
