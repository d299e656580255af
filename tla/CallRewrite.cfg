SPECIFICATION Spec
CONSTANTS
    MaxParameters = 3
    MaxArguments = 3
    Unusual = FALSE
    Callees <- AllCallees
    Bases <- AllBases
    Situations <- Calls
    Private <- PrivateNames
INVARIANTS FixKeepsBinding FixIsFinal ReportIsActionable CleanIsStrict TextIsRewritten
CHECK_DEADLOCK FALSE
