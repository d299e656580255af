SPECIFICATION Spec
CONSTANTS
    Files = 1
    Works <- InstanceClass
    Groups = {1}
    InFlight = 1
    Attempts = 3
    FixMode = TRUE
    StartFailures = FALSE
INVARIANTS FixesAddUp
CHECK_DEADLOCK FALSE
