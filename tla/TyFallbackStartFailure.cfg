SPECIFICATION Spec
CONSTANTS
    Files = 2
    Works <- FileWorks
    Groups = {1}
    InFlight = 1
    Attempts = 3
    FixMode = TRUE
    StartFailures = TRUE
INVARIANTS FiledIsExact
CHECK_DEADLOCK FALSE
