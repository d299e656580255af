SPECIFICATION Spec
CONSTANTS
    Files = 2
    Works <- FileWorks
    Groups = {1}
    InFlight = 2
    Attempts = 3
    FixMode = TRUE
    StartFailures = TRUE
INVARIANTS FixesAddUp FatalNeedsTwoBadRequests
CHECK_DEADLOCK FALSE
