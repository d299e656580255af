SPECIFICATION Spec
CONSTANTS
    Files = 1
    Works <- HalfDeadGroup
    Groups = {1}
    InFlight = 1
    Attempts = 3
    FixMode = FALSE
    StartFailures = FALSE
INVARIANTS LiveMembersJudged
CHECK_DEADLOCK FALSE
