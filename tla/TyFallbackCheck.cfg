SPECIFICATION FairSpec
CONSTANTS
    Files = 1
    Works <- CheckWorks
    Groups = {1}
    InFlight = 1
    Attempts = 3
    FixMode = FALSE
    StartFailures = TRUE
INVARIANTS FiledIsExact
PROPERTIES ShardEnds
CHECK_DEADLOCK FALSE
