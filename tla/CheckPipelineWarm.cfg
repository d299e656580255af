SPECIFICATION Spec
CONSTANTS
    Inputs <- Projects
    ShardCount = 2
    Lines = 3
INVARIANT WarmIsCold
CHECK_DEADLOCK FALSE
