SPECIFICATION FairSpec
CONSTANTS
    Inputs <- Projects
    ShardCount = 2
    Lines = 3
INVARIANTS ResultIsSerial ErrorsAreNeverSwallowed CacheHoldsSerial ShardStreamsAreReproducible
PROPERTY PipelineEnds
CHECK_DEADLOCK FALSE
