\* Each of the parts may stop anywhere, and does at its bounds.
CHECK_DEADLOCK FALSE
CONSTANTS
    MaxStatements = 5
    MaxBlocks = 4
    MaxEvents = 5
    MaxScopes = 3
    MaxClasses = 4
    MaxFields = 2
    MaxPeculiar = 1
    MaxEntries = 3
    MaxPath = 2
    Approximations = {}
SPECIFICATION Spec
INVARIANTS
    NoFalseResolution FreshBindingResolves GroupsHoverAlike ConstructorsAreGenerated
    WalksAgree SourcesAreFingerprinted
