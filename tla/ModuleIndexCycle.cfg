SPECIFICATION FairSpec
CONSTANTS
    Modules <- TheModules
    Eager <- TheEager
    Kind <- TheKind
    Route <- ShortRoute
    Bases <- TheBases
    Files = {"f1", "f2"}
    Programs <- Across
    ModuleBudget = 4
    QueryBudget = 1
PROPERTY EveryFileJudged
