SPECIFICATION FairSpec
CONSTANTS
    Modules <- TheModules
    Eager <- TheEager
    Kind <- TheKind
    Route <- TheRoute
    Bases <- TheBases
    Files = {"f1", "f2"}
    Programs <- Mixed
    ModuleBudget = 3
    QueryBudget = 1
INVARIANTS TypeOK ParsedOnce AnswersAreComplete DecidedIsFinal JudgedAlike
PROPERTY EveryFileJudged
