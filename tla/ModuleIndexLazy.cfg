SPECIFICATION Spec
CONSTANTS
    Modules <- TheModules
    Eager <- TheEager
    Kind <- TheKind
    Route <- TheRoute
    Bases <- TheBases
    Files = {"f1", "f2"}
    Programs <- Lazy
    ModuleBudget = 4
    QueryBudget = 1
INVARIANT JudgedAlikeEverywhere
