SPECIFICATION Spec
CONSTANTS
    Paths = {1, 2}
    Dirs = {1, 2}
    DirOf <- OwnDirs
    r1 = r1
    r2 = r2
    r3 = r3
    Runs = {r1, r2, r3}
    Texts <- MCTexts
    UserTexts <- MCUserTexts
    Fixed <- MCFixed
    Selections <- Everything
    Missing = Missing
SYMMETRY RunSymmetry
VIEW LiveState
INVARIANTS TypeOK LatestSurvives NoOrphanBackup
PROPERTIES SavedTextOnlyMovesAside CommitIsAtomic
CHECK_DEADLOCK FALSE
