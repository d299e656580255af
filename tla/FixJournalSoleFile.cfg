SPECIFICATION Spec
CONSTANTS
    Paths = {1, 2}
    Dirs = {1, 2}
    DirOf <- OwnDirs
    r1 = r1
    r2 = r2
    r3 = r3
    Runs = {r1, r2}
    Texts <- MCTexts
    UserTexts <- MCUserTexts
    Fixed <- MCFixed
    Selections <- Everything
    Missing = Missing
SYMMETRY RunSymmetry
VIEW LiveState
INVARIANTS MissingIsRestored
CHECK_DEADLOCK FALSE
