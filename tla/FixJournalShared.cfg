SPECIFICATION Spec
CONSTANTS
    Paths = {1, 2, 3}
    Dirs = {1, 2}
    DirOf <- TwoAndOne
    r1 = r1
    r2 = r2
    r3 = r3
    Runs = {r1, r2}
    Texts <- MCTexts
    UserTexts <- MCUserTexts
    Fixed <- MCFixed
    Selections <- Everything
    Missing = Missing
SYMMETRY RunSymmetry
VIEW LiveState
INVARIANTS SharedIsRestored
CHECK_DEADLOCK FALSE
