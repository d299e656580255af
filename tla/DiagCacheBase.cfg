SPECIFICATION Spec
CONSTANTS
    a = a b = b
    k1 = k1 k2 = k2
    t1 = t1 t2 = t2
    l1 = l1 l2 = l2
    None = none
    Files = {a, b}
    Checks = {k1, k2}
    Explicit <- Some
    LoadedFirst <- BaseOfA
    Tokens = {t1, t2}
    Layouts = {l1, l2}
    MaxEdits = 2
    MaxChecks = 3
SYMMETRY Alike
INVARIANT HitsAreCurrent
CHECK_DEADLOCK FALSE
