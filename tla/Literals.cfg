\* A program ends with its operation, or with a display that raises.
CHECK_DEADLOCK FALSE
CONSTANTS
    Names <- MCNames
    Shape <- MCShape
    Elements <- MCElements
    Items <- MCItems
    Keys <- MCKeys
    Fields <- MCFields
    Sides <- MCSides
    MaxItems = 2
    MaxForms = 3
    Approximations <- NoneKnown
    Habits <- NoneKnown
SPECIFICATION Spec
INVARIANTS ResolvedIsEvaluated PlainItemsResolve
