SPECIFICATION Spec
CONSTANTS
    i1 = i1
    i2 = i2
    c1 = c1
    c2 = c2
    c3 = c3
    Items <- MCItems
    Calls <- TwoCalls
    NOBODY = NOBODY
    Wanted <- Resolving
CHECK_DEADLOCK FALSE
INVARIANTS AllResolvedMeansCompleted
