CONSTANTS
    c1 = c1
    c2 = c2
    c3 = c3
    c4 = c4
    Caller = {c1, c2, c3, c4}
SPECIFICATION FairSpec
PROPERTIES ImplementsLine EveryCallServed
CHECK_DEADLOCK FALSE
