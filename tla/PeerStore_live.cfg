CONSTANTS
    p1 = p1
    p2 = p2
    p3 = p3
    Proc = {p1, p2}
    NoFile = NoFile
    Blank = Blank
    Store <- MCStore
    Mutate <- MCMutate
    Empty = {}
    Legacy = {"a"}
    Missing = Missing
    Corrupt = Corrupt
    StartFiles <- Files
SPECIFICATION FairSpec
INVARIANTS FailureNeedsClobber NoUpdateLost
PROPERTY EveryCallEnds
CHECK_DEADLOCK FALSE
