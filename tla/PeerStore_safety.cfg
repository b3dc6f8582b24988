CONSTANTS
    p1 = p1
    p2 = p2
    p3 = p3
    Proc = {p1, p2, p3}
    NoFile = NoFile
    Blank = Blank
    Store <- MCStore
    Mutate <- MCMutate
    Empty = {}
    Legacy = {"a"}
    Missing = Missing
    Corrupt = Corrupt
    StartFiles <- MCReadable
SPECIFICATION Spec
INVARIANTS NeverTruncated ExclusiveUnlessLiveSteal OwnLockUnlessLiveSteal LockFileIsNotLeftBehind
PROPERTY RegisterUnlessLiveSteal
CHECK_DEADLOCK FALSE
