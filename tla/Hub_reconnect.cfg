CONSTANTS
    w1 = w1
    w2 = w2
    s1 = s1
    s2 = s2
    Workspace = {w1, w2}
    Slot = {s1, s2}
    Agent = {"neo"}
    Null = Null
SPECIFICATION FairHubSpec
INVARIANTS OneAttempt ReachableCanBeSent PendingOnlyIfReconnected
PROPERTIES OnlyTheseFalsifyStatus ComesBack
CHECK_DEADLOCK FALSE
