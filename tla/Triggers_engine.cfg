CONSTANTS
    a1 = a1
    k1 = k1
    k2 = k2
    Task = {k1, k2}
    Agent = {a1}
    Event = {"agent-idle", "agent-wake"}
    Trigger <- MCTrigger
    None = None
    Idle = "agent-idle"
    FeedEvents = {"agent-wake"}
    Matches <- MCMatches
    Once = {"soon", "wake"}
    Timeout <- MCTimeout
    Configured <- MCConfigured
    MaxAge = 2
SPECIFICATION FairSpec
INVARIANTS BusyIffTimed OnlySpentTriggersGo NoLaterFireRepeats
PROPERTY IdleIsNoticed
CHECK_DEADLOCK FALSE
