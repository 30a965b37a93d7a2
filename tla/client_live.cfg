SPECIFICATION FairSpec
CONSTANTS
    None = None
    t1 = t1
    t2 = t2
    Transports = {t1, t2}
    Names <- NamesJsonp
    MaxAttempts = 1
    Faults = {"websocket", "poll"}
    MaxShakes = 1
    MaxDeferred = 0
    MaxTimers = 1
    MaxCalls = 1
    MaxPosts = 0
PROPERTIES ReconnectEnds DeadServerNoticed
CHECK_DEADLOCK FALSE
