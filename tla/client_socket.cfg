SPECIFICATION Spec
CONSTANTS
    None = None
    t1 = t1
    t2 = t2
    Transports = {t1, t2}
    Names <- NamesXhr
    MaxAttempts = 1
    Faults = {"handshake", "poll", "post", "websocket"}
    MaxShakes = 1
    MaxDeferred = 1
    MaxTimers = 1
    MaxCalls = 2
    MaxPosts = 1
SYMMETRY TransportSymmetry
VIEW LiveView
INVARIANTS TypeOK Watched AttemptEnds LoopAlive StaysAway
CHECK_DEADLOCK FALSE
