SPECIFICATION AckSpec
CONSTANTS
    AckTimeout = 1
    Duration = 2
    SentMax = 3
    IdleMax = 3
    Slots <- MCSlots
    Linger = 2
    LingerMax = 3
    RetryAge = 0
    Garbage <- MCGarbage
    Faults = {}
    MaxTraffic = 3
INVARIANT CallKeepsSession
CHECK_DEADLOCK FALSE
