SPECIFICATION Spec
CONSTANTS
    AckTimeout = 1
    Duration = 2
    SentMax = 3
    IdleMax = 3
    Slots <- MCSlots
    Linger = 2
    LingerMax = 3
    RetryAge = 0
    Garbage <- MCGarbage
    Faults = {}
    MaxTraffic = 3
PROPERTY DestroyedWhenUnused
CHECK_DEADLOCK FALSE
