SPECIFICATION FairSpec
CONSTANTS
    AckTimeout = 1
    Duration = 2
    SentMax = 3
    IdleMax = 3
    Slots <- MCSlots
    Linger = 2
    LingerMax = 3
    RetryAge = 0
    Garbage <- MCGarbage
    Faults = {"thread", "parse", "socket", "oom", "execute", "send", "sip"}
    MaxTraffic = 4
INVARIANTS
    TypeOK
    RefsCoverHolders
    CurrentIsAttached
    CallHasTransaction
PROPERTY SilentSessionEnds
CHECK_DEADLOCK FALSE
