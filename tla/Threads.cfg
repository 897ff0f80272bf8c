SPECIFICATION MCSpec
CONSTANTS
    Callers <- MCCallers
    Workers <- MCWorkers
    MaxStops = 2
    w1 = w1
    w2 = w2
    InviteWorkers <- MCInviteWorkers
    MaxStarts = 3
INVARIANTS
    TypeOK
    AtMostOneDaemon
    FlagHasOwner
    TypesOK
    AllReleasedOnce
    LastRound
    HalvesAreBounded
    LastReceive
PROPERTIES
    JoinWaits
    StopTakesEffect
    StartReturns
    StopEnds
    StartHolds
CHECK_DEADLOCK FALSE
