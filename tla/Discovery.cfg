SPECIFICATION FairSpec
CONSTANTS
    Workers <- MCWorkers
    MaxCalls = 3
    OneSocket = TRUE
INVARIANT TypeOK
PROPERTIES
    NeverStale
    SoleCallerIsTold
    ResultStands
    CallReturns
CHECK_DEADLOCK FALSE
