SPECIFICATION Spec
CONSTANTS
    Workers <- MCWorkers
    MaxCalls = 2
    OneSocket = FALSE
PROPERTY SuccessIsThePeer
CHECK_DEADLOCK FALSE
