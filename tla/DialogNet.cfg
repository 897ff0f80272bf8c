SPECIFICATION FairSpec
CONSTANTS
    AckTimeout = 1
    Duration = 0
    SentMax = 1
    IdleMax = 1
    Ends <- MCEnds
    Peer <- MCPeer
    InviteCodes = {"CALL"}
    InCallCodes = {"ACCEPTED"}
    Capacity <- MCCapacity
INVARIANTS
    TypeOK
    WaitIsArmed
    SilentPeerOnlyAfterBye
PROPERTIES
    ImplementsCallLeg
    InviteSettles
