SPECIFICATION MCSpec
CONSTANTS
    TextMax = 12
    Interfaces <- MCInterfaces
    NumberTexts <- MCNumberTexts
    IntRange = 16
    MaxPort = 4
    MaxType = 2
    DefaultPort <- MCDefaultPort
    MaxOptions = 4
    Bits = 8
    Clients <- MCClients
    Home4 = 200
    Home6 <- MCHome6
    Group4 = 224
INVARIANTS
    TypesOK
    ParseMatchesForms
    FormsAgree
    ListenWins
    RepliesReachIPv4
    CallsReachDevice
    NetworksMatch
CHECK_DEADLOCK FALSE
