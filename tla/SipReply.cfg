SPECIFICATION MCSpec
CONSTANTS
    TextMax = 0
    Interfaces <- MCInterfaces
    NumberTexts <- MCNumberTexts
    IntRange = 16
    MaxPort = 4
    MaxType = 2
    DefaultPort <- MCDefaultPort
    MaxOptions = 0
    Bits = 8
    Clients <- MCClients
    Home4 = 200
    Home6 <- MCHome6
    Group4 = 224
INVARIANT RepliesGoBack
CHECK_DEADLOCK FALSE
