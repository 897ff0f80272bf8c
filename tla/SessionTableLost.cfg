SPECIFICATION Spec
CONSTANTS
    s1 = s1
    s2 = s2
    s3 = s3
    Null = Null
    Sessions <- MCSessions
    MaxHeld = 1
    MaxRefs = 3
PROPERTY OthersStay
