SPECIFICATION Spec
CONSTANTS
    s1 = s1
    s2 = s2
    s3 = s3
    Null = Null
    Sessions <- MCSessions
    MaxHeld = 2
    MaxRefs = 3
SYMMETRY Symmetry
INVARIANTS
    TypeOK
    ArrayIsSound
    HoldersAreSafe
    SweepMissesNone
    HolesAreReused
