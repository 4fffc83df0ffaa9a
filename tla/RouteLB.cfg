SPECIFICATION LiveSpec
CONSTANTS
    m1 = m1
    m2 = m2
    Mod <- MCMod
    Home <- MCHome
    NumLB = 2
    ObufCap = 1
    MaxQueue = 2
    MaxWire = 2
INVARIANTS
    TypeOK
    PullAccounted
PROPERTIES
    PullEnds
CHECK_DEADLOCK FALSE
