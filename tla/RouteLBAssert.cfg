SPECIFICATION Spec
CONSTANTS
    m1 = m1
    m2 = m2
    Mod <- MCMod
    Home <- MCHome
    NumLB = 2
    ObufCap = 1
    MaxQueue = 1
    MaxWire = 2
INVARIANTS
    AssertionHolds
CHECK_DEADLOCK FALSE
