SPECIFICATION Spec
CONSTANTS
    Mod = {m1}
    Fd = {f1, f2}
    NumThreads = 2
    PushTask = PushTask
    MaxGen = 1
    MaxQueue = 2
SYMMETRY MCSymmetry
INVARIANTS
    TypeOK
    BookMatches
    PushTargetsOpen
    UpdateOnItsWay
CHECK_DEADLOCK FALSE
