SPECIFICATION LiveSpec
CONSTANTS
    NumThreads = 2
    MaxConns = 1
    OtherFds = 0
    FdLimit = 5
    NumClasses = 2
    Size <- MCSize
    Prealloc <- MCPrealloc
    MemLimit = 5
    MaxArrivals = 3
INVARIANTS
    TypeOK
    OneOwner
    PoolBalanced
    LimitsHold
PROPERTIES
    CloseNoticed
CHECK_DEADLOCK FALSE
