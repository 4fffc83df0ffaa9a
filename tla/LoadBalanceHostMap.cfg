SPECIFICATION Spec
CONSTANTS
    Host = {h1, h2}
    ProbeNum = 1
    InitSuccCnt = 2
    ErrRate = 50
    SuccRate = 50
    WindowErrRate = 70
    ConErrLimit = 2
    ConSuccLimit = 2
    IdleTimeout = 2
    OverloadTimeout = 2
    JunkTs <- MCJunkTs
    MaxInt = 2
    MaxCalls = 4
    MaxTime = 3
    RetOverload = RetOverload
    NoAnswer = NoAnswer
INVARIANTS
    HostMapIsRoute
CHECK_DEADLOCK FALSE
