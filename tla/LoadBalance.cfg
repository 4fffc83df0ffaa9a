SPECIFICATION LiveSpec
CONSTANTS
    Host = {h1, h2}
    ProbeNum = 1
    InitSuccCnt = 2
    ErrRate = 50
    SuccRate = 50
    WindowErrRate = 70
    ConErrLimit = 2
    ConSuccLimit = 2
    IdleTimeout = 2
    OverloadTimeout = 2
    JunkTs <- MCJunkTs
    MaxInt = 2
    MaxCalls = 3
    MaxTime = 3
    RetOverload = RetOverload
    NoAnswer = NoAnswer
INVARIANTS
    TypeOK
    QueuesPartition
    NoOverdueSwitch
    AnswerFromRoute
PROPERTIES
    ImplementsTable
    OverloadProbed
    IdleServed
CHECK_DEADLOCK FALSE
