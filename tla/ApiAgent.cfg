SPECIFICATION LiveSpec
CONSTANTS
    Client = {c1}
    Mod = {m1, m2}
    NumServers = 1
    Index <- MCIndex
    SeqMod = 2
    RegTries = 2
    SockCap = 2
    MaxCalls = 3
    MaxCuts = 2
    None = None
INVARIANTS
    TypeOK
    HostAnswerOwn
    InStep
PROPERTIES
    CallReturns
CHECK_DEADLOCK FALSE
