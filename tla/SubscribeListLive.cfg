SPECIFICATION LiveSpec
CONSTANTS
    Mod = {m1}
    Fd = {f1, f2}
    NumThreads = 1
    PushTask = PushTask
    MaxGen = 1
    MaxQueue = 2
PROPERTIES
    PushDelivered
CHECK_DEADLOCK FALSE
