SPECIFICATION LiveSpec
CONSTANTS
    Mod = {m1}
    Request = {q1, q2}
    WaitTime = 2
    MaxTime = 1
    MaxGen = 1
    MaxRows = 2
INVARIANTS
    TypeOK
    WriteOnItsWay
    RowsLoaded
PROPERTIES
    TableNeverOlder
    TableCatchesUp
CHECK_DEADLOCK FALSE
