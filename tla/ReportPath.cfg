SPECIFICATION LiveSpec
CONSTANTS
    a1 = a1
    a2 = a2
    Agent = {a1, a2}
    NumThreads = 2
    NumStore = 2
    ObufCap = 1
    MaxReports <- MCMaxReports
    MaxConn <- MCMaxConn
INVARIANTS
    TypeOK
    ReportAccounted
    LaterReportWins
    RoundRobin
PROPERTIES
    ReportSettles
CHECK_DEADLOCK FALSE
