SPECIFICATION LiveSpec
CONSTANTS
    MaxMsgs = 4
    ReqBody <- MCReqBody
    RespBody <- MCRespBody
    HeadLen = 2
    MsgLimit = 1
    CObufCap = 6
    CIbufCap = 4
    SObufCap = 5
    WireCap = 4
    MaxCuts = 1
INVARIANTS
    TypeOK
    RequestsWhole
    AnswersGiven
    EventsMatch
    AbortCauses
PROPERTIES
    RequestAnswered
CHECK_DEADLOCK FALSE
