SPECIFICATION BridgeSpec
CONSTANTS
    RequestData <- MCRequestData
    ReplyData <- MCReplyData
    Window = 1
    MaxFailures = 1
    NoChunk = NoChunk
INVARIANTS
    ByteForByte
    ReplyComplete
PROPERTY BridgeEnds
CHECK_DEADLOCK FALSE
