CONSTANTS
    Kinds = {"file"}
    FileChunks = 3
    Window = 2
    AckWhen = "chunk"
    RawChunks = 0
    SubscriberQueue = 1
    StreamQueue = 5
    MaxOpens = 1
SPECIFICATION StreamSpec
INVARIANT AckAccepted
CHECK_DEADLOCK FALSE
