CONSTANTS
    Kinds = {"file"}
    FileChunks = 3
    Window = 2
    AckWhen = "window"
    RawChunks = 0
    SubscriberQueue = 1
    StreamQueue = 4
    MaxOpens = 1
SPECIFICATION StreamSpec
INVARIANT DataInOrder
CHECK_DEADLOCK FALSE
