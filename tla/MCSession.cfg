SPECIFICATION Spec
CONSTANTS
    Kinds = {"exec", "mcp", "http", "sse", "tcp", "udp", "download", "upload"}
    MaxMsgs = 2
    Cap = 1
    MaxFaults = 2
    None = None
INVARIANTS
    StreamsAreSound
    EndsAreComplete
    TransfersTellTheTruth
PROPERTIES
    ChildrenDie
    SessionsEnd
CHECK_DEADLOCK FALSE
