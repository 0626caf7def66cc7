SPECIFICATION Spec
CONSTANTS
    BufferSize = 1
    RecvWindow = 2
    Writes <- MCWrites
    NetCapacity = 1
    MaxSessions = 2
INVARIANTS TypeOK AckedIsReceived AckKept NoTruncation NoLostSignal
CHECK_DEADLOCK FALSE
