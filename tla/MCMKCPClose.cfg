SPECIFICATION FairSpec
CONSTANTS
    BufferSize = 0
    RecvWindow = 1
    Writes <- MCTwoWay
    NetCapacity = 1
    MaxSessions = 1
PROPERTY Terminates
CHECK_DEADLOCK FALSE
