\* Liveness and the removal of NAT entries: one client, two packets.
SPECIFICATION FairSpec
CONSTANTS
    k1 = k1  k2 = k2  w1 = w1
    Workers = {w1}
    NoIP = NoIP
    None = None
    Keys = {k1}
    WorkerOf <- OneClient
    Types = {"INNER", "OTHER"}
    RealIPs = {"r1"}  FakeIPs = {}  Hosts = {}
    Inputs = {"r1", NoIP}
    MaxPackets = 2
    QueueCapacity = 1
    SenderCapacity = 1
    Sniffing = FALSE
PROPERTIES RemovedAfterClose PacketSettled ClosedLeavesTable
