\* Send races Close: a packet put after dropAll has no receiver.
SPECIFICATION Spec
CONSTANTS
    k1 = k1  k2 = k2  w1 = w1
    Workers = {w1}
    NoIP = NoIP
    None = None
    Keys = {k1}
    WorkerOf <- OneClient
    Types = {"OTHER"}
    RealIPs = {"r1"}  FakeIPs = {}  Hosts = {}
    Inputs = {"r1"}
    MaxPackets = 2
    QueueCapacity = 1
    SenderCapacity = 1
    Sniffing = FALSE
INVARIANT NeverStranded
