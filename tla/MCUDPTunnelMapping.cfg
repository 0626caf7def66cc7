\* Destination NAT: a fake IP, a host name and real addresses in one session.
SPECIFICATION Spec
CONSTANTS
    k1 = k1  k2 = k2  w1 = w1
    Workers = {w1}
    NoIP = NoIP
    None = None
    Keys = {k1}
    WorkerOf <- OneClient
    Types = {"OTHER"}
    RealIPs = {"r1", "r2"}  FakeIPs = {"f1"}  Hosts = {"h1"}
    Inputs = {"r1", "f1", "h1"}
    MaxPackets = 2
    QueueCapacity = 2
    SenderCapacity = 2
    Sniffing = TRUE
INVARIANTS ReplyShowsOrigin SessionAffinity
