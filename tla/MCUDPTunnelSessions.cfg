\* Two clients share a worker; one real destination; channel of one packet.
SPECIFICATION Spec
CONSTANTS
    k1 = k1  k2 = k2  w1 = w1
    Workers = {w1}
    NoIP = NoIP
    None = None
    Keys = {k1, k2}
    WorkerOf <- SameWorker
    Types = {"OTHER"}
    RealIPs = {"r1"}  FakeIPs = {}  Hosts = {}
    Inputs = {"r1"}
    MaxPackets = 3
    QueueCapacity = 2
    SenderCapacity = 1
    Sniffing = FALSE
SYMMETRY ClientSymmetry
INVARIANTS SingleOwner LiveIsRegistered OneConnPerKey SentInOrder LocalConnsClosed
