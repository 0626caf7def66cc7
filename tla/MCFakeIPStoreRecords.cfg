\* A reload or a crash before the first Shutdown.
SPECIFICATION Spec
CONSTANTS
    h1 = h1  h2 = h2  h3 = h3
    NoIP = NoIP  NoHost = NoHost
    Hosts = {h1, h2}
    Ranges <- Smallest
    Events = {"crash", "reload"}
INVARIANT RecordsKept
