\* Crashes and reloads; three hosts, a range that changes and may keep the stored offset.
SPECIFICATION Spec
CONSTANTS
    h1 = h1  h2 = h2  h3 = h3
    NoIP = NoIP  NoHost = NoHost
    Hosts = {h1, h2, h3}
    Ranges <- Changing
    Events = {"crash", "reload"}
SYMMETRY HostSymmetry
INVARIANT Consistent
PROPERTIES KeepsPromise DurableKept AssignsInRange
