\* Three hosts compete for two cache entries; a reload may change the range.
SPECIFICATION Spec
CONSTANTS
    h1 = h1  h2 = h2  h3 = h3
    Hosts = {h1, h2, h3}
    Ranges <- MCRanges
    Size = 2
    Overlap = {}
INVARIANTS TypeOK LookBackFinds SameOrder
PROPERTIES KeepsPromise AssignsUsable
