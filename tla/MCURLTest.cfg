SPECIFICATION Spec
CONSTANTS
    c1 = c1
    c2 = c2
    Callers = {c1, c2}
    Lists <- MCLists
    TestResults <- MCTestResults
    Tolerance = 50
    Fallback = "fallback"
    None = None
    MaxResets = 2
INVARIANTS FreshResult SingleFlight SelectionTakesEffect CacheCurrent WaitsForRunning
SYMMETRY Symmetric
CHECK_DEADLOCK FALSE
