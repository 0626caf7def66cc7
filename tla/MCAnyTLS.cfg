SPECIFICATION Spec
CONSTANTS
    Callers = {p1, p2}
    None = None
    MinIdle = 1
    MaxSessions = 2
SYMMETRY Symmetry
INVARIANTS ExclusiveUse ClosedIsForgotten NoneLost ClosedWithClient
PROPERTY MinimumKept
CHECK_DEADLOCK FALSE
