SPECIFICATION Spec
CONSTANTS
    Callers = {c1, c2}
    HasFallback = TRUE
    MaxCalls = 2
    None = None
    Copied = Copied
INVARIANTS OwnMessage NobodyForgotten RetriedOnce
PROPERTY Quiesces
CHECK_DEADLOCK FALSE
