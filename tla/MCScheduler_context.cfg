\* Ticks land inside Schedule.
CONSTANTS
    Idle = Idle
    a = a
    b = b
    c = c
    Threads <- SmallThreads
    Parkable = {}
    Debuggers = {}
    MaxTries = 2
    MaxDepth = 2
    Null = Null
    Dangling = Dangling
SPECIFICATION Spec
INVARIANT ContextIntegrity
CHECK_DEADLOCK FALSE
