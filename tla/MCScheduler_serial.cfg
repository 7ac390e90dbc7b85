\* No tick lands inside Schedule: the algorithm itself.
CONSTANTS
    Idle = Idle
    a = a
    b = b
    c = c
    Threads <- OrdinaryThreads
    Parkable = {a, b, c}
    Debuggers = {a, b}
    MaxTries = 2
    MaxDepth = 1
    Null = Null
    Dangling = Dangling
SPECIFICATION FairSpec
INVARIANTS
    TypeOK
    ContextIntegrity
    NoWildJump
    NoGhostRunning
    NoNullDispatch
    GiveUpSound
    SchedulingNotLost
PROPERTIES
    ParkedNeverRuns
    DebuggerFreezes
    ImplementsRoundRobin
    EveryThreadRuns
