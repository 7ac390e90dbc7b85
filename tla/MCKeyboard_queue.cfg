\* Up to two interrupts land anywhere in a pop; the queue fills up and overflows.
CONSTANTS
    k = k
    LShift = LShift
    Keys <- TwoKeys
    Unmapped = {LShift}
    Zero = Zero
    QueueMax = 2
    MaxCodes = 5
    MaxPending = 4
    MaxIrqInPop = 2
SPECIFICATION FairSpec
INVARIANTS
    TypeOK
    Fifo
    CharsMatchTyping
    OnlySentCodes
PROPERTIES
    EveryCodeRead
CHECK_DEADLOCK FALSE
