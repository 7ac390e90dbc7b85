\* One interrupt lands inside a pop.
CONSTANTS
    k = k
    LShift = LShift
    Keys <- TwoKeys
    Unmapped = {LShift}
    Zero = Zero
    QueueMax = 2
    MaxCodes = 3
    MaxPending = 3
    MaxIrqInPop = 1
SPECIFICATION Spec
INVARIANTS
    FifoAlways
CHECK_DEADLOCK FALSE
