\* Memory of a length that is not a multiple of the page, at an address map picks.
CONSTANTS
    t1 = t1
    t2 = t2
    Threads <- OneThread
    Levels = 4
    Radix = 2
    PageBytes = 2
    KernelBase = 8
    NumFrames = 5
    ReservedFrames = {0, 1}
    MaxTables = 9
    Requests <- UnevenRequests
    MaxMaps = 3
SPECIFICATION Spec
INVARIANT BackedFramesReserved
CHECK_DEADLOCK FALSE
