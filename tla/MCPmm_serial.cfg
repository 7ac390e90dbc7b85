\* Calls do not overlap; memory ends below 4GB; the heap lies below 4MB.
CONSTANTS
    t1 = t1
    t2 = t2
    Threads <- TwoThreads
    MemoryMaps <- AlignedMaps
    PageBytes = 2
    WrapPages = 16
    LowPages = 4
    HeapStart = 1
    HeapLimit = 8
    HeapSizes = {1, 3}
    MinAlign = 1
    Requests = {0, 1, 2, 3}
    MaxBusy = 1
    PageLimit = 13
    MaxShares = 1
SPECIFICATION Spec
INVARIANTS
    TypeOK
    GrantsExclusive
    OnlyFreeMemory
    FirstFit
CHECK_DEADLOCK FALSE
