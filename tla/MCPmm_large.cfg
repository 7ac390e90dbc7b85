\* Memory beyond 4GB.
CONSTANTS
    t1 = t1
    t2 = t2
    Threads <- TwoThreads
    MemoryMaps <- LargeMaps
    PageBytes = 2
    WrapPages = 8
    LowPages = 4
    HeapStart = 1
    HeapLimit = 8
    HeapSizes = {1, 3}
    MinAlign = 1
    Requests = {0, 1, 2, 3}
    MaxBusy = 1
    PageLimit = 13
    MaxShares = 1
SPECIFICATION Spec
INVARIANTS
    GrantsExclusive
CHECK_DEADLOCK FALSE
