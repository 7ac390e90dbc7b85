SPECIFICATION FairSpec
CONSTANTS
    Radix = 8
    MemPages = 32
    LowPages = 1
    AwdPages = 2
    HeapPages = 17
    WindowPages = 32
    VMB = 3968
    QueueMax = 10
    Boots <- OneBoot
    DirtyPages <- FirstTable
PROPERTY
    BootableBoots
CHECK_DEADLOCK FALSE
