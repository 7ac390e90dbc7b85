\* Calls do not overlap; no range ends with the address space.
CONSTANTS
    t1 = t1
    t2 = t2
    Threads <- OneThread
    Levels = 4
    Radix = 2
    PageBytes = 2
    KernelBase = 8
    NumFrames = 5
    ReservedFrames = {0, 1}
    MaxTables = 9
    Requests <- AllRequests
    MaxMaps = 3
SPECIFICATION FairSpec
INVARIANTS
    TypeOK
    MappingsHold
    NoStaleTranslation
    TablesFormTree
PROPERTIES
    ImplementsAddressSpace
    CallsReturn
CHECK_DEADLOCK FALSE
