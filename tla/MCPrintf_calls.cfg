CONSTANTS
    Calls <- SomeCalls
    IrqCalls <- Received
    IntBits = 8
    WordBits = 16
    Slot = 4
    WidthDigits = 2
    MaxIrqs = 1
SPECIFICATION Spec
INVARIANTS
    TypeOK
    AsMeant
    TextKept
CHECK_DEADLOCK FALSE
