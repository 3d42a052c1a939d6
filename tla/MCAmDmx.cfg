\* Two filters and a two-bit mask: the code's ratio of 32 to 32.
CONSTANTS
    FilterCount = 2
    MaskBits = 2
    Refusable = {1}
SPECIFICATION LiveSpec
INVARIANTS
    TableAndKernelAgree
    NoMissedStart
PROPERTIES
    ImplementsFilterTable
    EventuallyServed
    CloseReturns
