\* Two digital frontends, an analog one and an LNB.
CONSTANTS
    d1 = d1
    d2 = d2
    a1 = a1
    Devices = {d1, d2, a1}
    Analog = {a1}
    Null = Null
    MaxTries = 2
SPECIFICATION Spec
INVARIANTS
    OwnerOnly
    DescriptorsAccounted
    NoLockCycle
PROPERTIES
    AcquireReturns
CHECK_DEADLOCK FALSE
