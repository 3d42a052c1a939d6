\* Every call in any order, the tuner this device's alone.
CONSTANTS
    MaxRequests = 4
    Ops = {"tune", "scan", "blind"}
    Contended = FALSE
    Restart = TRUE
SPECIFICATION Spec
INVARIANTS
    NoStaleEvent
PROPERTIES
    ContractSpec
CHECK_DEADLOCK FALSE
