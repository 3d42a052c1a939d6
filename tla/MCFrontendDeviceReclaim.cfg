\* Another frontend takes the tuner at any step.
CONSTANTS
    MaxRequests = 2
    Ops = {"tune", "blind"}
    Contended = TRUE
    Restart = TRUE
SPECIFICATION Spec
INVARIANTS
    NoMissedWakeup
PROPERTIES
    StopAcknowledged
CHECK_DEADLOCK FALSE
