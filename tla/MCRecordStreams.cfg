\* Two pids and two slots, and each kind of event on its own.
CONSTANTS
    p1 = p1
    p2 = p2
    t1 = t1
    Pids = {p1, p2}
    Tokens = {t1}
    None = None
    NumSlots = 2
    MaxUse = 2
    MaxChannels = 2
    MaxSessions = 1
    MaxFailures = 1
    MaxEvents = 1
SPECIFICATION Spec
INVARIANTS
    ScrambledOnSecureDemux
    OwnChannels
    TokenBound
    FilterKeepsItsSlot
    ReleasedOnClose
PROPERTIES
    KeysReachStreams
