\* Two descramblers that share the ca device, and each kind of event on its own.
CONSTANTS
    d1 = d1
    d2 = d2
    p1 = p1
    t1 = t1
    t2 = t2
    Descramblers = {d1, d2}
    Pids = {p1}
    Tokens = {t1, t2}
    None = None
    NumSessions = 2
    NumChannels = 3
    MaxUse = 3
    MaxEvents = 1
SPECIFICATION Spec
INVARIANTS
    KeysOfCurrentToken
    NothingLeftBehind
    NoThreadAfterClose
PROPERTIES
    KeysReachChannels
    CloseReturns
