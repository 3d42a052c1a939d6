\* Two filters that take one hardware id in turn.
CONSTANTS
    s1 = s1
    s2 = s2
    r1 = r1
    FilterCount = 1
    Filters = {s1, s2}
    RecordFilters = {}
    Null = Null
    NoEntry = NoEntry
SPECIFICATION Spec
INVARIANT OpenFilterRegistered
