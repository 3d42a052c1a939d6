\* Two hardware ids that two filters of either kind take in turn.
CONSTANTS
    s1 = s1
    s2 = s2
    r1 = r1
    FilterCount = 2
    Filters = {s1, r1}
    RecordFilters = {r1}
    Null = Null
    NoEntry = NoEntry
SPECIFICATION Spec
INVARIANTS
    OneOwner
    TablesAgree
    OwnDataOnly
    SerialFilterRegistered
PROPERTY
    MediaSyncKept
