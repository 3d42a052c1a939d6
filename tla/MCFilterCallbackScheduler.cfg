\* The demux's data thread and a client, against the callback thread.
CONSTANTS
    Callers = {dmx, app}
    dmx = dmx
    app = app
    Lengths = {0, 1, 2}
    TimeDelays = {0, 100}
    SizeDelays = {0, 2}
    MaxEvents = 3
SPECIFICATION FairSpec
INVARIANTS
    NoStrandedEvents
    TimeoutMatchesHint
    DataLengthAgrees
PROPERTIES
    StreamSpec
    EventuallyHandedOver
    StopReturns
CHECK_DEADLOCK FALSE
