SPECIFICATION FairSpec
CONSTANTS
    c1 = c1
    Clients = {c1}
    MaxEvents = 2
    Capacity = 2
    Heartbeat = 2
    Entities = {}
    States = {}
    Attributes = {}
    AttrValues = {}
    Same = Same
    Malformed = Malformed
    NoEvent = NoEvent
INVARIANT Unhooked
PROPERTIES WriterFree GoroutineEnds ShowsNewest
CHECK_DEADLOCK FALSE
