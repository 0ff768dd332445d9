SPECIFICATION Spec
CONSTANTS
    e1 = e1
    e2 = e2
    a1 = a1
    a2 = a2
    v1 = v1
    v2 = v2
    on = on
    off = off
    Entities = {e1, e2}
    States = {on, off}
    Attributes = {a1, a2}
    AttrValues = {v1, v2}
    Same = Same
    Malformed = Malformed
    NoEvent = NoEvent
    Capacity = 1
    Heartbeat = 2
    Worlds <- MCWorlds
    MaxChanges = 2
    MaxConnects = 2
    MaxFaults = 0
INVARIANT LagIsRecoverable
CHECK_DEADLOCK FALSE
