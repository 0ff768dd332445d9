SPECIFICATION Spec
CONSTANTS
    home = home
    temp = temp
    known = known
    data = data
    Entities = {home}
    States = {known}
    Attributes = {"daily", "hourly"}
    AttrValues = {data}
    Same = Same
    Malformed = Malformed
    forecast = home
    entityIDs = {temp}
    MinBackoff = 1
    MaxBackoff = 3
    MaxRevisions = 1
    MaxWire = 1
INVARIANT RefetchLands
