SPECIFICATION Spec
CONSTANTS
    Absent = Absent
    Follow <- Walk
    Dashboards <- MCDashboards
    Possible <- MCPossible
    Chars <- MCChars
    MaxReplacements = 4
INVARIANTS TableComplete NearestFirst ShownIsKnown StripIsKnown DecisionsAreFounded
PROPERTY RowsHoldStill
CHECK_DEADLOCK FALSE
