SPECIFICATION Spec
CONSTANTS
    Absent = Absent
    Follow <- Walk
    Dashboards <- MCDashboards
    Possible <- MCPossible
    Chars <- MCChars
    MaxReplacements = 4
INVARIANT NumbersAreNamed
CHECK_DEADLOCK FALSE
