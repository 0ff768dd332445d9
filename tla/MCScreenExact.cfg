SPECIFICATION Spec
CONSTANTS
    Dashboards <- MCDashboards
    Sizes <- MCSizes
    Snapshots <- MCSnapshots
INVARIANT ExactlyFills
