SPECIFICATION FairSpec
CONSTANTS
    Dashboards <- MCDashboards
    Sizes <- MCSizes
    Snapshots <- MCSnapshots
INVARIANTS EveryRowAssigned ReservedStay ImportanceDecides SpaceNotTrapped
INVARIANTS RefusedForCause DrawnWhole
PROPERTY ViewEnds
