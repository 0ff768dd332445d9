SPECIFICATION LogSpec
CONSTANTS
    n = 3
    bucket = 2
    Values <- MCValues
    Times <- MCTimes
    Revs = {1, 2}
    Nil = Nil
    Answers <- MCAnswers
    MaxPuts = 4
    ChartSizes <- MCChartSizes
INVARIANTS SeriesIsReference WritesCommute CurveUnbroken ScaleHonest
PROPERTY AuthorityIsKept
CHECK_DEADLOCK FALSE
