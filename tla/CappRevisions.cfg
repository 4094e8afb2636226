SPECIFICATION FairSpec
CONSTANTS
    Data = {d1, d2, d3}
    Limits = {2}
    SameSecond = FALSE
    MayRevert = FALSE
    ListLimit = 3
    None = None
    MaxUid = 1
    MaxMoves = 4
    MaxFaults = 1
INVARIANTS TypeOK AdjacentRevisionsDiffer RetentionBound
PROPERTIES NumbersGrow LatestSurvives EventuallyRecorded ImplementsHistory
CHECK_DEADLOCK FALSE
