SPECIFICATION FairSpec
CONSTANTS
    Data = {d1, d2}
    Limits = {1}
    SameSecond = FALSE
    MayRevert = FALSE
    ListLimit = 3
    None = None
    MaxUid = 1
    MaxMoves = 3
    MaxFaults = 0
PROPERTY LatestSurvives
CHECK_DEADLOCK FALSE
