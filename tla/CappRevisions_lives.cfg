SPECIFICATION FairSpec
CONSTANTS
    Data = {d1, d2}
    Limits = {1, 2}
    SameSecond = TRUE
    MayRevert = TRUE
    ListLimit = 2
    None = None
    MaxUid = 2
    MaxMoves = 3
    MaxFaults = 1
PROPERTY OnlyOwnRevisions
CHECK_DEADLOCK FALSE
