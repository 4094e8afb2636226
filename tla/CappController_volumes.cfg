SPECIFICATION FairSpec
CONSTANTS
    d1 = d1
    d2 = d2
    p1 = p1
    p2 = p2
    v1 = v1
    z1 = z1
    z2 = z2
    c1 = c1
    None = None
    Data = {d1, d2}
    Settings = {c1}
    Volumes = {v1}
    Sources = {p1}
    Zones = {z1}
    Kinds = {"NfsPvc"}
    Specs <- VolumeSpecs
    Configs <- OneConfig
    Legacy = FALSE
    Tampered = {}
    Removed = {}
    Broken = {}
    Reporting = {}
    Prompt = FALSE
    MaxUid = 1
    MaxMoves = 3
    MaxFaults = 0
    MaxLag = 2
PROPERTIES ChildrenConverge
CHECK_DEADLOCK FALSE
