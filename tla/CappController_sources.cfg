SPECIFICATION FairSpec
CONSTANTS
    d1 = d1
    d2 = d2
    p1 = p1
    p2 = p2
    v1 = v1
    z1 = z1
    z2 = z2
    c1 = c1
    None = None
    Data = {d1, d2}
    Settings = {c1}
    Volumes = {v1}
    Sources = {p1, p2}
    Zones = {z1}
    Kinds = {"KafkaSource"}
    Specs <- SourceSpecs
    Configs <- OneConfig
    Legacy = FALSE
    Tampered = {}
    Removed = {}
    Broken = {}
    Reporting = {"KafkaSource"}
    Prompt = TRUE
    MaxUid = 1
    MaxMoves = 4
    MaxFaults = 1
    MaxLag = 2
PROPERTIES GroupStable ChildrenConverge ReadyIsCurrent
CHECK_DEADLOCK FALSE
