SPECIFICATION FairSpec
CONSTANTS
    d1 = d1
    d2 = d2
    p1 = p1
    p2 = p2
    v1 = v1
    z1 = z1
    z2 = z2
    c1 = c1
    None = None
    Data = {d1, d2}
    Settings = {c1}
    Volumes = {v1}
    Sources = {p1}
    Zones = {z1}
    Kinds = {"Certificate", "DomainMapping", "Secret"}
    Specs <- RouteSpecs
    Configs <- OneConfig
    Legacy = TRUE
    Tampered = {}
    Removed = {}
    Broken = {}
    Reporting = {"Certificate", "DomainMapping"}
    Prompt = TRUE
    MaxUid = 1
    MaxMoves = 2
    MaxFaults = 1
    MaxLag = 2
INVARIANTS NoOrphanOutlivesCapp
PROPERTIES ReadyIsCurrent CleanedUp ImplementsLifecycle
CHECK_DEADLOCK FALSE
