SPECIFICATION FairSpec
CONSTANTS
    Char <- Characters
    None = None
    s1 = s1
    v1 = v1
    Hostnames <- AllHostnames
    Secrets = {s1}
    Volumes = {v1}
    Sources <- TwoSources
    Metrics = {"rps", "cpu"}
    Quantities = {"cpu", "memory"}
    Amounts = {0, 1, 2, 3}
    Capps <- TwoCapps
    Specs <- HostnameSpecs
    Configs <- ShortAllowed
    Keys <- AllKeys
    MaxMoves = 2
PROPERTY HeldHostnamesStay
CHECK_DEADLOCK FALSE
