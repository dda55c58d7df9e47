\* Two calls at once through every configuration.
SPECIFICATION FairSpec
CONSTANTS
    Calls = {c1, c2}
    c1 = c1
    c2 = c2
    Configs <- AllConfigs
    Requests <- AllRequests
    Subnet <- AllSubnets
    Matched <- AllMatched
    Loopback6 = "::1"
    Localhost = "localhost"
    Empty = ""
INVARIANTS
    RoutedByRules
    RefusedUnmatched
    PanicNeedsCause
    Inv
PROPERTY EveryCallDecided
\* calls end
CHECK_DEADLOCK FALSE
