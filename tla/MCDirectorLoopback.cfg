\* A call from ::1 is refused although a rule has ::1 in its CIDR.
SPECIFICATION Spec
CONSTANTS
    Calls = {c1, c2}
    c1 = c1
    c2 = c2
    Configs <- AllConfigs
    Requests <- AllRequests
    Subnet <- AllSubnets
    Matched <- AllMatched
    Loopback6 = "::1"
    Localhost = "localhost"
    Empty = ""
\* calls end
CHECK_DEADLOCK FALSE
INVARIANT AddressInCidrIsRouted
