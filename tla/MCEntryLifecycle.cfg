\* One or two ports, Interrupt at any time, up to two calls of each kind.
SPECIFICATION FairSpec
CONSTANT MaxCalls = 2
INVARIANTS
    TypeOK
    EventFinishedOnce
    GatewayHasBackend
    InterruptDrains
    CleanWithTwoPorts
PROPERTIES
    InterruptEnds
    PortsReleased
\* the process ends
CHECK_DEADLOCK FALSE
