\* One proxied call: two messages each way.  No symmetry: the run checks
\* liveness too.
SPECIFICATION FairSpec
CONSTANTS
    m1 = m1
    m2 = m2
    big = big
    NoMsg = NoMsg
    Msg <- MCMsg
    Oversize <- MCOversize
    MaxUp = 2
    MaxDown = 2
INVARIANTS
    InOrder
    HalfCloseIsComplete
    StatusIsComplete
    AbortIsJustified
    NeverFallsThrough
    Inv
PROPERTIES
    ImplementsRelay
    LeaveEndsCall
    BackendEndsCall
    PumpsEnd
\* the call ends
CHECK_DEADLOCK FALSE
