\* One call, unary or stream, for all 256 configurations.
SPECIFICATION FairSpec
CONSTANT Optional <- AllOptional
INVARIANTS
    TypeOK
    GuardsBeforeHandler
    PanicIsRecovered
    RecordedAsAnswered
    EntryReachesHandler
    RaceNeedsTimeout
PROPERTIES
    ImplementsAccountedCall
    TimeoutAnswers
\* the call ends
CHECK_DEADLOCK FALSE
