\* One call of a page, for every scenario of MCScenarios.
SPECIFICATION FairSpec
CONSTANTS
    Scenarios <- MCScenarios
    Trailers <- MCTrailers
    MaxDelay = 5000
INVARIANTS
    TypeOK
    EndedIsAnswered
    AnswerIsFaithful
    RequestIsWhole
PROPERTIES
    ImplementsUnaryCall
    DeadlineAnswers
\* the call ends
CHECK_DEADLOCK FALSE
