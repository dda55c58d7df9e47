\* A unary call: a response and an error are shared.
SPECIFICATION FairSpec
CONSTANT Fields <- UnaryFields
INVARIANTS
    TypeOK
    FinishedAnswer
    PanicIsKept
PROPERTY AlwaysAnswers
\* the call ends
CHECK_DEADLOCK FALSE
