\* The answer of a unary call that timed out.
SPECIFICATION Spec
CONSTANT Fields <- UnaryFields
INVARIANT TimeoutAnswer
\* the call ends
CHECK_DEADLOCK FALSE
