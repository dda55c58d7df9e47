\* A stream handler's context.
SPECIFICATION Spec
CONSTANT Optional <- AllOptional
INVARIANT StreamHandlerSeesEntry
\* the call ends
CHECK_DEADLOCK FALSE
