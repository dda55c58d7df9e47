\* The payload map shared with an abandoned handler.
SPECIFICATION Spec
CONSTANT Optional <- AllOptional
INVARIANT NoMapRace
\* the call ends
CHECK_DEADLOCK FALSE
