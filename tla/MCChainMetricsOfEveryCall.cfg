\* The metrics of a call that panicked.
SPECIFICATION Spec
CONSTANT Optional <- AllOptional
INVARIANT MetricsOfEveryCall
\* the call ends
CHECK_DEADLOCK FALSE
