\* An entry whose ports are free, interrupted at any time.
SPECIFICATION Spec
CONSTANT MaxCalls = 1
INVARIANT NeverPanics
\* the process ends
CHECK_DEADLOCK FALSE
