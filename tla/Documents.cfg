\* Every statement and its example.
SPECIFICATION Spec
INVARIANT DocumentsKept
CHECK_DEADLOCK FALSE
