\* A 64-bit target.
CONSTANTS
  NumSize = 8
  CountSize = 4
  PtrSize = 8
  CellAlign = 8
  MaxTypes = 5
  MaxFields = 2
  Capacities = {3}
SPECIFICATION Spec
INVARIANTS RefusesRecursion PartsFit PortalsMarked
CHECK_DEADLOCK FALSE
