\* Numbers that fit count_t, and slices that are advanced and shortened in pairs.
CONSTANTS
  Arr = {a, b}
  Slice = {s}
  Val = {0, 1}
  None = None
  Zero = 0
  Capacity = 2
  CountMod = 4
  Numbers <- MCNumbers
  Paired = TRUE
  MaxAdvance = 3
SPECIFICATION Spec
INVARIANTS SlicesEnd ElementsInside
PROPERTIES ImplementsSequences OperationsExact
CHECK_DEADLOCK FALSE
