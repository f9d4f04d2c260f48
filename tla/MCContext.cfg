\* Five colliding projections interned in any order, holds of two on three of them.
CONSTANTS
  Key <- MCKey
  Val = {0, 1, 2, 3, 4}
  Free = Free
  None = None
  Hash <- MCHash
  FirstCap = 2
  MaxIndex = 4
  Handle = {0, 1}
  Hold = {1, 2, 3}
  MaxHolds = 5
SPECIFICATION ContextSpec
INVARIANTS TableInv SearchesEnd GetFindsStored IndexedOnce RowsInside
PROPERTIES ImplementsMap GrowthEnds ImplementsLists
CHECK_DEADLOCK FALSE
