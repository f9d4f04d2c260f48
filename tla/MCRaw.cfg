\* Programs of two and of four instructions; no run may follow the first.
CONSTANTS
  Func <- MCFunc
  NoFunc = NoFunc
  Code <- MCCode
  Entry <- MCFunc
  RetSize = 2
  AllocMayFail = FALSE
  MaxStorage = 9
  SlicesLive = FALSE
  NativeResults <- MCResults
  MaxRuns = 1
SPECIFICATION Spec
PROPERTIES UnwindTruncates FirstErrorWins Terminates
CHECK_DEADLOCK FALSE
