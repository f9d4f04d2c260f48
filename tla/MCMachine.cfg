\* Any realloc may fail; storage holds one run of any entry, and part of another on what it left.
CONSTANTS
  Func <- MCFunc
  NoFunc = NoFunc
  Code <- MCCode
  Cert <- MCCert
  Args <- MCArgs
  Ins <- MCIns
  Entry = {"main", "down", "once"}
  RetSize = 2
  AllocMayFail = TRUE
  MaxStorage = 12
  SlicesLive = TRUE
  NativeResults <- MCResults
  MaxRuns = 3
SPECIFICATION Spec
INVARIANTS TypeOK ControlInv NoDefects Defined LivePointers PadsSeeTheirParams
PROPERTY BalancedReturns
CHECK_DEADLOCK FALSE
