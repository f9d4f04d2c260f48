\* A break that crosses three branches, and a cleanup that crashes on the break path.
CONSTANTS
  Func <- MCFunc
  NoFunc = NoFunc
  Code <- MCCode
  Entry <- Unkept
  RetSize = 2
  AllocMayFail = FALSE
  MaxStorage = 20
  SlicesLive = TRUE
  NativeResults = {"CRASH"}
  MaxRuns = 1
  Named <- MCNamed
  MaxTrace = 9
  Event <- MCEvent
  Region <- MCRegion
  CleanupOf <- MCCleanupOf
SPECIFICATION ExecutionSpec
INVARIANT CleanedOnceEach
CHECK_DEADLOCK FALSE
