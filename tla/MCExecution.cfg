\* Breaks that cross at most two branches, cleanups that only crash off the break
\* path; runs of up to nine events.
CONSTANTS
  Func <- MCFunc
  NoFunc = NoFunc
  Code <- MCCode
  Entry <- Forms
  RetSize = 2
  AllocMayFail = FALSE
  MaxStorage = 20
  SlicesLive = TRUE
  NativeResults = {}
  MaxRuns = 1
  Named <- MCNamed
  MaxTrace = 9
  Event <- MCEvent
  Region <- MCRegion
  CleanupOf <- MCCleanupOf
SPECIFICATION ExecutionSpec
INVARIANTS KeepsItsMeaning CrashesAreReported
PROPERTY PromiseKept
CHECK_DEADLOCK FALSE
