\* Room for two functions and two literals; forms of up to three words.
CONSTANTS
  Values = {"1", "2"}
  Lines <- MCLines
  NoName = NoName
  MaxGlobals = 3
  MaxFuncs = 2
  MaxWords = 3
  Compile <- vm_compile_no_defers
  Run <- vm_run
SPECIFICATION Spec
INVARIANT LiteralsOwned
PROPERTY ImplementsDictionary
CHECK_DEADLOCK FALSE
