\* Every form of eight phrases that opens and closes loops, branches and epilogues.
CONSTANTS
  VarType <- MCVarType
  Natives = {}
  Callees = {}
  MaxFrame = 100
  MaxCode = 100
  Vocabularies <- MCVocabularies
  Context <- MCContext
SPECIFICATION FormSpec
INVARIANTS TreeShaped InPlace AcceptedFormsCompile OutputCertified
PROPERTY BreaksReachTheirLoop
CHECK_DEADLOCK FALSE
