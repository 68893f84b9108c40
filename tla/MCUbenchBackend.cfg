CONSTANTS
  Characters <- MCCharacters
  Givens <- BackendGivens
  ArgvSlots = 2
SPECIFICATION FairSpec
PROPERTY BackendRuns
CHECK_DEADLOCK FALSE
