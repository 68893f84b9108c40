CONSTANTS
  Characters <- MCCharacters
  Givens <- MCGivens
  ArgvSlots = 2
SPECIFICATION FairSpec
INVARIANT TypeOK
INVARIANT ArgvMeans
INVARIANT RanAsAsked
INVARIANT EnvironmentShown
PROPERTY ProgramEnds
CHECK_DEADLOCK FALSE
