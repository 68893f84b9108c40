CONSTANTS
  NumCpus = 2
  Requested = 2
  cnt = 1
  Sites = 1
  Calls = 2
SPECIFICATION FairSpec
PROPERTY CallsEnd
CHECK_DEADLOCK FALSE
