CONSTANTS
  o1 = o1
  o2 = o2
  o3 = o3
  o4 = o4
  good = good
  missing = missing
  NoCall = NoCall
  Calls <- MCCalls
  Paths <- MCPaths
  Openable <- MCOpenable
SPECIFICATION FairSpec
INVARIANT TypeOK
INVARIANT RightStream
INVARIANT OnePromise
PROPERTY OpenEnds
CHECK_DEADLOCK FALSE
