CONSTANTS
  t1 = t1
  t2 = t2
  t3 = t3
  c1 = c1
  c2 = c2
  NoOne = NoOne
  Ebbs = {"CmdLineArgs", "Environment", "InputStream", "FS"}
  Events <- MCEvents
  Cores <- MCCores
  CoreOf <- MCCoreOf
  Uses <- MCUses
SPECIFICATION FairSpec
INVARIANT TypeOK
INVARIANT MutexHeld
PROPERTY ImplementsOneObject
PROPERTY FaultEnds
CHECK_DEADLOCK FALSE
