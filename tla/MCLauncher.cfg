CONSTANTS
  t1 = t1
  t2 = t2
  t3 = t3
  c1 = c1
  c2 = c2
  NoOne = NoOne
  Ebbs = {"CmdServer", "Printer"}
  Events <- MCEvents
  Cores <- MCCores
  CoreOf <- MCCoreOf
  AnswerCore = c1
  Requests <- MCRequests
SPECIFICATION LaunchFairSpec
INVARIANT LaunchTypeOK
INVARIANT SameObject
INVARIANT NoLeak
INVARIANT PrinterFound
PROPERTY ImplementsOneObject
PROPERTY FaultEnds
CHECK_DEADLOCK FALSE
