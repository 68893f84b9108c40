CONSTANTS
  k1 = k1
  k2 = k2
  Main = Main
  NoAct = NoAct
  Conns <- TwoConns
  BUFSIZE = 4
  SENDWINDOWSIZE = 1
  Uninitialised = {0}
  MaxBytes = 2
  MainSends = 1
SPECIFICATION Spec
INVARIANT SegmentsFit
CHECK_DEADLOCK FALSE
