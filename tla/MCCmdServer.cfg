CONSTANTS
  k1 = k1
  k2 = k2
  Main = Main
  NoAct = NoAct
  Conns <- TwoConns
  BUFSIZE = 4
  SENDWINDOWSIZE = 1
  Uninitialised = {0, 1}
  MaxBytes = 2
  MainSends = 1
SPECIFICATION FairSpec
INVARIANT TypeOK
INVARIANT ActivatedWhenBlocked
INVARIANT NoJunkSent
INVARIANT NothingLostAlone
INVARIANT CommandIntact
PROPERTY SendEnds
CHECK_DEADLOCK FALSE
