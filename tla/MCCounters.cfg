CONSTANTS
  NumCpus = 3
  Requested <- Negative
  cnt = 2
  Sites = 3
  Calls = 6
  Kinds = {"MPSharedCtr", "MPSharedEbbCtr", "MPMultiEbbCtr"}
SPECIFICATION CtrFairSpec
INVARIANT CtrTypeOK
INVARIANT CountsAddUp
INVARIANT ReportsThisCall
INVARIANT WorkTogether
INVARIANT FrameAlive
PROPERTY EndsOrLeftBehind
CHECK_DEADLOCK FALSE
