CONSTANT n = 3
SPECIFICATION FairSpec
INVARIANT TypeOK
INVARIANT AllUpForAppMain
PROPERTY AppMainStarts
PROPERTY InterruptExits
CHECK_DEADLOCK FALSE
