CONSTANT Inputs <- AllInputs
SPECIFICATION FairSpec
INVARIANT TypeOK
INVARIANT OneUseOfBuffer
INVARIANT WireIntact
PROPERTY ImplementsStream
PROPERTY ReadEnds
CHECK_DEADLOCK FALSE
