CONSTANT Inputs <- ClosedTerminal
SPECIFICATION Spec
INVARIANT EndIsPassedOn
CHECK_DEADLOCK FALSE
