CONSTANT TimeSteps <- MCTimeSteps
SPECIFICATION Spec
INVARIANT AlgorithmNeverTerminates
CHECK_DEADLOCK FALSE
