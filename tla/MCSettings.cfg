CONSTANT TimeSteps <- MCTimeSteps
SPECIFICATION Spec
INVARIANT Consistent
CHECK_DEADLOCK FALSE
