CONSTANT TimeSteps <- MCTimeSteps
SPECIFICATION Spec
INVARIANT AbsentOptionsKeepProject
CHECK_DEADLOCK FALSE
