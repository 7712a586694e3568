SPECIFICATION Spec
INVARIANTS CollectedFailureIsReal
CHECK_DEADLOCK FALSE
