\* A claude_code launch whose broker is lost and which another one adopts.
CONSTANTS
    Cases <- MCCases
    MaxLosses = 1
    MaxVerifies = 0
SPECIFICATION Spec
INVARIANTS
    ErrorIsFailure
CHECK_DEADLOCK FALSE
