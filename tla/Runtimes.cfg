CONSTANTS
    Cases <- MCCases
    MaxLosses = 2
    MaxVerifies = 1
SPECIFICATION MCSpec
INVARIANTS
    RuntimesTypeOK
    ManifestIsTrue
    AnswersAreTrue
    RequestIsSettled
    GatesHold
    EndIsDocumented
PROPERTIES
    ManifestMovesOn
    RuntimesEnd
CHECK_DEADLOCK FALSE
