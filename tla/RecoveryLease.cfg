CONSTANTS
    Broker = {b1, b2, b3}
    First = b1
    Lost = b3
    Launch = {l1}
SPECIFICATION MCSpec
INVARIANTS
    TypeOK
    OneReconciler
    ClaimsAreTrue
PROPERTIES
    StrandedIsFound
CHECK_DEADLOCK FALSE
