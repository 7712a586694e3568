SPECIFICATION MCSpec
CONSTANTS
    Id = {"a", "b", "c", "d"}
    None = None
    Plans <- MCPlans
    Councils <- MCCouncils
    StageId = {1, 2, 3, 4}
    PageLimit = 1
    MaxEvents = 5
    MaxTicks = 1
INVARIANTS
    WorkflowsTypeOK
    DebateIsBacked
    CursorMissesNothing
    CouncilHolds
PROPERTIES
    WorkflowReturns
CHECK_DEADLOCK FALSE
