\* A broker lost between the spawn and its record.
CONSTANTS
    Task = {t1}
    NoTask = NoTask
    Request <- DurableRequests
    MaxConcurrency = 1
    MaxRestarts = 2
    Completable = {"mock"}
    GatedCollect = TRUE
    RemovalFails = FALSE
    ProcStartIdentity = TRUE
SPECIFICATION Spec
PROPERTIES
    NoReleaseUnderWriter
CHECK_DEADLOCK FALSE
