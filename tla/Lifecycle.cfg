\* One task of every runtime and mode, up to three losses of the broker, with
\* directories that may resist removal.
CONSTANTS
    Task = {t1}
    NoTask = NoTask
    Request <- AllRequests
    MaxConcurrency = 1
    MaxRestarts = 3
    Completable = {"mock"}
    GatedCollect = FALSE
    RemovalFails = TRUE
    ProcStartIdentity = TRUE
SPECIFICATION FairSpec
INVARIANTS
    TypeOK
    LiveWriterKeepsWorkspace
    SuccessIsObserved
    ClaimedStopIsStopped
    SettledTaskFreesSource
    ControlHolds
PROPERTIES
    ImplementsLaunches
    StartedTaskSettles
CHECK_DEADLOCK FALSE
