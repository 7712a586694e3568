\* Two isolated writers of one source, where process identities cannot be
\* compared (not Linux).
CONSTANTS
    Task = {t1, t2}
    NoTask = NoTask
    Request <- WriterRequests
    MaxConcurrency = 2
    MaxRestarts = 1
    Completable = {"mock"}
    GatedCollect = FALSE
    RemovalFails = FALSE
    ProcStartIdentity = FALSE
SPECIFICATION Spec
SYMMETRY TaskSymmetry
INVARIANTS
    OneWriterPerSource
    NoOrphanWorktree
PROPERTIES
    ImplementsIsolation
CHECK_DEADLOCK FALSE
