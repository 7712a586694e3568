SPECIFICATION MCSpec
CONSTANTS
    Proc = {p1, p2}
    Commands <- MCCommands
    MaxEdits = 1
    Broker = {b1, b2}
    Asks <- MCAsks
    RawConfigs <- MCConfigs
    None = None
    MaxStarts = 2
    MaxLosses = 1
SYMMETRY Symmetry
INVARIANTS
    ConfigTypeOK
    LaunchIsAsAsked
    ReadOnlyCannotWrite
PROPERTIES
    FilesAreKept
CHECK_DEADLOCK FALSE
