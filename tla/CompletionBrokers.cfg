SPECIFICATION Spec
CONSTANTS
  a = a
  b = b
  cli = cli
  mcp = mcp
  NoTask = NoTask
  Task = {b}
  Broker = {mcp, cli}
  Server = mcp
  Mock = {}
  Direct = {}
  Watched = {b}
  Limit = 1
  MaxEvents = 3
  MaxCrashes = 0
INVARIANTS
    LogTellsState
CHECK_DEADLOCK FALSE
