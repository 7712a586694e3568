SPECIFICATION FairSpec
CONSTANTS
  a = a
  b = b
  cli = cli
  mcp = mcp
  NoTask = NoTask
  Task = {a, b}
  Broker = {mcp}
  Server = mcp
  Mock = {a}
  Direct = {b}
  Watched = {a, b}
  Limit = 2
  MaxEvents = 5
  MaxCrashes = 1
INVARIANTS
    TypeOK
    DeliveredExactly
    LegalHistory
PROPERTIES
    FinishedIsObserved
CHECK_DEADLOCK FALSE
