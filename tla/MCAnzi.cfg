SPECIFICATION Spec
CONSTANTS
  Sources = {"a", "b"}
  Dumps <- MCDumps
  Outages = {{}, {"a"}}
  Parsed <- MCParsed
  U32 = 65536
  MaxRDBConcurrency = 1
  Buf = 1
  MaxWrites = 1
  MaxFaults = 1
CHECK_DEADLOCK FALSE
INVARIANTS Migrated BarrierHolds
PROPERTIES EveryInstanceFollowed
