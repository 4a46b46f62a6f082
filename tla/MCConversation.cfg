SPECIFICATION Spec
CONSTANTS
  Kinds = {"plain", "native", "mcp", "stream"}
  MaxTurns = 2
  MaxCalls = 2
  MaxChunks = 1
  MaxFaults = 1
  MaxLeaves = 1
INVARIANTS
  TypeOK
  HistoryIsPublished
  RolesByParity
  StrategyIsOwn
  DoneMeansSaved
  FramesInOrder
PROPERTY
  PageIsReleased
CHECK_DEADLOCK FALSE
