SPECIFICATION Spec
CONSTANTS
  Kinds = {"native"}
  MaxTurns = 2
  MaxCalls = 2
  MaxChunks = 0
  MaxFaults = 0
  MaxLeaves = 0
INVARIANT
  EvenIsUser
CHECK_DEADLOCK FALSE
