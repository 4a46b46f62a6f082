SPECIFICATION Spec
CONSTANTS
  Publishers = {p1, p2}
  Workers = {w1, w2}
  s1 = s1
  Sessions = {s1}
  PoolSize = 2
  Program <- WriteWriteDelete
  MaxFaults = 0
INVARIANT
  DeleteIsFinal
CHECK_DEADLOCK FALSE
