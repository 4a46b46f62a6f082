SPECIFICATION Spec
CONSTANTS
  Publishers = {p1, p2}
  Workers = {w1, w2}
  s1 = s1
  Sessions = {s1}
  PoolSize = 2
  Program <- WriteWriteDelete
  MaxFaults = 1
INVARIANTS
  TypeOK
  AtLeastOnce
  RepeatsNeedReturn
  BoundedOvertaking
PROPERTIES
  QueueDrains
  ShutdownEnds
  ImplementsAsync
CHECK_DEADLOCK FALSE
