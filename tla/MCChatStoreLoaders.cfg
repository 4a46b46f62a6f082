SPECIFICATION Spec
CONSTANTS
  Threads = {t1, t2}
  s1 = s1
  s2 = s2
  Sessions = {s1, s2}
  NoSession = NoSession
  Stored <- OldSession
  SameTime = {4}
  MaxRequests = 2
  MaxFaults = 0
  MaxApply = 1
INVARIANT
  OneLoader
CHECK_DEADLOCK FALSE
