SPECIFICATION Spec
CONSTANTS
  Threads = {t1, t2}
  s1 = s1
  s2 = s2
  Sessions = {s1, s2}
  NoSession = NoSession
  Stored <- OneMessage
  SameTime = {3}
  MaxRequests = 2
  MaxFaults = 1
  MaxApply = 2
SYMMETRY Symmetric
INVARIANTS
  TypeOK
  
  
  SingleLoadIsFaithful
  ListedOnce
CHECK_DEADLOCK FALSE
