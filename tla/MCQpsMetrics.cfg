SPECIFICATION Spec
CONSTANTS
  Threads = {t1, t2}
  Windows <- MCWindows
  Kept = 2
  MaxRequests = 4
  MaxTime = 4
SYMMETRY Symmetric
INVARIANTS
  TypeOK
  OnlyOldIsLost
  SpansFitWindows
CHECK_DEADLOCK FALSE
