SPECIFICATION Spec
CONSTANTS
  Threads = {t1, t2}
  s1 = s1
  s2 = s2
  n1 = n1
  blank = blank
  Sessions = {s1, s2}
  Names = {n1}
  NoName = NoName
  Inputs = {n1, blank}
  Saved <- Trimmed
  Stored <- OldSession
  MaxRequests = 4
  MaxFaults = 1
  MaxApply = 1
SYMMETRY Symmetric
INVARIANTS
  TypeOK
  SettledNameIsShown
  TitleIsFirstQuestion
  OnlyFaultsRefuse
CHECK_DEADLOCK FALSE
