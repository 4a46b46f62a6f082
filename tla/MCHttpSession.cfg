SPECIFICATION Spec
CONSTANTS
  Threads = {t1, t2}
  Users = {u1, u2}
  Nobody = Nobody
  MaxRequests = 4
  MaxExpiries = 1
SYMMETRY Symmetric
INVARIANTS
  TypeOK
  LogoutIsFinal
  ActsAsOneUser
  ExpiredIsGone
CHECK_DEADLOCK FALSE
