SPECIFICATION Spec
CONSTANTS
  Users = {u1}
  NoUser = NoUser
  Names = {"n1"}
  Roles = {"r1"}
  Passwords = {p1, p2}
  NoPassword = NoPassword
  Tokens = {t1, t2}
  Requests = {q1, q2, q3}
  Threshold = 2
  MaxChanges = 4
  MaxFailures = 4
SYMMETRY Interchangeable
INVARIANTS CountAndLockAgree LockStopsAttempts AuditExplainsVersion
PROPERTY EndedStaysEnded
CHECK_DEADLOCK FALSE
